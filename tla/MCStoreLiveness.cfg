SPECIFICATION LiveSpec
CONSTANTS
  Cid = {c1, c2}
  Name <- Names
  Key <- Normal
  Spacer <- Spacers
  Base <- Reserved
  ChannelName <- Usual
  OldId <- Shared
  FirstId = 3
  Request = {r1, r2}
  None = None
  MaxChanges = 1
  MaxWrites = 1
PROPERTIES
  ReferencesConverge
  BaseIsNeverOwned
