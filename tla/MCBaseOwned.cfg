SPECIFICATION Spec
CONSTANTS
  Cid = {c1, c2}
  Name <- Names
  Key <- Normal
  Spacer <- Spacers
  Base <- Reserved
  ChannelName <- Unusual
  OldId <- Shared
  FirstId = 3
  Request = {r1, r2}
  None = None
  MaxChanges = 1
  MaxWrites = 2
PROPERTIES BaseIsNeverOwned
