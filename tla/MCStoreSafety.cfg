SPECIFICATION Spec
CONSTANTS
  Cid = {c1, c2}
  Name <- Names
  Key <- Normal
  Spacer <- Spacers
  Base <- Reserved
  ChannelName <- Usual
  OldId <- Images
  FirstId = 3
  Request = {r1, r2}
  None = None
  MaxChanges = 1
  MaxWrites = 2
SYMMETRY Symmetry
INVARIANTS
  OneImagePerChannel
  NeverAnothersPicture
  ListIsTrue
  OneBaseImage
PROPERTIES
  BackfillChangesNothingShown
  BaseIsNeverOwned
