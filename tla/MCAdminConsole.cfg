SPECIFICATION Spec
CONSTANTS
  KeycloakEnabled = TRUE
  MaxChanges = 1
  Channel = {c1, c2}
  Nothing = Nothing
  Slot <- MCSlot
  MaxInputs = 3
  MaxChoices = 3
  Unusable = {2}
INVARIANTS ListsAreCurrent ForbiddenOnlyWithoutThePage SavedBadgeIsTrue
PROPERTIES FramedIsNewest
CHECK_DEADLOCK FALSE
