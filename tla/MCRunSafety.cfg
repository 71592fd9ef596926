SPECIFICATION Spec
CONSTANTS
  Attempt = {a1, a2}
  Nobody = Nobody
  RowCount = 2
  ParentRow <- Nested
  MaxFaults = 2
SYMMETRY Symmetry
INVARIANTS
  Traceable
  UndoneIsClean
  CompletedIsWhole
  PreparedUntilStored
PROPERTIES
  CreateAtMostOnce
  UndoIsFinal
CHECK_DEADLOCK FALSE
