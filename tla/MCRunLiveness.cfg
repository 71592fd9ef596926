SPECIFICATION LiveSpec
CONSTANTS
  Attempt = {a1, a2}
  Nobody = Nobody
  RowCount = 2
  ParentRow <- Nested
  MaxFaults = 1
PROPERTIES
  UndoConverges
  ResumeConverges
CHECK_DEADLOCK FALSE
