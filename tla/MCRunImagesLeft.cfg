SPECIFICATION AloneSpec
CONSTANTS
  Attempt = {a1, a2}
  Nobody = Nobody
  RowCount = 1
  ParentRow <- Single
  MaxFaults = 1
INVARIANTS UndoneHasNoImages
CHECK_DEADLOCK FALSE
