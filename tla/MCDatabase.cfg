SPECIFICATION Spec
CONSTANTS
  Live = live
  Spare = {s1, s2, s3, s4, s5}
  Absent = Absent
  Partial = Partial
  MaxWrites = 3
  MaxCommands = 4
  MaxFaults = 3
SYMMETRY Symmetry
INVARIANTS NothingLost
PROPERTIES RestoreTellsTheTruth KeptFilesStay
CHECK_DEADLOCK FALSE
