SPECIFICATION LiveSpec
CONSTANTS
  Request = {r1, r2, r3, r4, r5}
  Concurrency = 2
  QueueLimit = 2
INVARIANTS
  Bounded
  NoSlotWasted
PROPERTIES
  FirstComeFirstServed
  Served
