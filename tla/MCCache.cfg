SPECIFICATION LiveSpec
CONSTANTS
  Reader = {r1, r2}
  Mutator = {m1, m2}
  Fetch = {f1, f2, f3}
  None = None
  MaxVersion = 2
INVARIANTS
  CacheNotOlderThanMutation
  ReadYourWrites
PROPERTIES
  CallersReturn
