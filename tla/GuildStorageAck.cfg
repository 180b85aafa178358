\* A member with a bound item is expelled while he is online.
SPECIFICATION Spec
CONSTANTS
  Char = {"m1", "m2"}
  Item = {"i", "b"}
  Bound = {"b"}
  Cap = 2
  MaxQueue = 1
  Leaves = 1
  Breaks = 0
  NoStore = NoStore
INVARIANTS
  CleanIsSaved
