\* Two members, a bound item, one member who leaves, one break.
SPECIFICATION FairSpec
CONSTANTS
  Char = {"m1", "m2"}
  Item = {"b"}
  Bound = {"b"}
  Cap = 1
  MaxQueue = 1
  Leaves = 1
  Breaks = 1
  NoStore = NoStore
INVARIANTS
  TypeOK
  StatusHasHolder
  LockMeansClosed
  DataSync
  OneHolder
  UnsavedIsDirty
PROPERTIES
  LockReleased
