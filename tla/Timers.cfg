\* One timer or six at first, functions that add, move and delete some.
SPECIFICATION FairSpec
CONSTANTS
  MaxTimers = 6
  Ops <- MCOps
  MaxTick = 2
  Late = 1
  None = None
INVARIANTS
  TypeOK
  HeapOrdered
  IdsOnce
PROPERTIES
  CatchesUp
CHECK_DEADLOCK FALSE
