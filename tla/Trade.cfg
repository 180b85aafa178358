\* Three players with three items; one may ask for a trade from within one.
SPECIFICATION MCSpec
CONSTANTS
  a = a
  b = b
  c = c
  Player <- MCPlayer
  Free <- MCFree
  Item = {i, j, k}
  MaxInventory = 3
  OpenSlots = 2
  MaxWeight <- MCMaxWeight
  MaxZeny = 1
  Rich <- MCFree
  Window = 2
  MaxEvents = 2
  Nobody = Nobody
SYMMETRY Symmetry
INVARIANTS
  TypeOK
  MutualUnlessMixed
PROPERTIES
  Conserved
  AsSeen
  WholeDealIfRoom
