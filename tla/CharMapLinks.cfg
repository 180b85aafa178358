\* Three map servers without players: connections that break, in any order.
SPECIFICATION Spec
CONSTANTS
  Account = {"a"}
  Char = {}
  AccountOf <- OneAccountOf
  MapServer = {0, 1, 2}
  Login = {}
  LoginAccount <- OneLoginAccount
  Fd = {}
  Tid = {}
  LowByteZero = {}
  MaxVersion = 0
  MaxQueue = 1
  NoUser = NoUser
  LoginLinkFails = FALSE
  CharRestarts = 1
  Breaks = 1
  DefaultMapAt = 0
  Timely = FALSE
INVARIANTS
  MapsShared
