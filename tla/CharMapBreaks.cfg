\* One map server whose link breaks, a restart of the char server, two logins.
SPECIFICATION FairSpec
CONSTANTS
  Account = {"a"}
  Char = {1}
  AccountOf <- OneAccountOf
  MapServer = {0}
  Login = {1, 2}
  LoginAccount <- OneLoginAccount
  Fd = {1}
  Tid = {1}
  LowByteZero = {}
  MaxVersion = 1
  MaxQueue = 1
  NoUser = NoUser
  LoginLinkFails = FALSE
  CharRestarts = 1
  Breaks = 1
  DefaultMapAt = 0
  Timely = FALSE
INVARIANTS
  TypeOK
  NothingLost
  OnlyGranted
PROPERTIES
  PlayedOnce
  NodesResolve
