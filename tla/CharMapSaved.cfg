\* Two map servers, a link that breaks: players on their way to the other server.
SPECIFICATION Spec
CONSTANTS
  Account = {"a"}
  Char = {1}
  AccountOf <- OneAccountOf
  MapServer = {0, 1}
  Login = {1}
  LoginAccount <- OneLoginAccount
  Fd = {1}
  Tid = {1}
  LowByteZero = {}
  MaxVersion = 1
  MaxQueue = 1
  NoUser = NoUser
  LoginLinkFails = FALSE
  CharRestarts = 0
  Breaks = 1
  DefaultMapAt = 0
  Timely = TRUE
INVARIANTS
  NothingLost
