\* Two map servers that players move between, every packet in any order, while the
\* link to the login server breaks.
SPECIFICATION Spec
CONSTANTS
  Account = {"a"}
  Char = {1}
  AccountOf <- OneAccountOf
  MapServer = {0, 1}
  Login = {1}
  LoginAccount <- OneLoginAccount
  Fd = {1}
  Tid = {1}
  LowByteZero = {}
  MaxVersion = 1
  MaxQueue = 1
  NoUser = NoUser
  LoginLinkFails = TRUE
  CharRestarts = 0
  Breaks = 0
  DefaultMapAt = 0
  Timely = TRUE
PROPERTIES
  PlayedOnce
