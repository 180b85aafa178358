\* One account with two characters, any map server, any number of restarts.
SPECIFICATION OpenSpec
CONSTANTS
  Account = {"a"}
  Char = {1, 256}
  AccountOf <- OneAccountOf
  MapServer = {0}
  Login = {1}
  LoginAccount <- OneLoginAccount
  Fd = {1}
  Tid = {1}
  LowByteZero = {256}
  MaxVersion = 1
  MaxQueue = 1
  NoUser = NoUser
  Cmds = {"sendmap", "regmapuser", "save", "charselect", "setcharoffline", "setcharonline", "reqauth", "setalloffline", "changemap"}
  LoginLinkFails = FALSE
  CharRestarts = 0
INVARIANTS
  TypeOK
  TimersMatchEntries
  CacheIsCurrent
  EntryFdIsItsSession
