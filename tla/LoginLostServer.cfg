\* A char server that went away, and the accounts it had.
SPECIFICATION Spec
CONSTANTS
  Half <- MCHalf
  Account <- OneAccount
  CharServer = {0}
  Request = {1}
  Tid = {1, 2}
  MaxLogins = 2
  MaxQueue = 1
  MaxOnline = 0
  NoUser = NoUser
INVARIANTS
  NobodyOnLostServer
