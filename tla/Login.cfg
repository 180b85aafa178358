\* One account on one char server: sessions, tickets, web tokens and what must happen in the end.
SPECIFICATION FairSpec
CONSTANTS
  Half <- MCHalf
  Account <- OneAccount
  CharServer = {0}
  Request = {1}
  Tid = {1, 2}
  MaxLogins = 3
  MaxQueue = 1
  MaxOnline = 1
  NoUser = NoUser
INVARIANTS
  TypeOK
  TimersMatchEntries
  AuthedHasDeadline
  OnlineTokenEnabled
  GrantedNotLive
PROPERTIES
  NewestLoginWins
  TicketsOnce
  AuthedResolved
  LogoutDisablesToken
