------------------------- MODULE LoginServerProofs -------------------------
(***************************************************************************)
(* Proofs about LoginServer, for every set of accounts, char servers, timer   *)
(* ids and every bound.                                                      *)
(***************************************************************************)
EXTENDS LoginServer, SequenceTheorems, TLAPS

USE LoginAssumption

\* What any set of timers may be deleted from keeps its type.
LEMMA WithoutType ==
  ASSUME TypeOK, NEW ts
  PROVE  Without(ts) \in [Tid -> AccountId \cup {NoUser}]
  BY DEF TypeOK, Without

\* Putting entries of accounts on a char server keeps the tables well typed.
LEMMA AddOnlineUsersType ==
  ASSUME TypeOK, NEW c \in CharServer, NEW ids \in SUBSET AccountId,
         AddOnlineUsers(online_db, c, ids)
  PROVE  /\ online_db' \in [AccountId -> OnlineEntry \cup {NoUser}]
         /\ timer' \in [Tid -> AccountId \cup {NoUser}]
         /\ token_on' \subseteq Account
         /\ token_timer' \subseteq Account
  BY WithoutType DEF TypeOK, AddOnlineUsers, OnlineEntry

\* Removing entries keeps the tables well typed.
LEMMA RemoveOnlineUsersType ==
  ASSUME TypeOK, NEW ids \in SUBSET AccountId, RemoveOnlineUsers(ids)
  PROVE  /\ online_db' \in [AccountId -> OnlineEntry \cup {NoUser}]
         /\ timer' \in [Tid -> AccountId \cup {NoUser}]
         /\ token_on' \subseteq Account
         /\ token_timer' \subseteq Account
  BY WithoutType DEF TypeOK, RemoveOnlineUsers

\* A packet taken from a link is one of the protocol, and the rest are too.
LEMMA ReceiveType ==
  ASSUME TypeOK, NEW c \in CharServer, NEW cmd, Receive(c, cmd)
  PROVE  /\ Head(fromChar[c]) \in FromCharMsg
         /\ Head(fromChar[c]).cmd = cmd
         /\ fromChar' \in [CharServer -> Seq(FromCharMsg)]
<1>1. fromChar[c] \in Seq(FromCharMsg) /\ fromChar[c] # <<>>
  BY DEF TypeOK, Receive
<1>2. Head(fromChar[c]) \in FromCharMsg /\ Tail(fromChar[c]) \in Seq(FromCharMsg)
  BY <1>1
<1> QED
  BY <1>1, <1>2 DEF TypeOK, Receive

\* The fields of a ticket redemption (0x2712).
LEMMA ReqAuthMsg ==
  ASSUME NEW m \in FromCharMsg, m.cmd = "reqauth"
  PROVE  m.aid \in Account /\ m.ticket \in Ticket /\ m.req \in Request
  BY DEF FromCharMsg

\* The account of a packet that names one.
LEMMA AccountMsg ==
  ASSUME NEW m \in FromCharMsg,
         m.cmd \in {"setacconline", "setaccoffline", "pincode_authfail"}
  PROVE  m.aid \in Account
  BY DEF FromCharMsg

\* The accounts of an online list (0x272d).
LEMMA OnlineListMsg ==
  ASSUME NEW m \in FromCharMsg, m.cmd = "updonlinedb"
  PROVE  m.aids \in OnlineList
  BY DEF FromCharMsg

\* Every id read from an online list is some pair of halves.
LEMMA MisreadType ==
  ASSUME NEW aids \in OnlineList
  PROVE  {Misread(aids)[i] : i \in 1 .. Len(Misread(aids))} \subseteq AccountId
<1>1. PICK n \in 0 .. MaxOnline : aids \in [1 .. n -> Account]
  BY DEF OnlineList
<1>2. aids \in Seq(Account) /\ Len(aids) = n
  BY <1>1
<1>3. \A i \in 1 .. n : aids[i] \in Half \X Half
  BY <1>1 DEF AccountId
<1>4. Misread(aids) \in Seq(AccountId)
  BY <1>2, <1>3 DEF Misread, AccountId
<1> QED
  BY <1>4

\* Appending to the packets of a link keeps their type.
LEMMA AppendType ==
  ASSUME NEW Msg, NEW q \in [CharServer -> Seq(Msg)], NEW c \in CharServer,
         NEW m \in Msg
  PROVE  [q EXCEPT ![c] = Append(@, m)] \in [CharServer -> Seq(Msg)]
<1>1. Append(q[c], m) \in Seq(Msg)
  OBVIOUS
<1> QED
  BY <1>1

\* The empty server is well typed.
LEMMA InitType == Init => TypeOK
  BY DEF Init, TypeOK

\* The answer of 0x2713 is a truth value.
LEMMA EqualityIsBoolean ==
  ASSUME NEW x, NEW y
  PROVE  (x = y) \in BOOLEAN
  OBVIOUS

\* logclif_auth_ok, with each of its three outcomes, keeps the state well typed.
LEMMA LoginType ==
  ASSUME TypeOK, NEW a \in Account, Login(a)
  PROVE  TypeOK'
<1>1. CASE LoginNoCharServer(a)
  BY <1>1 DEF LoginNoCharServer, TypeOK, linkVars, history
<1>2. CASE LoginAlreadyOnline(a)
  <2> DEFINE kick == [cmd |-> "kick", aid |-> a]
  <2>1. kick \in ToCharMsg
    BY DEF ToCharMsg
  <2>2. toChar' \in [CharServer -> Seq(ToCharMsg)]
    BY <1>2, <2>1 DEF LoginAlreadyOnline, Broadcast, TypeOK
  <2>3. /\ timer' \in [Tid -> AccountId \cup {NoUser}]
        /\ online_db' \in [AccountId -> OnlineEntry \cup {NoUser}]
    <3>1. CASE online_db[a].waiting_disconnect = INVALID_TIMER
      <4>1. PICK t \in Tid :
              /\ timer' = [timer EXCEPT ![t] = a]
              /\ online_db' = [online_db EXCEPT ![a].waiting_disconnect = t]
        BY <1>2, <3>1 DEF LoginAlreadyOnline
      <4>2. a \in AccountId /\ online_db[a] \in OnlineEntry
        BY <1>2 DEF LoginAlreadyOnline, TypeOK
      <4>3. [online_db[a] EXCEPT !.waiting_disconnect = t] \in OnlineEntry
        BY <4>2 DEF OnlineEntry
      <4> QED
        BY <4>1, <4>2, <4>3 DEF TypeOK
    <3>2. CASE online_db[a].waiting_disconnect # INVALID_TIMER
      BY <1>2, <3>2 DEF LoginAlreadyOnline, TypeOK
    <3> QED
      BY <3>1, <3>2
  <2> QED
    BY <1>2, <2>2, <2>3 DEF LoginAlreadyOnline, TypeOK, history
<1>3. CASE LoginAccepted(a)
  <2>1. PICK t \in Tid :
          /\ timer' = [Without(TimersOf({a})) EXCEPT ![t] = a]
          /\ online_db' = [online_db EXCEPT ![a] =
                              [char_server |-> AUTHED, waiting_disconnect |-> t]]
    BY <1>3 DEF LoginAccepted
  <2>2. /\ timer' \in [Tid -> AccountId \cup {NoUser}]
        /\ online_db' \in [AccountId -> OnlineEntry \cup {NoUser}]
    BY <2>1, WithoutType DEF TypeOK, OnlineEntry
  <2>3. /\ owner' \in Seq(Account)
        /\ Len(owner') = Len(owner) + 1
        /\ Len(owner') <= MaxLogins
    BY <1>3 DEF LoginAccepted, TypeOK
  <2>4. auth_db' \in [Account -> Ticket \cup {NoUser}]
    BY <1>3 DEF LoginAccepted, AddAuthNode, TypeOK, Ticket
  <2>6. token_on' \subseteq Account /\ token_timer' \subseteq Account
    BY <1>3 DEF LoginAccepted, TypeOK
  <2> QED
    BY <1>3, <2>2, <2>3, <2>4, <2>6 DEF LoginAccepted, TypeOK, linkVars
<1> QED
  BY <1>1, <1>2, <1>3 DEF Login

\* login_waiting_disconnect_timer keeps the state well typed.
LEMMA TimerType ==
  ASSUME TypeOK, NEW t \in Tid, WaitingDisconnectTimer(t)
  PROVE  TypeOK'
<1>1. timer[t] \in AccountId
  BY DEF TypeOK, WaitingDisconnectTimer
<1>2. CASE TimerIsCurrent(timer[t], t)
  BY <1>1, <1>2 DEF WaitingDisconnectTimer, TypeOK, linkVars, history
<1>3. CASE ~TimerIsCurrent(timer[t], t)
  BY <1>1, <1>3 DEF WaitingDisconnectTimer, TypeOK, linkVars, history
<1> QED
  BY <1>2, <1>3

\* Every packet of a char server keeps the state well typed.
LEMMA ParseType ==
  ASSUME TypeOK, NEW c \in CharServer, Parse(c)
  PROVE  TypeOK'
<1> DEFINE m == Head(fromChar[c])
<1>1. CASE ParseReqAuth(c)
  <2>1. m \in FromCharMsg /\ m.cmd = "reqauth"
        /\ fromChar' \in [CharServer -> Seq(FromCharMsg)]
    BY <1>1, ReceiveType DEF ParseReqAuth
  <2>2. m.aid \in Account /\ m.ticket \in Ticket /\ m.req \in Request
    BY <2>1, ReqAuthMsg
  <2> DEFINE ok == NodeMatches(m)
             ack == [cmd |-> "ackauth", aid |-> m.aid, ticket |-> m.ticket,
                     req |-> m.req, ok |-> ok]
  <2>3. ok \in BOOLEAN
    BY EqualityIsBoolean DEF NodeMatches, ok
  <2>4. ack \in ToCharMsg
    BY <2>2, <2>3 DEF ToCharMsg
  <2> HIDE DEF ok, m
  <2>5. toChar' = [toChar EXCEPT ![c] = Append(@, ack)]
    BY <1>1 DEF ParseReqAuth, ok, m
  <2>6. toChar' \in [CharServer -> Seq(ToCharMsg)]
    <3> HIDE DEF ack
    <3> QED
      BY <2>4, <2>5, AppendType DEF TypeOK
  <2>7. auth_db' \in [Account -> Ticket \cup {NoUser}]
    BY <1>1, <2>2 DEF ParseReqAuth, RemoveAuthNode, TypeOK, m
  <2>8. granted' \subseteq Ticket
    BY <1>1, <2>2 DEF ParseReqAuth, TypeOK, m
  <2> QED
    BY <1>1, <2>1, <2>6, <2>7, <2>8 DEF ParseReqAuth, TypeOK
<1>2. CASE ParseSetAccOnline(c)
  <2>1. /\ m.aid \in Account
        /\ fromChar' \in [CharServer -> Seq(FromCharMsg)]
    BY <1>2, ReceiveType, AccountMsg DEF ParseSetAccOnline
  <2>2. {m.aid} \in SUBSET AccountId
    BY <2>1
  <2> HIDE DEF m
  <2>3. AddOnlineUsers(online_db, c, {m.aid})
    BY <1>2 DEF ParseSetAccOnline, m
  <2> QED
    BY <1>2, <2>1, <2>2, <2>3, AddOnlineUsersType DEF ParseSetAccOnline, TypeOK, history
<1>3. CASE ParseSetAccOffline(c)
  <2>1. /\ m.aid \in Account
        /\ fromChar' \in [CharServer -> Seq(FromCharMsg)]
    BY <1>3, ReceiveType, AccountMsg DEF ParseSetAccOffline
  <2>2. {m.aid} \in SUBSET AccountId
    BY <2>1
  <2> HIDE DEF m
  <2>3. RemoveOnlineUsers({m.aid})
    BY <1>3 DEF ParseSetAccOffline, m
  <2> QED
    BY <1>3, <2>1, <2>2, <2>3, RemoveOnlineUsersType DEF ParseSetAccOffline, TypeOK, history
<1>4. CASE ParseUpdOnlineDb(c)
  <2> DEFINE read == Misread(m.aids)
             ids  == {read[i] : i \in 1 .. Len(read)}
  <2>1. /\ m.aids \in OnlineList
        /\ fromChar' \in [CharServer -> Seq(FromCharMsg)]
    BY <1>4, ReceiveType, OnlineListMsg DEF ParseUpdOnlineDb
  <2>2. ids \in SUBSET AccountId
    BY <2>1, MisreadType
  <2>3. AddOnlineUsers(online_db, c, ids)
    BY <1>4 DEF ParseUpdOnlineDb, OnlineDbSetOffline
  <2> HIDE DEF ids
  <2> QED
    BY <1>4, <2>1, <2>2, <2>3, AddOnlineUsersType DEF ParseUpdOnlineDb, TypeOK, history
<1>5. CASE ParseSetAllOffline(c)
  <2>1. fromChar' \in [CharServer -> Seq(FromCharMsg)]
    BY <1>5, ReceiveType DEF ParseSetAllOffline
  <2> QED
    BY <1>5, <2>1 DEF ParseSetAllOffline, OnlineDbSetOffline, TypeOK, history
<1>6. CASE ParsePincodeAuthFail(c)
  <2>1. /\ m.aid \in Account
        /\ fromChar' \in [CharServer -> Seq(FromCharMsg)]
    BY <1>6, ReceiveType, AccountMsg DEF ParsePincodeAuthFail
  <2>2. {m.aid} \in SUBSET AccountId
    BY <2>1
  <2> HIDE DEF m
  <2>3. RemoveOnlineUsers({m.aid})
    BY <1>6 DEF ParsePincodeAuthFail, m
  <2> QED
    BY <1>6, <2>1, <2>2, <2>3, RemoveOnlineUsersType DEF ParsePincodeAuthFail, TypeOK, history
<1> QED
  BY <1>1, <1>2, <1>3, <1>4, <1>5, <1>6 DEF Parse

\* Opening, using and closing links keeps the state well typed.
LEMMA LinkType ==
  ASSUME TypeOK, NEW c \in CharServer,
         ParseReqCharConnec(c) \/ OnDisconnect(c) \/ LinkClosed(c)
           \/ CharSends(c) \/ CharReceives(c)
  PROVE  TypeOK'
<1>1. CASE ParseReqCharConnec(c)
  <2>1. <<[cmd |-> "connected"]>> \in Seq(ToCharMsg)
    BY DEF ToCharMsg
  <2> QED
    BY <1>1, <2>1 DEF ParseReqCharConnec, TypeOK, serverVars, history
<1>2. CASE OnDisconnect(c)
  BY <1>2 DEF OnDisconnect, OnlineDbSetOffline, TypeOK, history
<1>3. CASE LinkClosed(c)
  BY <1>3 DEF LinkClosed, TypeOK, serverVars, history
<1>4. CASE CharSends(c)
  <2>1. PICK m \in FromCharMsg : fromChar' = [fromChar EXCEPT ![c] = Append(@, m)]
    BY <1>4 DEF CharSends
  <2>2. fromChar' \in [CharServer -> Seq(FromCharMsg)]
    BY <2>1, AppendType DEF TypeOK
  <2> QED
    BY <1>4, <2>2 DEF CharSends, TypeOK, serverVars, history
<1>5. CASE CharReceives(c)
  <2>1. toChar[c] \in Seq(ToCharMsg) /\ toChar[c] # <<>>
    BY <1>5 DEF CharReceives, TypeOK
  <2>2. Tail(toChar[c]) \in Seq(ToCharMsg)
    BY <2>1
  <2> QED
    BY <1>5, <2>2 DEF CharReceives, TypeOK, serverVars, history
<1> QED
  BY <1>1, <1>2, <1>3, <1>4, <1>5

\* Type correctness is inductive.
LEMMA NextType == TypeOK /\ [Next]_vars => TypeOK'
<1> SUFFICES ASSUME TypeOK, [Next]_vars
             PROVE  TypeOK'
  OBVIOUS
<1>1. ASSUME NEW a \in Account, Login(a)
      PROVE  TypeOK'
  BY <1>1, LoginType
<1>2. ASSUME NEW t \in Tid, WaitingDisconnectTimer(t)
      PROVE  TypeOK'
  BY <1>2, TimerType
<1>3. ASSUME NEW a \in Account, DisableWebtokenTimer(a)
      PROVE  TypeOK'
  BY <1>3 DEF DisableWebtokenTimer, TypeOK, linkVars, history
<1>4. CASE OnlineDataCleanup
  <2> DEFINE lost == {a \in AccountId : online_db[a] # NoUser
                                            /\ online_db[a].char_server = UNKNOWN}
  <2>1. lost \in SUBSET AccountId /\ RemoveOnlineUsers(lost)
    BY <1>4 DEF OnlineDataCleanup
  <2> HIDE DEF lost
  <2> QED
    BY <1>4, <2>1, RemoveOnlineUsersType DEF OnlineDataCleanup, TypeOK, linkVars, history
<1>5. ASSUME NEW c \in CharServer, Parse(c)
      PROVE  TypeOK'
  BY <1>5, ParseType
<1>6. CASE Restart
  BY <1>6 DEF Restart, TypeOK, history
<1>7. CASE UNCHANGED vars
  BY <1>7 DEF TypeOK, vars, serverVars, linkVars, history
<1> QED
  BY <1>1, <1>2, <1>3, <1>4, <1>5, <1>6, <1>7, LinkType DEF Next, Server, CharServers

\* Every reachable state is well typed: in particular an entry of online_db
\* names a char server of the table, AUTHED or UNKNOWN, and every packet in
\* flight is one the handlers know.
THEOREM TypeCorrect == Spec => []TypeOK
  BY InitType, NextType, PTL DEF Spec

----------------------------------------------------------------------------
(* Timers, deadlines and web tokens.                                       *)

\* The three facts about online_db that its handlers keep together.
OnlineInv == TimersMatchEntries /\ AuthedHasDeadline /\ OnlineTokenEnabled

\* OnlineInv, entry by entry, as the provers use it.
LEMMA EntryFacts ==
  ASSUME TypeOK, OnlineInv, NEW a \in AccountId, online_db[a] # NoUser
  PROVE  /\ online_db[a] \in OnlineEntry
         /\ online_db[a].waiting_disconnect # INVALID_TIMER =>
              /\ online_db[a].waiting_disconnect \in Tid
              /\ timer[online_db[a].waiting_disconnect] = a
         /\ online_db[a].char_server = AUTHED =>
              online_db[a].waiting_disconnect # INVALID_TIMER
  BY DEF TypeOK, OnlineInv, TimersMatchEntries, AuthedHasDeadline, Waiting, OnlineEntry

\* What is left to show when a step is to keep TimersMatchEntries.
LEMMA TimersMatchPrime ==
  ASSUME \A s \in Tid : timer'[s] # NoUser =>
           /\ online_db'[timer'[s]] # NoUser
           /\ online_db'[timer'[s]].waiting_disconnect = s,
         \A b \in AccountId :
           online_db'[b] # NoUser /\ online_db'[b].waiting_disconnect # INVALID_TIMER
             => timer'[online_db'[b].waiting_disconnect] = b
  PROVE  TimersMatchEntries'
  BY DEF TimersMatchEntries, Waiting

\* The empty table satisfies OnlineInv.
LEMMA InitOnline == Init => OnlineInv
  BY DEF Init, OnlineInv, TimersMatchEntries, AuthedHasDeadline, OnlineTokenEnabled

\* login_add_online_user, for any set of ids, keeps OnlineInv: the timers of
\* the entries it replaces are deleted with them.
LEMMA AddOnlineUsersInv ==
  ASSUME TypeOK, OnlineInv, NEW c \in CharServer, NEW ids \in SUBSET AccountId,
         AddOnlineUsers(online_db, c, ids)
  PROVE  OnlineInv'
<1>1. c # AUTHED
  BY DEF AUTHED
<1>2. \A a \in AccountId : a \in ids =>
        online_db'[a] = [char_server |-> c, waiting_disconnect |-> INVALID_TIMER]
  BY DEF AddOnlineUsers
<1>3. \A a \in AccountId : a \notin ids => online_db'[a] = online_db[a]
  BY DEF AddOnlineUsers
<1>4. \A t \in Tid : timer'[t] # NoUser =>
        timer'[t] = timer[t] /\ timer[t] \in AccountId /\ timer[t] \notin ids
  BY DEF AddOnlineUsers, Without, TimersOf, TypeOK, OnlineInv, TimersMatchEntries, Waiting
<1>5. \A a \in AccountId :
        a \notin ids /\ online_db[a] # NoUser /\ Waiting(a) # INVALID_TIMER =>
          timer'[Waiting(a)] = a
  <2> SUFFICES ASSUME NEW a \in AccountId, a \notin ids, online_db[a] # NoUser,
                      Waiting(a) # INVALID_TIMER
               PROVE  timer'[Waiting(a)] = a
    OBVIOUS
  <2>1. Waiting(a) \in Tid /\ timer[Waiting(a)] = a
    BY EntryFacts DEF Waiting
  <2>2. Waiting(a) \notin TimersOf(ids)
    BY <2>1, EntryFacts DEF TimersOf, Waiting
  <2> QED
    BY <2>1, <2>2 DEF AddOnlineUsers, Without
<1>6. TimersMatchEntries'
  BY <1>2, <1>3, <1>4, <1>5 DEF TimersMatchEntries, Waiting, OnlineInv
<1>7. AuthedHasDeadline'
  BY <1>1, <1>2, <1>3 DEF AuthedHasDeadline, Waiting, OnlineInv
<1>8. OnlineTokenEnabled'
  BY <1>3 DEF AddOnlineUsers, OnlineTokenEnabled, OnlineInv, AccountId
<1> QED
  BY <1>6, <1>7, <1>8 DEF OnlineInv

\* login_remove_online_user, for any set of ids, keeps OnlineInv.
LEMMA RemoveOnlineUsersInv ==
  ASSUME TypeOK, OnlineInv, NEW ids \in SUBSET AccountId, RemoveOnlineUsers(ids)
  PROVE  OnlineInv'
<1>1. \A a \in AccountId : a \in ids => online_db'[a] = NoUser
  BY DEF RemoveOnlineUsers
<1>2. \A a \in AccountId : a \notin ids => online_db'[a] = online_db[a]
  BY DEF RemoveOnlineUsers
<1>3. \A t \in Tid : timer'[t] # NoUser =>
        timer'[t] = timer[t] /\ timer[t] \in AccountId /\ timer[t] \notin ids
  BY DEF RemoveOnlineUsers, Without, TimersOf, TypeOK, OnlineInv, TimersMatchEntries, Waiting
<1>4. \A a \in AccountId :
        a \notin ids /\ online_db[a] # NoUser /\ Waiting(a) # INVALID_TIMER =>
          timer'[Waiting(a)] = a
  <2> SUFFICES ASSUME NEW a \in AccountId, a \notin ids, online_db[a] # NoUser,
                      Waiting(a) # INVALID_TIMER
               PROVE  timer'[Waiting(a)] = a
    OBVIOUS
  <2>1. Waiting(a) \in Tid /\ timer[Waiting(a)] = a
    BY EntryFacts DEF Waiting
  <2>2. Waiting(a) \notin TimersOf(ids)
    BY <2>1, EntryFacts DEF TimersOf, Waiting
  <2> QED
    BY <2>1, <2>2 DEF RemoveOnlineUsers, Without
<1>5. TimersMatchEntries'
  BY <1>1, <1>2, <1>3, <1>4 DEF TimersMatchEntries, Waiting, OnlineInv
<1>6. AuthedHasDeadline'
  BY <1>1, <1>2 DEF AuthedHasDeadline, Waiting, OnlineInv
<1>7. OnlineTokenEnabled'
  BY <1>1, <1>2 DEF RemoveOnlineUsers, OnlineTokenEnabled, OnlineInv, AccountId
<1> QED
  BY <1>5, <1>6, <1>7 DEF OnlineInv

\* logclif_auth_ok keeps OnlineInv: the timer it arms is the one it stores.
LEMMA LoginInv ==
  ASSUME TypeOK, OnlineInv, NEW a \in Account, Login(a)
  PROVE  OnlineInv'
<1>0. a \in AccountId
  BY DEF AccountId
<1>1. CASE LoginNoCharServer(a)
  BY <1>1 DEF LoginNoCharServer, OnlineInv, TimersMatchEntries, AuthedHasDeadline,
              OnlineTokenEnabled, Waiting
<1>2. CASE LoginAlreadyOnline(a)
  <2>1. online_db[a] \in OnlineEntry
    BY <1>0, <1>2, EntryFacts DEF LoginAlreadyOnline
  <2>2. CASE Waiting(a) = INVALID_TIMER
    <3>1. PICK t \in Tid :
            /\ timer[t] = NoUser
            /\ timer' = [timer EXCEPT ![t] = a]
            /\ online_db' = [online_db EXCEPT ![a].waiting_disconnect = t]
      BY <1>2, <2>2 DEF LoginAlreadyOnline, Waiting
    <3>2. /\ online_db'[a] = [online_db[a] EXCEPT !.waiting_disconnect = t]
          /\ online_db'[a].waiting_disconnect = t
          /\ online_db'[a].char_server = online_db[a].char_server
          /\ online_db'[a] # NoUser
      BY <1>0, <2>1, <3>1 DEF TypeOK, OnlineEntry, INVALID_TIMER, AUTHED, UNKNOWN
    <3>3. \A b \in AccountId : b # a => online_db'[b] = online_db[b]
      BY <3>1 DEF TypeOK
    <3>4. timer'[t] = a /\ \A s \in Tid : s # t => timer'[s] = timer[s]
      BY <3>1 DEF TypeOK
    <3>5. t # INVALID_TIMER
      BY DEF INVALID_TIMER
    <3>6. \A b \in AccountId : b # a /\ online_db[b] # NoUser
            /\ Waiting(b) # INVALID_TIMER => Waiting(b) \in Tid /\ Waiting(b) # t
      BY <3>1, EntryFacts DEF Waiting
    <3>7. \A s \in Tid : timer[s] # NoUser => timer[s] # a
      BY <2>2 DEF OnlineInv, TimersMatchEntries, INVALID_TIMER
    <3>8. TimersMatchEntries'
      <4>1. ASSUME NEW s \in Tid, timer'[s] # NoUser
            PROVE  online_db'[timer'[s]] # NoUser
                   /\ online_db'[timer'[s]].waiting_disconnect = s
        <5>1. CASE s = t
          BY <3>2, <3>4, <5>1
        <5>2. CASE s # t
          <6>1. timer'[s] = timer[s] /\ timer[s] # a /\ timer[s] \in AccountId
            BY <3>4, <3>7, <4>1, <5>2 DEF TypeOK
          <6>2. PICK b \in AccountId : b = timer[s]
            BY <6>1
          <6>3. b # a /\ online_db[b] # NoUser /\ Waiting(b) = s
            BY <4>1, <6>1, <6>2 DEF OnlineInv, TimersMatchEntries
          <6> QED
            BY <3>3, <6>1, <6>2, <6>3 DEF Waiting
        <5> QED
          BY <5>1, <5>2
      <4>2. ASSUME NEW b \in AccountId, online_db'[b] # NoUser,
                   online_db'[b].waiting_disconnect # INVALID_TIMER
            PROVE  timer'[online_db'[b].waiting_disconnect] = b
        <5>1. CASE b = a
          BY <3>2, <3>4, <5>1
        <5>2. CASE b # a
          BY <3>3, <3>4, <3>6, <4>2, <5>2, EntryFacts DEF Waiting
        <5> QED
          BY <5>1, <5>2
      <4> QED
        BY <4>1, <4>2, TimersMatchPrime
    <3>9. AuthedHasDeadline'
      BY <3>2, <3>3, <3>5 DEF AuthedHasDeadline, Waiting, OnlineInv
    <3> QED
      BY <1>0, <1>2, <3>3, <3>8, <3>9 DEF LoginAlreadyOnline, OnlineInv, OnlineTokenEnabled
  <2>3. CASE Waiting(a) # INVALID_TIMER
    BY <1>2, <2>3 DEF LoginAlreadyOnline, OnlineInv, TimersMatchEntries,
                      AuthedHasDeadline, OnlineTokenEnabled, Waiting
  <2> QED
    BY <2>2, <2>3
<1>3. CASE LoginAccepted(a)
  <2> DEFINE entry(t) == [char_server |-> AUTHED, waiting_disconnect |-> t]
             rest == Without(TimersOf({a}))
  <2>1. PICK t \in Tid :
          /\ rest[t] = NoUser
          /\ timer' = [rest EXCEPT ![t] = a]
          /\ online_db' = [online_db EXCEPT ![a] = entry(t)]
    BY <1>3 DEF LoginAccepted
  <2>2. \A s \in Tid : rest[s] # NoUser => rest[s] = timer[s] /\ timer[s] # a
    <3> SUFFICES ASSUME NEW s \in Tid, rest[s] # NoUser
                 PROVE  rest[s] = timer[s] /\ timer[s] # a
      OBVIOUS
    <3>1. s \notin TimersOf({a}) /\ rest[s] = timer[s]
      BY DEF Without
    <3>2. ASSUME timer[s] = a PROVE FALSE
      <4>1. online_db[a] # NoUser /\ Waiting(a) = s
        BY <1>0, <3>1, <3>2 DEF OnlineInv, TimersMatchEntries
      <4> QED
        BY <3>1, <4>1 DEF TimersOf, Waiting
    <3> QED
      BY <3>1, <3>2
  <2>3. \A b \in AccountId : b # a /\ online_db[b] # NoUser
          /\ Waiting(b) # INVALID_TIMER =>
            Waiting(b) \in Tid /\ rest[Waiting(b)] = b
    <3> SUFFICES ASSUME NEW b \in AccountId, b # a, online_db[b] # NoUser,
                        Waiting(b) # INVALID_TIMER
                 PROVE  Waiting(b) \in Tid /\ rest[Waiting(b)] = b
      OBVIOUS
    <3>1. Waiting(b) \in Tid /\ timer[Waiting(b)] = b
      BY EntryFacts DEF Waiting
    <3>2. Waiting(b) \notin TimersOf({a})
      BY <1>0, <3>1, EntryFacts DEF TimersOf, Waiting
    <3> QED
      BY <3>1, <3>2 DEF Without
  <2>4. rest \in [Tid -> AccountId \cup {NoUser}]
    BY WithoutType
  <2> HIDE DEF rest
  <2>5. /\ online_db'[a] = entry(t)
        /\ \A b \in AccountId : b # a => online_db'[b] = online_db[b]
        /\ timer'[t] = a
        /\ \A s \in Tid : s # t => timer'[s] = rest[s]
    BY <1>0, <2>1, <2>4 DEF TypeOK
  <2>6. t # INVALID_TIMER /\ entry(t) # NoUser /\ a # NoUser
    <3>1. entry(t) \in [char_server : Int, waiting_disconnect : Int]
      BY DEF AUTHED
    <3>2. t # INVALID_TIMER
      BY DEF INVALID_TIMER
    <3> QED
      BY <1>0, <3>1, <3>2
  <2>7. \A b \in AccountId : b # a /\ online_db[b] # NoUser
          /\ Waiting(b) # INVALID_TIMER => Waiting(b) # t
    BY <2>1, <2>3
  <2>8. TimersMatchEntries'
    <3>1. ASSUME NEW s \in Tid, timer'[s] # NoUser
          PROVE  online_db'[timer'[s]] # NoUser
                 /\ online_db'[timer'[s]].waiting_disconnect = s
      <4>1. CASE s = t
        BY <2>5, <2>6, <4>1 DEF Waiting
      <4>2. CASE s # t
        <5>1. timer'[s] = timer[s] /\ timer[s] # a /\ timer[s] \in AccountId
          BY <2>2, <2>5, <3>1, <4>2 DEF TypeOK
        <5>2. online_db[timer[s]] # NoUser /\ Waiting(timer[s]) = s
          BY <3>1, <5>1 DEF OnlineInv, TimersMatchEntries
        <5> QED
          BY <2>5, <5>1, <5>2 DEF Waiting
      <4> QED
        BY <4>1, <4>2
    <3>2. ASSUME NEW b \in AccountId, online_db'[b] # NoUser,
                 online_db'[b].waiting_disconnect # INVALID_TIMER
          PROVE  timer'[online_db'[b].waiting_disconnect] = b
      <4>1. CASE b = a
        BY <2>5, <4>1
      <4>2. CASE b # a
        <5>1. online_db'[b] = online_db[b] /\ Waiting(b) # INVALID_TIMER
          BY <2>5, <3>2, <4>2 DEF Waiting
        <5>2. rest[Waiting(b)] = b /\ Waiting(b) \in Tid /\ Waiting(b) # t
          BY <2>3, <2>7, <3>2, <4>2, <5>1
        <5> QED
          BY <2>5, <5>1, <5>2 DEF Waiting
      <4> QED
        BY <4>1, <4>2
    <3>3. \A s \in Tid : timer'[s] # NoUser =>
            online_db'[timer'[s]] # NoUser
            /\ online_db'[timer'[s]].waiting_disconnect = s
      BY <3>1
    <3>4. \A b \in AccountId :
            online_db'[b] # NoUser /\ online_db'[b].waiting_disconnect # INVALID_TIMER =>
              timer'[online_db'[b].waiting_disconnect] = b
      BY <3>2
    <3> HIDE DEF entry
    <3> QED
      BY <3>3, <3>4, TimersMatchPrime
  <2>9. AuthedHasDeadline'
    BY <2>5, <2>6 DEF AuthedHasDeadline, Waiting, OnlineInv
  <2>10. OnlineTokenEnabled'
    BY <1>3, <2>5 DEF LoginAccepted, OnlineTokenEnabled, OnlineInv, AccountId
  <2> QED
    BY <2>8, <2>9, <2>10 DEF OnlineInv
<1> QED
  BY <1>1, <1>2, <1>3 DEF Login

\* A timer that fires is that of its entry, so the entry goes with it.
LEMMA WaitingTimerInv ==
  ASSUME TypeOK, OnlineInv, NEW t \in Tid, WaitingDisconnectTimer(t)
  PROVE  OnlineInv'
<1> DEFINE a == timer[t]
<1>1. a \in AccountId /\ a # NoUser
  BY DEF WaitingDisconnectTimer, TypeOK
<1>2. TimerIsCurrent(a, t)
  BY <1>1 DEF TimerIsCurrent, OnlineInv, TimersMatchEntries, Waiting
<1>3. online_db' = [online_db EXCEPT ![a] = NoUser]
  BY <1>2 DEF WaitingDisconnectTimer
<1>4. timer' = [timer EXCEPT ![t] = NoUser] /\ token_on' = token_on
  BY DEF WaitingDisconnectTimer
<1> HIDE DEF a
<1>5. /\ online_db'[a] = NoUser
      /\ \A b \in AccountId : b # a => online_db'[b] = online_db[b]
      /\ timer'[t] = NoUser
      /\ \A s \in Tid : s # t => timer'[s] = timer[s]
  BY <1>1, <1>3, <1>4 DEF TypeOK
<1>6. \A s \in Tid : s # t /\ timer[s] # NoUser => timer[s] # a
  BY <1>2 DEF OnlineInv, TimersMatchEntries, Waiting, TimerIsCurrent
<1>7. \A b \in AccountId : b # a /\ online_db[b] # NoUser
        /\ Waiting(b) # INVALID_TIMER => Waiting(b) \in Tid /\ Waiting(b) # t
  BY EntryFacts DEF Waiting, a
<1>8. TimersMatchEntries'
  <2>1. ASSUME NEW s \in Tid, timer'[s] # NoUser
        PROVE  online_db'[timer'[s]] # NoUser
               /\ online_db'[timer'[s]].waiting_disconnect = s
    <3>1. timer'[s] = timer[s] /\ timer[s] # a /\ timer[s] \in AccountId
      BY <1>5, <1>6, <2>1 DEF TypeOK
    <3>2. PICK b \in AccountId : b = timer[s]
      BY <3>1
    <3>3. b # a /\ online_db[b] # NoUser /\ Waiting(b) = s
      BY <2>1, <3>1, <3>2 DEF OnlineInv, TimersMatchEntries
    <3> QED
      BY <1>5, <3>1, <3>2, <3>3 DEF Waiting
  <2>2. ASSUME NEW b \in AccountId, online_db'[b] # NoUser,
               online_db'[b].waiting_disconnect # INVALID_TIMER
        PROVE  timer'[online_db'[b].waiting_disconnect] = b
    <3>1. b # a /\ online_db'[b] = online_db[b]
      BY <1>5, <2>2
    <3>2. Waiting(b) \in Tid /\ Waiting(b) # t
      BY <1>7, <2>2, <3>1 DEF Waiting
    <3>3. timer[Waiting(b)] = b
      BY <2>2, <3>1, EntryFacts DEF Waiting
    <3> QED
      BY <1>5, <3>1, <3>2, <3>3 DEF Waiting
  <2> QED
    BY <2>1, <2>2, TimersMatchPrime
<1>9. AuthedHasDeadline'
  BY <1>5 DEF AuthedHasDeadline, Waiting, OnlineInv
<1> QED
  BY <1>4, <1>5, <1>8, <1>9 DEF OnlineInv, OnlineTokenEnabled, AccountId

\* OnlineInv is inductive, given the types.
LEMMA NextOnline == TypeOK /\ OnlineInv /\ [Next]_vars => OnlineInv'
<1> SUFFICES ASSUME TypeOK, OnlineInv, [Next]_vars
             PROVE  OnlineInv'
  OBVIOUS
\* Steps that leave the entries, the timers and the enabled tokens alone.
<1>1. ASSUME UNCHANGED <<online_db, timer, token_on>>
      PROVE  OnlineInv'
  BY <1>1 DEF OnlineInv, TimersMatchEntries, AuthedHasDeadline, OnlineTokenEnabled, Waiting
<1>2. ASSUME NEW a \in Account, Login(a)
      PROVE  OnlineInv'
  BY <1>2, LoginInv
<1>3. ASSUME NEW t \in Tid, WaitingDisconnectTimer(t)
      PROVE  OnlineInv'
  BY <1>3, WaitingTimerInv
<1>4. ASSUME NEW a \in Account, DisableWebtokenTimer(a)
      PROVE  OnlineInv'
  BY <1>4 DEF DisableWebtokenTimer, TokenUnused, OnlineInv, TimersMatchEntries,
              AuthedHasDeadline, OnlineTokenEnabled, Waiting
<1>5. CASE OnlineDataCleanup
  <2> DEFINE lost == {a \in AccountId : online_db[a] # NoUser
                                            /\ online_db[a].char_server = UNKNOWN}
  <2>1. lost \in SUBSET AccountId /\ RemoveOnlineUsers(lost)
    BY <1>5 DEF OnlineDataCleanup
  <2> HIDE DEF lost
  <2> QED
    BY <2>1, RemoveOnlineUsersInv
<1>6. ASSUME NEW c \in CharServer, Parse(c)
      PROVE  OnlineInv'
  <2> DEFINE m == Head(fromChar[c])
             read == Misread(m.aids)
             ids  == {read[i] : i \in 1 .. Len(read)}
  <2>1. CASE ParseSetAccOnline(c)
    <3>1. {m.aid} \in SUBSET AccountId /\ AddOnlineUsers(online_db, c, {m.aid})
      BY <2>1, ReceiveType, AccountMsg DEF ParseSetAccOnline
    <3> QED
      BY <3>1, AddOnlineUsersInv
  <2>2. CASE ParseUpdOnlineDb(c)
    <3>1. m.aids \in OnlineList /\ AddOnlineUsers(online_db, c, ids)
      BY <2>2, ReceiveType, OnlineListMsg DEF ParseUpdOnlineDb, OnlineDbSetOffline
    <3>2. ids \in SUBSET AccountId
      BY <3>1, MisreadType
    <3> HIDE DEF ids
    <3> QED
      BY <3>1, <3>2, AddOnlineUsersInv
  <2>3. CASE ParseSetAccOffline(c) \/ ParsePincodeAuthFail(c)
    <3>1. {m.aid} \in SUBSET AccountId /\ RemoveOnlineUsers({m.aid})
      BY <2>3, ReceiveType, AccountMsg DEF ParseSetAccOffline, ParsePincodeAuthFail
    <3> QED
      BY <3>1, RemoveOnlineUsersInv
  <2>4. CASE ParseReqAuth(c) \/ ParseSetAllOffline(c)
    BY <2>4, <1>1 DEF ParseReqAuth, ParseSetAllOffline, OnlineDbSetOffline
  <2> QED
    BY <1>6, <2>1, <2>2, <2>3, <2>4 DEF Parse
<1>7. ASSUME NEW c \in CharServer,
             ParseReqCharConnec(c) \/ OnDisconnect(c) \/ LinkClosed(c)
               \/ CharSends(c) \/ CharReceives(c)
      PROVE  OnlineInv'
  BY <1>7, <1>1 DEF ParseReqCharConnec, OnDisconnect, LinkClosed, CharSends, CharReceives,
                    OnlineDbSetOffline, serverVars
<1>8. CASE Restart
  BY <1>8 DEF Restart, OnlineInv, TimersMatchEntries, AuthedHasDeadline, OnlineTokenEnabled,
              AccountId
<1>9. CASE UNCHANGED vars
  BY <1>9, <1>1 DEF vars, serverVars
<1> QED
  BY <1>2, <1>3, <1>4, <1>5, <1>6, <1>7, <1>8, <1>9 DEF Next, Server, CharServers

\* No timer of an earlier session is left to forget a later one, and no entry
\* waits for a timer that is gone.
THEOREM TimersCorrect == Spec => []TimersMatchEntries
<1>1. OnlineInv => TimersMatchEntries
  BY DEF OnlineInv
<1> QED
  BY <1>1, InitOnline, NextOnline, TypeCorrect, PTL DEF Spec

\* An account that only authed always has its AUTH_TIMEOUT timer pending.
THEOREM DeadlineCorrect == Spec => []AuthedHasDeadline
<1>1. OnlineInv => AuthedHasDeadline
  BY DEF OnlineInv
<1> QED
  BY <1>1, InitOnline, NextOnline, TypeCorrect, PTL DEF Spec

\* However many delayed disable timers are pending, an account that is online
\* keeps its web token enabled.
THEOREM TokenCorrect == Spec => []OnlineTokenEnabled
<1>1. OnlineInv => OnlineTokenEnabled
  BY DEF OnlineInv
<1> QED
  BY <1>1, InitOnline, NextOnline, TypeCorrect, PTL DEF Spec

----------------------------------------------------------------------------
(* Tickets.                                                                *)

\* A live ticket is its account's newest and was never granted, and every
\* granted ticket was issued.
TicketInv ==
  /\ granted \subseteq 1 .. Len(owner)
  /\ \A a \in Account : auth_db[a] # NoUser =>
       /\ auth_db[a] \in 1 .. Len(owner)
       /\ auth_db[a] \notin granted
       /\ owner[auth_db[a]] = a
       /\ \A n \in auth_db[a] + 1 .. Len(owner) : owner[n] # a

\* A step that issues and grants nothing and only forgets live tickets.
LEMMA DropTickets ==
  ASSUME TypeOK, TicketInv, UNCHANGED history,
         \A a \in Account : auth_db'[a] \in {auth_db[a], NoUser}
  PROVE  TicketInv'
  BY DEF TicketInv, history

\* A fresh ticket in the place of the account's live one keeps TicketInv, and is
\* a step of TicketService.
LEMMA IssueTicket ==
  ASSUME TypeOK, TicketInv, NEW a \in Account, LoginAccepted(a)
  PROVE  TicketInv'
<1>1. /\ owner' = Append(owner, a) /\ granted' = granted
      /\ auth_db' = [auth_db EXCEPT ![a] = Len(owner) + 1]
  BY DEF LoginAccepted, AddAuthNode
<1>2. /\ Len(owner) \in Nat
      /\ Len(owner') = Len(owner) + 1
      /\ owner'[Len(owner) + 1] = a
      /\ \A n \in 1 .. Len(owner) : owner'[n] = owner[n]
  BY <1>1 DEF TypeOK
<1>3. /\ auth_db'[a] = Len(owner) + 1
      /\ \A b \in Account : b # a => auth_db'[b] = auth_db[b]
  BY <1>1 DEF TypeOK
<1>4. ASSUME NEW b \in Account, auth_db'[b] # NoUser
      PROVE  /\ auth_db'[b] \in 1 .. Len(owner')
             /\ auth_db'[b] \notin granted'
             /\ owner'[auth_db'[b]] = b
             /\ \A n \in auth_db'[b] + 1 .. Len(owner') : owner'[n] # b
  <2>1. CASE b = a
    BY <1>1, <1>2, <1>3, <2>1 DEF TicketInv
  <2>2. CASE b # a
    <3>1. /\ auth_db'[b] = auth_db[b] /\ auth_db[b] \in 1 .. Len(owner)
          /\ auth_db[b] \notin granted /\ owner[auth_db[b]] = b
          /\ \A n \in auth_db[b] + 1 .. Len(owner) : owner[n] # b
      BY <1>3, <1>4, <2>2 DEF TicketInv
    <3>2. ASSUME NEW n \in auth_db[b] + 1 .. Len(owner) + 1
          PROVE  owner'[n] # b
      BY <1>2, <2>2, <3>1
    <3> QED
      BY <1>1, <1>2, <3>1, <3>2
  <2> QED
    BY <2>1, <2>2
<1> QED
  BY <1>1, <1>2, <1>4 DEF TicketInv

\* Redeeming the live ticket keeps TicketInv, and is a step of TicketService.
LEMMA GrantTicket ==
  ASSUME TypeOK, TicketInv, NEW c \in CharServer, ParseReqAuth(c)
  PROVE  /\ TicketInv'
         /\ \A t \in granted' \ granted :
              \E a \in Account :
                /\ auth_db[a] = t /\ t # NoUser
                /\ granted' = granted \cup {t}
                /\ auth_db' = [auth_db EXCEPT ![a] = NoUser]
         /\ granted' = granted => auth_db' = auth_db
<1> DEFINE m == Head(fromChar[c])
<1>1. m.aid \in Account /\ m.ticket \in Ticket
  BY ReceiveType, ReqAuthMsg DEF ParseReqAuth
<1>2. owner' = owner
  BY DEF ParseReqAuth
<1>3. CASE NodeMatches(m)
  <2>1. /\ auth_db' = [auth_db EXCEPT ![m.aid] = NoUser]
        /\ granted' = granted \cup {m.ticket}
        /\ auth_db[m.aid] = m.ticket
    BY <1>3 DEF ParseReqAuth, NodeMatches, RemoveAuthNode
  <2> HIDE DEF m
  <2>2. m.ticket # NoUser
    BY <1>1 DEF Ticket
  <2>3. /\ auth_db'[m.aid] = NoUser
        /\ \A b \in Account : b # m.aid => auth_db'[b] = auth_db[b]
    BY <1>1, <2>1 DEF TypeOK
  <2>4. \A b \in Account : b # m.aid => auth_db[b] # m.ticket
    BY <1>1, <2>1, <2>2 DEF TicketInv
  <2>5. m.ticket \in 1 .. Len(owner)
    BY <1>1, <2>1, <2>2 DEF TicketInv
  <2>6. granted' \subseteq 1 .. Len(owner')
    BY <1>2, <2>1, <2>5 DEF TicketInv
  <2>7. ASSUME NEW b \in Account, auth_db'[b] # NoUser
        PROVE  /\ auth_db'[b] \in 1 .. Len(owner')
               /\ auth_db'[b] \notin granted'
               /\ owner'[auth_db'[b]] = b
               /\ \A n \in auth_db'[b] + 1 .. Len(owner') : owner'[n] # b
    <3>1. b # m.aid /\ auth_db'[b] = auth_db[b] /\ auth_db[b] # m.ticket
      BY <2>3, <2>4, <2>7
    <3> QED
      BY <1>2, <2>1, <2>7, <3>1 DEF TicketInv
  <2>8. TicketInv'
    BY <2>6, <2>7 DEF TicketInv
  <2>9. ASSUME NEW t \in granted' \ granted
        PROVE  \E a \in Account :
                 /\ auth_db[a] = t /\ t # NoUser
                 /\ granted' = granted \cup {t}
                 /\ auth_db' = [auth_db EXCEPT ![a] = NoUser]
    <3>1. t = m.ticket
      BY <2>1, <2>9
    <3> QED
      BY <1>1, <2>1, <2>2, <3>1
  <2>10. granted' # granted
    BY <1>1, <2>1, <2>2 DEF TicketInv
  <2> QED
    BY <2>8, <2>9, <2>10
<1>4. CASE ~NodeMatches(m)
  BY <1>2, <1>4 DEF ParseReqAuth, TicketInv
<1> QED
  BY <1>3, <1>4

\* What every step other than issuing and granting does to tickets.
LEMMA OtherSteps ==
  ASSUME TypeOK, [Next]_vars,
         ~ \E a \in Account : LoginAccepted(a),
         ~ \E c \in CharServer : ParseReqAuth(c)
  PROVE  /\ UNCHANGED history
         /\ auth_db' \in [Account -> Ticket \cup {NoUser}]
         /\ \A a \in Account : auth_db'[a] \in {auth_db[a], NoUser}
<1>1. ASSUME NEW a \in Account, LoginNoCharServer(a) \/ LoginAlreadyOnline(a)
      PROVE  UNCHANGED <<history, auth_db>>
  BY <1>1 DEF LoginNoCharServer, LoginAlreadyOnline
<1>2. ASSUME NEW t \in Tid, WaitingDisconnectTimer(t)
      PROVE  UNCHANGED history /\ \A a \in Account : auth_db'[a] \in {auth_db[a], NoUser}
  BY <1>2 DEF WaitingDisconnectTimer
<1>3. ASSUME NEW c \in CharServer, Parse(c)
      PROVE  UNCHANGED <<history, auth_db>>
  BY <1>3 DEF Parse, ParseSetAccOnline, ParseSetAccOffline, ParseUpdOnlineDb,
              ParseSetAllOffline, ParsePincodeAuthFail
<1>4. ASSUME NEW c \in CharServer,
             ParseReqCharConnec(c) \/ OnDisconnect(c) \/ LinkClosed(c)
               \/ CharSends(c) \/ CharReceives(c)
      PROVE  UNCHANGED <<history, auth_db>>
  BY <1>4 DEF ParseReqCharConnec, OnDisconnect, LinkClosed, CharSends, CharReceives,
              serverVars
<1>5. ASSUME OnlineDataCleanup \/ UNCHANGED vars
             \/ \E a \in Account : DisableWebtokenTimer(a)
      PROVE  UNCHANGED <<history, auth_db>>
  BY <1>5 DEF OnlineDataCleanup, DisableWebtokenTimer, vars, serverVars
<1>6. CASE Restart
  BY <1>6 DEF Restart
<1>7. TypeOK'
  BY NextType
<1>8. UNCHANGED history /\ \A a \in Account : auth_db'[a] \in {auth_db[a], NoUser}
  <2>1. CASE \E a \in Account : Login(a)
    BY <1>1, <2>1 DEF Login
  <2>2. CASE \E t \in Tid : WaitingDisconnectTimer(t)
    BY <1>2, <2>2
  <2>3. CASE \E c \in CharServer : Parse(c)
    BY <1>3, <2>3
  <2>4. CASE CharServers \/ \E c \in CharServer : ParseReqCharConnec(c) \/ OnDisconnect(c)
    BY <1>4, <2>4 DEF CharServers
  <2>5. CASE \/ OnlineDataCleanup \/ UNCHANGED vars
             \/ \E a \in Account : DisableWebtokenTimer(a)
    BY <1>5, <2>5
  <2> QED
    BY <1>6, <2>1, <2>2, <2>3, <2>4, <2>5 DEF Next, Server
<1> QED
  BY <1>7, <1>8 DEF TypeOK

\* The empty table satisfies TicketInv.
LEMMA InitTickets == Init => TicketInv
  BY DEF Init, TicketInv

\* TicketInv is inductive, given the types.
LEMMA NextTickets == TypeOK /\ TicketInv /\ [Next]_vars => TicketInv'
  BY IssueTicket, GrantTicket, OtherSteps, DropTickets

\* A ticket that was redeemed is not the live ticket of any account again.
THEOREM GrantsCorrect == Spec => []GrantedNotLive
<1>1. TypeOK /\ TicketInv => GrantedNotLive
  <2> SUFFICES ASSUME TypeOK, TicketInv, NEW a \in Account
               PROVE  auth_db[a] \notin granted
    BY DEF GrantedNotLive
  <2>1. NoUser \notin granted
    <3>1. granted \subseteq Ticket
      BY DEF TypeOK
    <3>2. Ticket \subseteq Int
      BY DEF Ticket
    <3>3. NoUser \notin Int
      OBVIOUS
    <3> HIDE LoginAssumption
    <3> QED
      BY <3>1, <3>2, <3>3
  <2> QED
    BY <2>1 DEF TicketInv
<1> QED
  BY <1>1, InitTickets, NextTickets, TypeCorrect, PTL DEF Spec

\* Only the newest login of an account gets in: a ticket that is granted in a
\* step is the account's live one, and a live one is the newest issued.
THEOREM NewestWins == Spec => NewestLoginWins
<1>1. ASSUME TypeOK, TicketInv, [Next]_vars, NEW t \in granted' \ granted,
             NEW n \in t + 1 .. Len(owner)
      PROVE  owner[n] # owner[t]
  <2>1. PICK c \in CharServer : ParseReqAuth(c)
    <3>1. granted' # granted
      BY <1>1
    <3>2. \A a \in Account : LoginAccepted(a) => granted' = granted
      BY DEF LoginAccepted
    <3> QED
      BY <1>1, <3>1, <3>2, OtherSteps DEF history
  <2>2. PICK a \in Account : auth_db[a] = t
    BY <1>1, <2>1, GrantTicket
  <2>3. t # NoUser
    BY <1>1, <2>1, GrantTicket, <2>2 DEF TicketInv
  <2> QED
    BY <1>1, <2>2, <2>3 DEF TicketInv
<1>2. TypeOK /\ TicketInv /\ [Next]_vars
        => [\A t \in granted' \ granted :
              \A n \in t + 1 .. Len(owner) : owner[n] # owner[t]]_vars
  BY <1>1
<1> QED
  BY <1>2, InitTickets, NextTickets, TypeCorrect, PTL DEF Spec, NewestLoginWins

\* The login server implements the abstract ticket service: issuing is Issue,
\* a redemption answered "ok" is Spend, timeouts and restarts are Drop.
THEOREM TicketsImplemented == Spec => TicketsOnce
<1>1. Init => Tickets!Init
  BY DEF Init, Tickets!Init
<1>2. ASSUME TypeOK, TicketInv, NEW a \in Account, LoginAccepted(a)
      PROVE  Tickets!Issue(a)
  <2> DEFINE t == Len(owner) + 1
  <2>1. owner' = Append(owner, a) /\ granted' = granted
        /\ auth_db' = [auth_db EXCEPT ![a] = t] /\ Len(owner) < MaxLogins
    BY <1>2 DEF LoginAccepted, AddAuthNode
  <2>2. owner \in Seq(Account) /\ DOMAIN owner = 1 .. Len(owner) /\ Len(owner) \in Nat
    BY <1>2 DEF TypeOK
  <2>3. t \in Ticket /\ t \notin DOMAIN owner
    BY <2>1, <2>2 DEF Ticket
  <2>4. Append(owner, a) = [n \in DOMAIN owner \cup {t} |-> IF n = t THEN a ELSE owner[n]]
    <3>1. 1 .. Len(owner) + 1 = DOMAIN owner \cup {t}
      BY <2>2
    <3>2. Append(owner, a) \in Seq(Account) /\ Len(Append(owner, a)) = Len(owner) + 1
      BY <2>2
    <3>3. DOMAIN Append(owner, a) = DOMAIN owner \cup {t}
      BY <3>1, <3>2
    <3>4. \A n \in DOMAIN owner \cup {t} :
            Append(owner, a)[n] = IF n = t THEN a ELSE owner[n]
      BY <2>2, <3>1
    <3>5. Append(owner, a) = [n \in DOMAIN Append(owner, a) |-> Append(owner, a)[n]]
      <4>1. Append(owner, a) \in [1 .. Len(Append(owner, a)) -> Account]
        BY <3>2, LenProperties
      <4> QED
        BY <4>1, Zenon
    <3> QED
      BY <3>3, <3>4, <3>5
  <2> QED
    BY <2>1, <2>3, <2>4 DEF Tickets!Issue
<1>3. ASSUME TypeOK, TicketInv, NEW c \in CharServer, ParseReqAuth(c)
      PROVE  (\E a \in Account : Tickets!Spend(a)) \/ UNCHANGED Tickets!vars
  <2>1. owner' = owner
    BY <1>3 DEF ParseReqAuth
  <2>2. CASE granted' = granted
    BY <1>3, <2>1, <2>2, GrantTicket DEF Tickets!vars
  <2>3. CASE granted' # granted
    <3>1. granted \subseteq granted'
      BY <1>3 DEF ParseReqAuth
    <3>2. PICK t \in granted' \ granted : TRUE
      BY <2>3, <3>1
    <3>3. PICK a \in Account :
            /\ auth_db[a] = t /\ t # NoUser
            /\ granted' = granted \cup {t}
            /\ auth_db' = [auth_db EXCEPT ![a] = NoUser]
      BY <1>3, <3>2, GrantTicket
    <3>4. owner[t] = a
      BY <1>3, <3>3 DEF TicketInv
    <3>5. Tickets!Spend(a)
      BY <2>1, <3>2, <3>3, <3>4 DEF Tickets!Spend
    <3> QED
      BY <3>5
  <2> QED
    BY <2>2, <2>3
<1>4. ASSUME TypeOK, TicketInv, [Next]_vars
      PROVE  [Tickets!Next]_(Tickets!vars)
  <2>1. CASE \E a \in Account : LoginAccepted(a)
    BY <1>2, <1>4, <2>1 DEF Tickets!Next
  <2>2. CASE \E c \in CharServer : ParseReqAuth(c)
    BY <1>3, <1>4, <2>2 DEF Tickets!Next
  <2>3. CASE /\ ~ \E a \in Account : LoginAccepted(a)
             /\ ~ \E c \in CharServer : ParseReqAuth(c)
    <3> DEFINE gone == {a \in Account : auth_db'[a] = NoUser}
    <3>1. UNCHANGED history
          /\ auth_db' \in [Account -> Ticket \cup {NoUser}]
          /\ \A a \in Account : auth_db'[a] \in {auth_db[a], NoUser}
      BY <1>4, <2>3, OtherSteps
    <3>2. auth_db' = [a \in Account |-> IF a \in gone THEN NoUser ELSE auth_db[a]]
      BY <3>1
    <3> QED
      BY <3>1, <3>2 DEF Tickets!Next, Tickets!Drop, history
  <2> QED
    BY <2>1, <2>2, <2>3
<1> QED
  BY <1>1, <1>4, InitTickets, NextTickets, TypeCorrect, PTL
  DEF Spec, TicketsOnce, Tickets!Spec

=============================================================================
