-------------------------- MODULE CharServerProofs --------------------------
(***************************************************************************)
(* Lemmas about the handlers of CharServer: what every step of the char       *)
(* server keeps, whatever packets its map servers sent.  CharOpenProofs and    *)
(* CharMapProofs build their theorems from them.                              *)
(***************************************************************************)
EXTENDS CharServer, FiniteSetTheorems, TLAPS

USE LinksAssumption, CharAssumption, NoUserAssumption

ToMapQueues == [MapServer -> Seq(ToMapMsg)]

\* The tables of accounts and of their timers.
TypeOnline ==
  /\ online_db \in [Account -> OnlineEntry \cup {NoUser}]
  /\ timer \in [Tid -> Account \cup {NoUser}]

----------------------------------------------------------------------------
(* Packets. *)

LEMMA SentType ==
  ASSUME NEW q \in ToMapQueues, NEW m \in MapServer, NEW ms \in Seq(ToMapMsg)
  PROVE  Sent(q, m, ms) \in ToMapQueues
<1>1. q[m] \o ms \in Seq(ToMapMsg)
  BY DEF ToMapQueues
<1> QED
  BY <1>1 DEF Sent, ToMapQueues

LEMMA KickedType ==
  ASSUME NEW q \in ToMapQueues, NEW s, NEW a \in Account
  PROVE  Kicked(q, s, a) \in ToMapQueues
<1>1. <<[cmd |-> "kick", aid |-> a]>> \in Seq(ToMapMsg)
  BY DEF ToMapMsg
<1> QED
  BY <1>1, SentType DEF Kicked

LEMMA KickElsewhereType ==
  ASSUME NEW q \in ToMapQueues, NEW s, NEW a \in Account
  PROVE  KickElsewhere(q, s, a) \in ToMapQueues
BY KickedType DEF KickElsewhere

\* A table is walked as a sequence.
LEMMA OrdersType ==
  ASSUME NEW S, IsFiniteSet(S), NEW order \in Orders(S)
  PROVE  /\ order \in Seq(S)
         /\ DOMAIN order = 1 .. Len(order)
BY FS_CardinalityType DEF Orders

LEMMA KicksType ==
  ASSUME NEW S \in SUBSET Account, NEW order \in Orders(S)
  PROVE  Kicks(order) \in Seq(ToMapMsg)
<1>1. IsFiniteSet(S)
  BY FS_Subset
<1>2. order \in Seq(S) /\ DOMAIN order = 1 .. Len(order)
  BY <1>1, OrdersType
<1>3. \A i \in DOMAIN order : [cmd |-> "kick", aid |-> order[i]] \in ToMapMsg
  BY <1>2 DEF ToMapMsg
<1> QED
  BY <1>2, <1>3 DEF Kicks

\* The fields of the packets of map servers.
LEMMA UsersMsg ==
  ASSUME NEW p \in FromMapMsg, p.cmd = "regmapuser"
  PROVE  p.users \in [Account -> Char \cup {NoUser}]
BY DEF FromMapMsg

LEMMA SaveMsgFields ==
  ASSUME NEW p \in FromMapMsg, p.cmd = "save"
  PROVE  p.aid \in Account /\ p.cid \in Char /\ p.rec \in Record /\ p.quit \in BOOLEAN
BY DEF FromMapMsg

LEMMA LoginMsg ==
  ASSUME NEW p \in FromMapMsg, p.cmd \in {"charselect", "changemap", "reqauth"}
  PROVE  p.aid \in Account /\ p.login \in Login
BY DEF FromMapMsg

LEMMA CharMsg ==
  ASSUME NEW p \in FromMapMsg, p.cmd \in {"changemap", "reqauth"}
  PROVE  p.cid \in Char /\ (p.cmd = "changemap" => p.to \in MapServer)
BY DEF FromMapMsg

LEMMA SetCharMsg ==
  ASSUME NEW p \in FromMapMsg, p.cmd \in {"setcharoffline", "setcharonline"}
  PROVE  p.aid \in Account /\ p.cid \in Char \cup {-1}
BY DEF FromMapMsg

LEMMA ReceiveType ==
  ASSUME TypeLinks, NEW m \in MapServer, NEW cmd, Receive(m, cmd)
  PROVE  /\ Msg(m) \in FromMapMsg
         /\ Msg(m).cmd = cmd
         /\ fromMap' \in [MapServer -> Seq(FromMapMsg)]
<1>1. fromMap[m] \in Seq(FromMapMsg) /\ fromMap[m] # <<>>
  BY DEF TypeLinks, Receive
<1>2. Head(fromMap[m]) \in FromMapMsg /\ Tail(fromMap[m]) \in Seq(FromMapMsg)
  BY <1>1
<1> QED
  BY <1>1, <1>2 DEF TypeLinks, Receive, Msg

----------------------------------------------------------------------------
(* Entries. *)

LEMMA EntryType ==
  ASSUME TypeOnline, NEW a \in Account
  PROVE  /\ Entry(a) \in OnlineEntry
         /\ NewEntry \in OnlineEntry
         /\ SelectEntry(a) \in OnlineEntry
         /\ online_db[a] # NoUser => online_db[a] \in OnlineEntry
BY DEF TypeOnline, Entry, NewEntry, SelectEntry, OnlineEntry, NONE, INVALID_TIMER

LEMMA OnlineEntryAtType ==
  ASSUME TypeOnline, NEW a \in Account, NEW s \in MapServer \cup {NONE, UNKNOWN},
         NEW c \in Char \cup {NONE}
  PROVE  OnlineEntryAt(s, c, a) \in OnlineEntry
BY EntryType DEF OnlineEntryAt, OnlineEntry

LEMMA OfflineEntryType ==
  ASSUME TypeOnline, NEW a \in Account, NEW c
  PROVE  OfflineEntry(c, a) \in OnlineEntry \cup {NoUser}
BY EntryType DEF OfflineEntry, OnlineEntry

LEMMA WithoutType ==
  ASSUME TypeOnline, NEW ts
  PROVE  Without(ts) \in [Tid -> Account \cup {NoUser}]
BY DEF TypeOnline, Without

----------------------------------------------------------------------------
(* The tables: accounts, their timers, and the sessions entries name. *)

\* Who is on no server waits for no timer: what the cleanup drops without looking at
\* its timer has none (char_online_data_cleanup_sub).
NowhereNoTimer ==
  \A a \in Account :
    online_db[a] # NoUser /\ online_db[a].server = NONE =>
      online_db[a].waiting_disconnect = INVALID_TIMER

Tables ==
  /\ TypeOnline
  /\ NowhereNoTimer
  /\ session \in [Fd -> Session \cup {NoUser}]
  /\ TimersMatchEntries
  /\ EntryFdIsItsSession

LEMMA WithoutValues ==
  ASSUME TypeOnline, NEW as \in SUBSET Account, StopTimers(as)
  PROVE  /\ timer' \in [Tid -> Account \cup {NoUser}]
         /\ \A t \in Tid :
              timer'[t] = IF \E a \in as : TimerIsCurrent(a, t) THEN NoUser ELSE timer[t]
<1>1. timer' = Without(TimersOf(as))
  BY DEF StopTimers
<1>2. ASSUME NEW t \in Tid
      PROVE  t \in TimersOf(as) <=> \E a \in as : TimerIsCurrent(a, t)
  BY DEF TimersOf, TimerIsCurrent
<1>3. \A t \in Tid : timer'[t] = IF t \in TimersOf(as) THEN NoUser ELSE timer[t]
  BY <1>1 DEF Without
<1> QED
  BY <1>1, <1>2, <1>3, WithoutType

LEMMA OneWaits ==
  ASSUME TimersMatchEntries, NEW a \in Account, NEW t \in Tid
  PROVE  /\ timer[t] = a <=> TimerIsCurrent(a, t)
         /\ \A b \in Account : TimerIsCurrent(a, t) /\ TimerIsCurrent(b, t) => a = b
<1>1. \A b \in Account : timer[t] = b <=> TimerIsCurrent(b, t)
  BY DEF TimersMatchEntries, TimerIsCurrent
<1> QED
  BY <1>1

\* What happens to the entries of as when delete_timer is called on what they wait
\* for and they wait for nothing afterwards.
LEMMA TimersStopped ==
  ASSUME TypeOnline, TimersMatchEntries, NEW as \in SUBSET Account, StopTimers(as),
         \A a \in as, t \in Tid : ~TimerIsCurrent(a, t)',
         \A a \in Account \ as, t \in Tid : TimerIsCurrent(a, t)' <=> TimerIsCurrent(a, t)
  PROVE  TimersMatchEntries'
<1> SUFFICES ASSUME NEW a \in Account, NEW t \in Tid
             PROVE  timer'[t] = a <=> TimerIsCurrent(a, t)'
  BY DEF TimersMatchEntries, TimerIsCurrent
<1>1. timer'[t] = IF \E b \in as : TimerIsCurrent(b, t) THEN NoUser ELSE timer[t]
  BY WithoutValues
<1>2. NoUser # a /\ (timer[t] = a <=> TimerIsCurrent(a, t))
  BY OneWaits
<1>3. CASE a \in as
  BY <1>1, <1>2, <1>3
<1>4. CASE a \notin as
  <2>1. TimerIsCurrent(a, t)' <=> timer[t] = a
    BY <1>2, <1>4
  <2>2. ASSUME NEW b \in as, TimerIsCurrent(b, t) PROVE timer[t] # a
    <3>1. timer[t] = b /\ a # b
      BY <1>4, <2>2, OneWaits
    <3> QED
      BY <3>1
  <2> QED
    BY <1>1, <1>2, <2>1, <2>2
<1> QED
  BY <1>3, <1>4

LEMMA TablesUnchanged ==
  ASSUME Tables, UNCHANGED <<session, online_db, timer>>
  PROVE  Tables'
BY DEF Tables, TypeOnline, NowhereNoTimer, TimersMatchEntries, EntryFdIsItsSession

\* Entries that name no socket they did not name before name sessions of theirs.
LEMMA FdsKept ==
  ASSUME EntryFdIsItsSession, UNCHANGED session,
         \A a \in Account : online_db'[a] # NoUser => online_db'[a].fd \in {NONE, Entry(a).fd}
  PROVE  EntryFdIsItsSession'
BY DEF EntryFdIsItsSession, Entry, NewEntry

\* The entry of an account is written anew, without a timer.
LEMMA EntryReset ==
  ASSUME Tables, NEW a \in Account, NEW e \in OnlineEntry \cup {NoUser},
         online_db' = [online_db EXCEPT ![a] = e], StopTimers({a}), UNCHANGED session,
         e # NoUser => e.waiting_disconnect = INVALID_TIMER /\ e.fd \in {NONE, Entry(a).fd}
  PROVE  Tables'
<1>1. TypeOnline'
  BY WithoutValues DEF Tables, TypeOnline
<1>2. /\ \A t \in Tid : ~TimerIsCurrent(a, t)'
      /\ \A b \in Account \ {a}, t \in Tid : TimerIsCurrent(b, t)' <=> TimerIsCurrent(b, t)
  BY DEF Tables, TypeOnline, TimerIsCurrent, INVALID_TIMER
<1>3. TimersMatchEntries'
  BY <1>2, TimersStopped DEF Tables
<1>4. EntryFdIsItsSession'
  <2>1. \A b \in Account \ {a} : online_db'[b] # NoUser => online_db'[b].fd = Entry(b).fd
    BY DEF Tables, TypeOnline, Entry
  <2>2. online_db'[a] = e
    BY DEF Tables, TypeOnline
  <2> QED
    BY <2>1, <2>2, FdsKept DEF Tables
<1>5. NowhereNoTimer'
  BY DEF Tables, TypeOnline, NowhereNoTimer
<1> QED
  BY <1>1, <1>3, <1>4, <1>5 DEF Tables

\* Entries change their server or character; new ones are made.
LEMMA EntriesMoved ==
  ASSUME Tables, UNCHANGED <<session, timer>>,
         online_db' \in [Account -> OnlineEntry \cup {NoUser}],
         \A a \in Account :
           IF online_db'[a] = NoUser THEN online_db[a] = NoUser
           ELSE /\ online_db'[a].fd = Entry(a).fd
                /\ online_db'[a].waiting_disconnect = Entry(a).waiting_disconnect
                /\ online_db'[a].server # NONE \/ Entry(a).server = NONE
  PROVE  Tables'
<1>1. TypeOnline'
  BY DEF Tables, TypeOnline
<1>2. \A a \in Account, t \in Tid : TimerIsCurrent(a, t)' <=> TimerIsCurrent(a, t)
  BY DEF TimerIsCurrent, Entry, NewEntry, INVALID_TIMER
<1>3. TimersMatchEntries'
  BY <1>2 DEF Tables, TimersMatchEntries, TimerIsCurrent
<1>4. EntryFdIsItsSession'
  BY FdsKept DEF Tables
<1>5. NowhereNoTimer'
  BY DEF Tables, NowhereNoTimer, Entry, NewEntry
<1> QED
  BY <1>1, <1>3, <1>4, <1>5 DEF Tables

\* A kick starts a timer, unless the entry waits for one.
LEMMA KickTables ==
  ASSUME Tables, NEW a \in Account, online_db[a] # NoUser,
         online_db[a].server \in MapServer, KickWithTimer(a)
  PROVE  /\ TypeOnline'
         /\ NowhereNoTimer'
         /\ TimersMatchEntries'
         /\ \A b \in Account : online_db'[b] # NoUser =>
              online_db[b] # NoUser /\ online_db'[b].fd = online_db[b].fd
<1>1. CASE UNCHANGED <<timer, online_db>>
  BY <1>1 DEF Tables, TypeOnline, TimersMatchEntries, NowhereNoTimer
<1>2. ASSUME NEW t \in Tid, timer[t] = NoUser, timer' = [timer EXCEPT ![t] = a],
             online_db[a].waiting_disconnect = INVALID_TIMER,
             online_db' = [online_db EXCEPT ![a].waiting_disconnect = t]
      PROVE  TypeOnline' /\ NowhereNoTimer' /\ TimersMatchEntries' /\ \A b \in Account : online_db'[b] # NoUser =>
              online_db[b] # NoUser /\ online_db'[b].fd = online_db[b].fd
  <2>1. online_db[a] \in OnlineEntry /\ online_db \in [Account -> OnlineEntry \cup {NoUser}]
    BY DEF Tables, TypeOnline
  <2> DEFINE e == [online_db[a] EXCEPT !.waiting_disconnect = t]
  <2>2. /\ e \in OnlineEntry /\ e.waiting_disconnect = t
        /\ e.fd = online_db[a].fd /\ e.server = online_db[a].server
    BY <2>1 DEF OnlineEntry
  <2> HIDE DEF e
  <2>3. /\ online_db' = [online_db EXCEPT ![a] = e]
        /\ online_db'[a] = e
        /\ \A b \in Account \ {a} : online_db'[b] = online_db[b]
    BY <1>2, <2>1 DEF e
  <2>4. TypeOnline'
    BY <1>2, <2>1, <2>2, <2>3 DEF Tables, TypeOnline
  <2>5. ASSUME NEW b \in Account, NEW u \in Tid
        PROVE  timer'[u] = b <=> TimerIsCurrent(b, u)'
    <3>1. timer[u] = b <=> TimerIsCurrent(b, u)
      BY OneWaits DEF Tables
    <3>2. CASE b = a
      <4>1. TimerIsCurrent(b, u)' <=> u = t
        BY <2>2, <2>3, <3>2 DEF TimerIsCurrent
      <4>2. ~TimerIsCurrent(b, u)
        BY <1>2, <3>2 DEF TimerIsCurrent, INVALID_TIMER
      <4> QED
        BY <1>2, <3>1, <3>2, <4>1, <4>2 DEF Tables, TypeOnline
    <3>3. CASE b # a
      <4>1. TimerIsCurrent(b, u)' <=> TimerIsCurrent(b, u)
        BY <2>3, <3>3 DEF TimerIsCurrent
      <4> QED
        BY <1>2, <3>1, <3>3, <4>1 DEF Tables, TypeOnline
    <3> QED
      BY <3>2, <3>3
  <2>6. TimersMatchEntries'
    BY <2>5 DEF TimersMatchEntries, TimerIsCurrent
  <2>7. NowhereNoTimer'
    BY <2>2, <2>3 DEF Tables, NowhereNoTimer, NONE
  <2> QED
    BY <2>2, <2>3, <2>4, <2>6, <2>7
<1> QED
  BY <1>1, <1>2 DEF KickWithTimer

----------------------------------------------------------------------------
(* Clients. *)

\* The variables that are not in Tables.
TypeRest ==
  /\ map_fd \in [MapServer -> {"free", "open", "eof"}]
  /\ char_fd \in [MapServer -> {"none", "open", "eof"}]
  /\ fromMap \in [MapServer -> Seq(FromMapMsg)]
  /\ toMap \in ToMapQueues
  /\ asked \subseteq Fd \X Login
  /\ login_fd \in {"up", "lost", "none"}
  /\ auth_db \in [Account -> AuthNode \cup {NoUser}]
  /\ cache \in [Char -> Record \cup {NoUser}]
  /\ sql \in [Char -> Record]
  /\ maps \subseteq MapServer
  /\ restarts \in 0 .. CharRestarts
  /\ spent \subseteq Login

CharInv == Tables /\ TypeRest /\ CacheIsCurrent

LEMMA CharInvTypes ==
  CharInv <=> /\ NowhereNoTimer /\ TypeLinks /\ TypeChar
              /\ TimersMatchEntries /\ EntryFdIsItsSession /\ CacheIsCurrent
BY DEF CharInv, Tables, TypeOnline, TypeRest, TypeLinks, TypeChar, ToMapQueues

\* char_auth_ok on a socket that is not authenticated yet.
LEMMA AuthOkTables ==
  ASSUME Tables, toMap \in ToMapQueues, NEW f \in Fd, NEW l \in Login, AuthOk(f, l),
         session[f] # NoUser => ~session[f].auth
  PROVE  Tables' /\ toMap' \in ToMapQueues
<1> DEFINE a == LoginAccount[l]
<1>1. a \in Account /\ online_db \in [Account -> OnlineEntry \cup {NoUser}]
  BY DEF Tables, TypeOnline
<1>2. \A b \in Account : online_db[b] # NoUser => online_db[b].fd # f
  BY DEF Tables, EntryFdIsItsSession, NONE
<1>3. /\ session' \in [Fd -> Session \cup {NoUser}]
      /\ \A g \in Fd \ {f} : session'[g] = session[g]
  <2>1. PICK auth \in BOOLEAN :
          session' = [session EXCEPT ![f] = [login |-> l, auth |-> auth, eof |-> FALSE]]
    BY DEF AuthOk
  <2>2. [login |-> l, auth |-> auth, eof |-> FALSE] \in Session
    BY DEF Session
  <2> QED
    BY <2>1, <2>2 DEF Tables
<1>7. ASSUME NEW b \in Account, online_db[b] # NoUser, online_db[b].fd # NONE
      PROVE  /\ online_db[b].fd \in Fd \ {f}
             /\ session'[online_db[b].fd] # NoUser
             /\ session'[online_db[b].fd].auth
             /\ LoginAccount[session'[online_db[b].fd].login] = b
  <2>1. online_db[b].fd \in Fd \ {f}
    BY <1>1, <1>2, <1>7 DEF OnlineEntry
  <2> QED
    BY <1>3, <1>7, <2>1 DEF Tables, EntryFdIsItsSession
<1>4. CASE Entry(a).server \in MapServer
  <2>1. online_db[a] # NoUser /\ online_db[a].server \in MapServer
    BY <1>4 DEF Entry, NewEntry, NONE
  <2>2. KickWithTimer(a) /\ session' = [session EXCEPT ![f] = [login |-> l, auth |-> FALSE, eof |-> FALSE]]
    BY <1>4 DEF AuthOk
  <2>3. /\ TypeOnline' /\ TimersMatchEntries' /\ NowhereNoTimer'
        /\ \A b \in Account : online_db'[b] # NoUser =>
              online_db[b] # NoUser /\ online_db'[b].fd = online_db[b].fd
    BY <1>1, <2>1, <2>2, KickTables
  <2>4. EntryFdIsItsSession'
    BY <1>7, <2>3 DEF EntryFdIsItsSession
  <2>5. toMap' \in ToMapQueues
    BY <1>1, <2>2, KickedType DEF KickWithTimer
  <2> QED
    BY <1>3, <2>3, <2>4, <2>5 DEF Tables
<1>5. CASE UNCHANGED <<online_db, timer, toMap>>
  <2>1. EntryFdIsItsSession'
    BY <1>5, <1>7 DEF EntryFdIsItsSession
  <2> QED
    BY <1>3, <1>5, <2>1 DEF Tables, TypeOnline, TimersMatchEntries, NowhereNoTimer
<1>6. ASSUME /\ session' = [session EXCEPT ![f] = [login |-> l, auth |-> TRUE, eof |-> FALSE]]
             /\ online_db' = [online_db EXCEPT ![a] =
                  IF online_db[a] = NoUser THEN NewEntry ELSE [SelectEntry(a) EXCEPT !.fd = f]]
             /\ StopTimers({a})
             /\ UNCHANGED toMap
      PROVE  Tables' /\ toMap' \in ToMapQueues
  <2> DEFINE e == IF online_db[a] = NoUser THEN NewEntry ELSE [SelectEntry(a) EXCEPT !.fd = f]
  <2>1. e \in OnlineEntry /\ e.waiting_disconnect = INVALID_TIMER /\ e.fd \in {NONE, f}
    BY <1>1 DEF NewEntry, SelectEntry, OnlineEntry, NONE, INVALID_TIMER
  <2> HIDE DEF e
  <2>2. /\ online_db' = [online_db EXCEPT ![a] = e]
        /\ online_db'[a] = e
        /\ \A b \in Account \ {a} : online_db'[b] = online_db[b]
    BY <1>1, <1>6 DEF e
  <2>3. TypeOnline'
    BY <1>1, <1>6, <2>1, <2>2, WithoutValues DEF Tables, TypeOnline
  <2>4. /\ \A t \in Tid : ~TimerIsCurrent(a, t)'
        /\ \A b \in Account \ {a}, t \in Tid : TimerIsCurrent(b, t)' <=> TimerIsCurrent(b, t)
    BY <2>1, <2>2 DEF TimerIsCurrent, INVALID_TIMER
  <2>5. TimersMatchEntries'
    BY <1>1, <1>6, <2>4, TimersStopped DEF Tables
  <2>6. EntryFdIsItsSession'
    <3>1. ASSUME e.fd = f, online_db[a] # NoUser
          PROVE  session'[f] # NoUser /\ session'[f].auth /\ LoginAccount[session'[f].login] = a
      <4>1. [login |-> l, auth |-> TRUE, eof |-> FALSE] \in Session
        BY DEF Session
      <4>2. session'[f] = [login |-> l, auth |-> TRUE, eof |-> FALSE]
        BY <1>6 DEF Tables
      <4>3. session'[f] # NoUser
        BY <4>1, <4>2
      <4>4. session'[f].auth
        BY <4>2
      <4>5. LoginAccount[session'[f].login] = a
        BY <4>2
      <4> QED
        BY <4>3, <4>4, <4>5
    <3>2. online_db[a] = NoUser => e.fd = NONE
      BY DEF e, NewEntry
    <3>3. \A b \in Account \ {a} : online_db'[b] # NoUser /\ online_db'[b].fd # NONE =>
            /\ session'[online_db'[b].fd] # NoUser
            /\ session'[online_db'[b].fd].auth
            /\ LoginAccount[session'[online_db'[b].fd].login] = b
      BY <1>7, <2>2
    <3>4. online_db'[a].fd # NONE => online_db'[a].fd = f /\ online_db[a] # NoUser
      BY <2>1, <2>2, <3>2
    <3> QED
      BY <2>2, <3>1, <3>3, <3>4 DEF EntryFdIsItsSession
  <2>7. NowhereNoTimer'
    BY <2>1, <2>2 DEF Tables, NowhereNoTimer
  <2> QED
    BY <1>3, <1>6, <2>3, <2>5, <2>6, <2>7 DEF Tables
<1> QED
  BY <1>4, <1>5, <1>6 DEF AuthOk

\* An answer of the login server, or of nobody, leaves the socket as it is.
LEMMA SessionTables ==
  ASSUME Tables, NEW f \in Fd, NEW s \in Session \cup {NoUser},
         session' = [session EXCEPT ![f] = s], UNCHANGED <<online_db, timer>>,
         \/ session[f] = NoUser
         \/ ~session[f].auth
         \/ s # NoUser /\ s.auth = session[f].auth /\ s.login = session[f].login
  PROVE  Tables'
<1>1. session' \in [Fd -> Session \cup {NoUser}]
  BY DEF Tables
<1>2. EntryFdIsItsSession'
  BY DEF Tables, EntryFdIsItsSession, TypeOnline, NONE
<1> QED
  BY <1>1, <1>2 DEF Tables, TypeOnline, TimersMatchEntries, NowhereNoTimer

LEMMA ParseReqToConnectInv ==
  ASSUME CharInv, NEW f \in Fd, NEW l \in Login, ParseReqToConnect(f, l)
  PROVE  CharInv'
<1> DEFINE a == LoginAccount[l]
<1>1. a \in Account
  OBVIOUS
<1>2. Tables' /\ toMap' \in ToMapQueues
  <2>1. CASE AuthOk(f, l)
    BY <2>1, AuthOkTables DEF CharInv, TypeRest, ParseReqToConnect
  <2>2. CASE ~HasNode(a, l)
    <3>1. [login |-> l, auth |-> FALSE, eof |-> FALSE] \in Session
      BY DEF Session
    <3> QED
      BY <2>2, <3>1, SessionTables DEF CharInv, TypeRest, ParseReqToConnect
  <2> QED
    BY <2>1, <2>2 DEF ParseReqToConnect
<1>3. auth_db' \in [Account -> AuthNode \cup {NoUser}] /\ asked' \subseteq Fd \X Login
  BY <1>1 DEF CharInv, TypeRest, ParseReqToConnect
<1> QED
  BY <1>2, <1>3 DEF CharInv, TypeRest, ParseReqToConnect, CacheIsCurrent

LEMMA ParseAckAccReqInv ==
  ASSUME CharInv, NEW f \in Fd, NEW l \in Login, NEW ok \in BOOLEAN, ParseAckAccReq(f, l, ok)
  PROVE  CharInv'
<1>1. Tables' /\ toMap' \in ToMapQueues
  <2>1. CASE AuthOk(f, l) /\ session[f] = [login |-> l, auth |-> FALSE, eof |-> FALSE]
    BY <2>1, AuthOkTables DEF CharInv, TypeRest
  <2>2. CASE UNCHANGED <<session, online_db, timer, toMap>>
    BY <2>2 DEF CharInv, TypeRest, Tables, TypeOnline, NowhereNoTimer, TimersMatchEntries,
         EntryFdIsItsSession
  <2> QED
    BY <2>1, <2>2 DEF ParseAckAccReq
<1> QED
  BY <1>1 DEF CharInv, TypeRest, ParseAckAccReq, CacheIsCurrent

LEMMA SelectedInv ==
  ASSUME CharInv, NEW c \in Char, NEW rec \in Record, rec.ver = sql[c].ver, NEW f,
         Selected(f, c, rec), auth_db' \in [Account -> AuthNode \cup {NoUser}]
  PROVE  CharInv'
<1> DEFINE a == AccountOf[c]
           e == OnlineEntryAt(UNKNOWN, c, a)
<1>1. a \in Account
  OBVIOUS
<1>2. e \in OnlineEntry /\ e.waiting_disconnect = INVALID_TIMER /\ e.fd = Entry(a).fd
  BY <1>1, OnlineEntryAtType DEF CharInv, Tables, OnlineEntryAt
<1>3. Tables'
  <2> HIDE DEF e
  <2> QED
    BY <1>1, <1>2, EntryReset DEF CharInv, Selected, e
<1>4. toMap' \in ToMapQueues
  BY <1>1, KickElsewhereType DEF CharInv, TypeRest, Selected
<1>5. cache' \in [Char -> Record \cup {NoUser}] /\ CacheIsCurrent'
  BY DEF CharInv, TypeRest, Selected, CacheIsCurrent
<1> QED
  BY <1>3, <1>4, <1>5 DEF CharInv, TypeRest, Selected

LEMMA SelectsInv ==
  ASSUME CharInv, NEW f \in Fd, Selects(f)
  PROVE  CharInv'
<1>1. ASSUME NEW c \in Char, HandOver(f, c), Authed(f, c)
      PROVE  auth_db' \in [Account -> AuthNode \cup {NoUser}]
  <2>1. session[f].login \in Login
    BY <1>1 DEF Authed, CharInv, Tables, Session
  <2>2. [char_id |-> c, login |-> session[f].login] \in AuthNode
    BY <2>1 DEF AuthNode
  <2> QED
    BY <1>1, <2>2 DEF HandOver, CharInv, TypeRest
<1>2. ASSUME NEW c \in Char, UNCHANGED auth_db
      PROVE  auth_db' \in [Account -> AuthNode \cup {NoUser}]
  BY <1>2 DEF CharInv, TypeRest
<1>3. ASSUME NEW c \in Char, ParseCharSelect(f, c) PROVE CharInv'
  <2>1. sql[c] \in Record
    BY DEF CharInv, TypeRest
  <2> QED
    BY <1>1, <1>2, <1>3, <2>1, SelectedInv DEF ParseCharSelect
<1>4. ASSUME NEW c \in Char, NEW m \in MapServer, ParseSelectAccessibleMap(f, c, m) PROVE CharInv'
  <2>1. sql[c] \in Record
    BY DEF CharInv, TypeRest
  <2>2. \A x \in MapServer : /\ [sql[c] EXCEPT !.at = x] \in Record
                             /\ [sql[c] EXCEPT !.at = x].ver = sql[c].ver
    BY <2>1 DEF Record
  <2>3. CASE ~Hosts(sql[c].at) /\ Hosts(m)
    BY <1>1, <1>4, <2>2, <2>3, SelectedInv DEF ParseSelectAccessibleMap
  <2>4. CASE ~(~Hosts(sql[c].at) /\ Hosts(m))
    <3>1. sql[c].at \in MapServer
      BY <2>1 DEF Record
    <3>2. PICK x \in MapServer : Selected(f, c, [sql[c] EXCEPT !.at = x]) /\ UNCHANGED auth_db
      BY <1>4, <2>4, <3>1 DEF ParseSelectAccessibleMap
    <3> QED
      BY <1>2, <2>2, <3>2, SelectedInv
  <2> QED
    BY <2>3, <2>4
<1> QED
  BY <1>3, <1>4 DEF Selects

LEMMA ClientHangsUpInv ==
  ASSUME CharInv, NEW f \in Fd, ClientHangsUp(f)
  PROVE  CharInv'
<1> DEFINE s == [session[f] EXCEPT !.eof = TRUE]
<1>1. session[f] \in Session /\ session' = [session EXCEPT ![f] = s]
  BY DEF ClientHangsUp, CharInv, Tables
<1>2. s \in Session /\ s # NoUser /\ s.auth = session[f].auth /\ s.login = session[f].login
  BY <1>1 DEF Session
<1>3. Tables'
  <2> HIDE DEF s
  <2> QED
    BY <1>1, <1>2, SessionTables DEF ClientHangsUp, CharInv
<1> QED
  BY <1>3 DEF ClientHangsUp, CharInv, TypeRest, CacheIsCurrent, linkVars

\* chclif_parse on eof: no entry names the closed socket any more.
LEMMA ClientClosedInv ==
  ASSUME CharInv, NEW f \in Fd, ClientClosed(f)
  PROVE  CharInv'
<1>1. CASE ~session[f].auth
  BY <1>1, SessionTables DEF ClientClosed, CharInv, TypeRest, CacheIsCurrent, linkVars
<1>2. CASE session[f].auth
  <2>0. PICK a \in Account : a = LoginAccount[session[f].login]
    BY DEF ClientClosed, CharInv, Tables, Session
  <2> DEFINE db == Freed(online_db, f, a)
             closes == db[a] = NoUser \/ db[a].server = NONE
             e  == IF ~closes THEN db[a]
                   ELSE IF db[a] = NoUser THEN NoUser
                   ELSE IF db[a].char_id = NONE THEN [NewEntry EXCEPT !.fd = db[a].fd]
                   ELSE [db[a] EXCEPT !.waiting_disconnect = INVALID_TIMER]
  <2>1. session[f] \in Session /\ a \in Account
    BY DEF ClientClosed, CharInv, Tables
  <2>2. /\ db \in [Account -> OnlineEntry \cup {NoUser}]
        /\ \A b \in Account \ {a} : db[b] = online_db[b]
        /\ db[a] = NoUser <=> online_db[a] = NoUser
        /\ db[a] # NoUser => /\ db[a].server = online_db[a].server
                             /\ db[a].waiting_disconnect = online_db[a].waiting_disconnect
                             /\ db[a].fd \in {NONE, online_db[a].fd} \ {f}
    <3>1. CASE online_db[a] # NoUser /\ online_db[a].fd = f
      <4> DEFINE d == [online_db[a] EXCEPT !.fd = NONE]
      <4>1. /\ d \in OnlineEntry /\ d.fd = NONE /\ NONE # f
            /\ d.server = online_db[a].server
            /\ d.waiting_disconnect = online_db[a].waiting_disconnect
        BY <2>1, <3>1 DEF CharInv, Tables, TypeOnline, OnlineEntry, NONE
      <4>2. db = [online_db EXCEPT ![a] = d]
        BY <3>1 DEF Freed
      <4> HIDE DEF d, db
      <4> QED
        BY <2>1, <3>1, <4>1, <4>2 DEF CharInv, Tables, TypeOnline
    <3>2. CASE ~(online_db[a] # NoUser /\ online_db[a].fd = f)
      BY <2>1, <3>2 DEF Freed, CharInv, Tables, TypeOnline
    <3> QED
      BY <3>1, <3>2
  <2> HIDE DEF db
  <2>3. /\ e \in OnlineEntry \cup {NoUser}
        /\ e # NoUser => db[a] # NoUser /\ e.fd = db[a].fd
        /\ e # NoUser /\ closes => e.waiting_disconnect = INVALID_TIMER
        /\ e # NoUser /\ ~closes => e = db[a]
    <3>1. CASE db[a] = NoUser
      BY <3>1
    <3>2. CASE db[a] # NoUser
      <4>1. db[a] \in OnlineEntry
        BY <2>1, <2>2, <3>2
      <4>2. /\ [NewEntry EXCEPT !.fd = db[a].fd] \in OnlineEntry
            /\ [NewEntry EXCEPT !.fd = db[a].fd].fd = db[a].fd
            /\ [NewEntry EXCEPT !.fd = db[a].fd].waiting_disconnect = INVALID_TIMER
        BY <4>1 DEF NewEntry, OnlineEntry
      <4>3. /\ [db[a] EXCEPT !.waiting_disconnect = INVALID_TIMER] \in OnlineEntry
            /\ [db[a] EXCEPT !.waiting_disconnect = INVALID_TIMER].fd = db[a].fd
            /\ [db[a] EXCEPT !.waiting_disconnect = INVALID_TIMER].waiting_disconnect = INVALID_TIMER
        BY <4>1 DEF OnlineEntry
      <4> QED
        BY <3>2, <4>1, <4>2, <4>3
    <3> QED
      BY <3>1, <3>2
  <2>4. /\ online_db' = [db EXCEPT ![a] = e]
        /\ IF closes THEN StopTimers({a}) ELSE UNCHANGED timer
    BY <1>2, <2>0, <2>1, <2>2 DEF ClientClosed, db
  <2> HIDE DEF e, closes
  <2>5. online_db'[a] = e /\ \A b \in Account \ {a} : online_db'[b] = online_db[b]
    BY <2>1, <2>2, <2>4
  <2>6. TypeOnline'
    BY <2>1, <2>2, <2>3, <2>4, WithoutValues DEF CharInv, Tables, TypeOnline
  <2>7. TimersMatchEntries'
    <3>1. \A b \in Account \ {a}, t \in Tid : TimerIsCurrent(b, t)' <=> TimerIsCurrent(b, t)
      BY <2>5 DEF TimerIsCurrent
    <3>2. CASE closes
      <4>1. \A t \in Tid : ~TimerIsCurrent(a, t)'
        BY <2>3, <2>5, <3>2 DEF TimerIsCurrent, INVALID_TIMER
      <4> QED
        BY <2>1, <2>4, <3>1, <3>2, <4>1, TimersStopped DEF CharInv, Tables
    <3>3. CASE ~closes
      <4>1. \A t \in Tid : TimerIsCurrent(a, t)' <=> TimerIsCurrent(a, t)
        BY <2>2, <2>3, <2>5, <3>3 DEF TimerIsCurrent, closes, e
      <4> QED
        BY <2>4, <3>1, <3>3, <4>1 DEF CharInv, Tables, TimersMatchEntries, TimerIsCurrent
    <3> QED
      BY <3>2, <3>3
  <2>8. NowhereNoTimer'
    BY <2>2, <2>3, <2>5 DEF CharInv, Tables, NowhereNoTimer, closes
  <2>9. EntryFdIsItsSession'
    <3>1. \A g \in Fd \ {f} : session'[g] = session[g]
      BY DEF ClientClosed, CharInv, Tables
    <3>2. ASSUME NEW b \in Account, online_db'[b] # NoUser, online_db'[b].fd # NONE
          PROVE  online_db[b] # NoUser /\ online_db'[b].fd = online_db[b].fd /\ online_db[b].fd \in Fd \ {f}
      <4>1. CASE b = a
        <5>1. online_db[b] # NoUser /\ online_db'[b].fd = online_db[b].fd /\ online_db[b].fd # f
          BY <2>2, <2>3, <2>5, <3>2, <4>1
        <5> QED
          BY <3>2, <5>1 DEF CharInv, Tables, TypeOnline, OnlineEntry
      <4>2. CASE b # a
        <5>1. online_db'[b] = online_db[b]
          BY <2>5, <4>2
        <5>2. online_db[b].fd # f
          BY <2>0, <3>2, <4>2, <5>1 DEF CharInv, Tables, EntryFdIsItsSession
        <5> QED
          BY <3>2, <5>1, <5>2 DEF CharInv, Tables, TypeOnline, OnlineEntry
      <4> QED
        BY <4>1, <4>2
    <3> SUFFICES ASSUME NEW b \in Account, online_db'[b] # NoUser, online_db'[b].fd # NONE
                 PROVE  /\ session'[online_db'[b].fd] # NoUser
                        /\ session'[online_db'[b].fd].auth
                        /\ LoginAccount[session'[online_db'[b].fd].login] = b
      BY DEF EntryFdIsItsSession
    <3>3. session'[online_db'[b].fd] = session[online_db[b].fd] /\ online_db[b].fd # NONE
      BY <3>1, <3>2
    <3> QED
      BY <3>2, <3>3 DEF CharInv, Tables, EntryFdIsItsSession
  <2> QED
    BY <2>6, <2>7, <2>8, <2>9 DEF ClientClosed, CharInv, Tables, TypeRest, CacheIsCurrent, linkVars
<1> QED
  BY <1>1, <1>2

LEMMA ConnectsInv ==
  ASSUME CharInv, NEW f \in Fd, Connects(f)
  PROVE  CharInv'
BY ParseReqToConnectInv, ClientHangsUpInv, ClientClosedInv DEF Connects

----------------------------------------------------------------------------
(* The login server and the timers. *)

\* char_set_char_offline, whatever record of the character was stored just before.
LEMMA SetOfflineTables ==
  ASSUME Tables, NEW a \in Account, NEW c, NEW db, SetOffline(db, c, a), UNCHANGED session
  PROVE  Tables'
<1> DEFINE e == OfflineEntry(c, a)
<1>1. /\ e \in OnlineEntry \cup {NoUser}
      /\ e # NoUser => e.waiting_disconnect = INVALID_TIMER /\ e.fd \in {NONE, Entry(a).fd}
  <2>1. CASE online_db[a] = NoUser
    BY <2>1 DEF OfflineEntry
  <2>2. CASE online_db[a] # NoUser
    <3>1. online_db[a] \in OnlineEntry /\ Entry(a) = online_db[a]
      BY <2>2 DEF Tables, TypeOnline, Entry
    <3>2. /\ SelectEntry(a) \in OnlineEntry
          /\ SelectEntry(a).waiting_disconnect = INVALID_TIMER
          /\ SelectEntry(a).fd = Entry(a).fd
      BY <3>1 DEF SelectEntry, NewEntry, OnlineEntry, NONE, INVALID_TIMER
    <3>3. /\ [online_db[a] EXCEPT !.waiting_disconnect = INVALID_TIMER] \in OnlineEntry
          /\ [online_db[a] EXCEPT !.waiting_disconnect = INVALID_TIMER].waiting_disconnect = INVALID_TIMER
          /\ [online_db[a] EXCEPT !.waiting_disconnect = INVALID_TIMER].fd = online_db[a].fd
      BY <3>1 DEF OnlineEntry
    <3> QED
      BY <2>2, <3>1, <3>2, <3>3 DEF OfflineEntry
  <2> QED
    BY <2>1, <2>2
<1>2. online_db' = [online_db EXCEPT ![a] = e] /\ StopTimers({a})
  BY DEF SetOffline
<1> HIDE DEF e
<1> QED
  BY <1>1, <1>2, EntryReset

LEMMA OfflineCacheType ==
  ASSUME NEW db \in [Char -> Record \cup {NoUser}], NEW c
  PROVE  /\ OfflineCache(db, c) \in [Char -> Record \cup {NoUser}]
         /\ \A x \in Char : OfflineCache(db, c)[x] \in {NoUser, db[x]}
BY DEF OfflineCache

LEMMA ParseAskKickInv ==
  ASSUME CharInv, NEW a \in Account, ParseAskKick(a)
  PROVE  CharInv'
<1>1. Tables' /\ toMap' \in ToMapQueues /\ CacheIsCurrent' /\ cache' \in [Char -> Record \cup {NoUser}]
  <2>1. CASE /\ online_db[a] # NoUser
             /\ online_db[a].server \in MapServer
             /\ KickWithTimer(a)
             /\ UNCHANGED <<session, cache>>
    <3>1. /\ TypeOnline' /\ TimersMatchEntries' /\ NowhereNoTimer'
          /\ \A b \in Account : online_db'[b] # NoUser =>
               online_db[b] # NoUser /\ online_db'[b].fd = online_db[b].fd
      BY <2>1, KickTables DEF CharInv
    <3>2. EntryFdIsItsSession'
      BY <2>1, <3>1 DEF CharInv, Tables, EntryFdIsItsSession
    <3>3. toMap' \in ToMapQueues
      BY <2>1, KickedType DEF KickWithTimer, CharInv, TypeRest
    <3> QED
      BY <2>1, <3>1, <3>2, <3>3 DEF CharInv, Tables, TypeRest, CacheIsCurrent, ParseAskKick
  <2>2. ASSUME NEW f \in SessionsOf(a), session' = [session EXCEPT ![f].eof = TRUE],
               UNCHANGED <<online_db, timer, cache, toMap>>
        PROVE  Tables'
    <3> DEFINE s == [session[f] EXCEPT !.eof = TRUE]
    <3>1. f \in Fd /\ session[f] \in Session /\ session' = [session EXCEPT ![f] = s]
      BY <2>2 DEF SessionsOf, CharInv, Tables
    <3>2. s \in Session /\ s # NoUser /\ s.auth = session[f].auth /\ s.login = session[f].login
      BY <3>1 DEF Session
    <3> HIDE DEF s
    <3> QED
      BY <2>2, <3>1, <3>2, SessionTables DEF CharInv
  <2>3. CASE SetOffline(cache, NONE, a) /\ UNCHANGED <<session, toMap>>
    <3>1. Tables'
      BY <2>3, SetOfflineTables DEF CharInv
    <3>2. cache' = OfflineCache(cache, NONE)
      BY <2>3 DEF SetOffline
    <3>3. /\ cache' \in [Char -> Record \cup {NoUser}]
          /\ \A c \in Char : cache'[c] \in {NoUser, cache[c]}
      <4> cache \in [Char -> Record \cup {NoUser}]
        BY DEF CharInv, TypeRest
      <4> QED
        BY <3>2, OfflineCacheType
    <3>4. CacheIsCurrent'
      BY <3>3 DEF CharInv, CacheIsCurrent, ParseAskKick
    <3> QED
      BY <2>3, <3>1, <3>3, <3>4 DEF CharInv, TypeRest
  <2>4. CASE UNCHANGED <<session, online_db, timer, cache, toMap>>
    BY <2>4 DEF CharInv, Tables, TypeOnline, NowhereNoTimer, TimersMatchEntries,
                EntryFdIsItsSession, TypeRest, CacheIsCurrent, ParseAskKick
  <2>5. UNCHANGED <<cache, toMap>>
        => toMap' \in ToMapQueues /\ CacheIsCurrent' /\ cache' \in [Char -> Record \cup {NoUser}]
    BY DEF CharInv, TypeRest, CacheIsCurrent, ParseAskKick
  <2> QED
    BY <2>1, <2>2, <2>3, <2>4, <2>5 DEF ParseAskKick
<1>2. auth_db' \in [Account -> AuthNode \cup {NoUser}]
  BY DEF ParseAskKick, CharInv, TypeRest
<1> QED
  BY <1>1, <1>2 DEF ParseAskKick, CharInv, TypeRest

LEMMA LinkSteps ==
  ASSUME CharInv, LoginLinkLost \/ CheckConnectLogServer
  PROVE  CharInv'
<1>1. UNCHANGED <<session, online_db, timer, cache, sql, linkVars>>
  BY DEF LoginLinkLost, CheckConnectLogServer
<1>2. Tables' /\ CacheIsCurrent'
  BY <1>1, TablesUnchanged DEF CharInv, CacheIsCurrent
<1>3. TypeRest'
  BY DEF LoginLinkLost, CheckConnectLogServer, linkVars, CharInv, TypeRest
<1> QED
  BY <1>2, <1>3 DEF CharInv

LEMMA ParseLoginInv ==
  ASSUME CharInv, ParseLogin
  PROVE  CharInv'
BY ParseAckAccReqInv, ParseAskKickInv, LinkSteps DEF ParseLogin

\* AUTH_TIMEOUT: the timer is the one its account waits for.
LEMMA WaitingDisconnectInv ==
  ASSUME CharInv, NEW t \in Tid, WaitingDisconnect(t)
  PROVE  CharInv'
<1>1. PICK a \in Account : a = timer[t]
  BY DEF WaitingDisconnect, CharInv, Tables, TypeOnline
<1>2. online_db[a] # NoUser /\ online_db[a].waiting_disconnect = t /\ TimerIsCurrent(a, t)
  BY <1>1, OneWaits DEF CharInv, Tables, TimerIsCurrent
<1> DEFINE c == online_db[a].char_id
<1>3. /\ online_db' = [online_db EXCEPT ![a] = OfflineEntry(@.char_id, a)]
      /\ cache' = OfflineCache(cache, c)
      /\ timer' = [timer EXCEPT ![t] = NoUser]
  BY <1>1, <1>2 DEF WaitingDisconnect
<1>4. online_db' = [online_db EXCEPT ![a] = OfflineEntry(c, a)]
  BY <1>3 DEF CharInv, Tables, TypeOnline
<1>5. StopTimers({a})
  BY <1>2, <1>3 DEF StopTimers, Without, TimersOf, CharInv, Tables, TypeOnline
<1>6. Tables'
  <2>1. UNCHANGED session
    BY DEF WaitingDisconnect
  <2>2. SetOffline(cache, c, a)
    BY <1>3, <1>4, <1>5 DEF SetOffline
  <2> QED
    BY <2>1, <2>2, SetOfflineTables DEF CharInv
<1>7. CacheIsCurrent' /\ cache' \in [Char -> Record \cup {NoUser}]
  BY <1>3, OfflineCacheType DEF WaitingDisconnect, CharInv, TypeRest, CacheIsCurrent
<1> QED
  BY <1>6, <1>7 DEF WaitingDisconnect, CharInv, TypeRest, linkVars

\* char_online_data_cleanup drops entries without a timer, or stops it.
LEMMA OnlineDataCleanupInv ==
  ASSUME CharInv, OnlineDataCleanup
  PROVE  CharInv'
<1> DEFINE idle == {a \in Account : online_db[a] # NoUser /\ online_db[a].fd = NONE}
<1>1. PICK walked \in SUBSET idle :
        /\ LET lost == {a \in walked : online_db[a].server = UNKNOWN}
           IN  /\ cache' = [c \in Char |->
                     IF \E a \in lost : online_db[a].char_id = c THEN NoUser ELSE cache[c]]
               /\ StopTimers(lost)
        /\ online_db' = [a \in Account |->
             IF a \in walked /\ online_db[a].server < 0 THEN NoUser ELSE online_db[a]]
        /\ UNCHANGED <<session, asked, login_fd, auth_db, sql, maps, restarts, spent, linkVars>>
  BY DEF OnlineDataCleanup
<1> DEFINE lost == {a \in walked : online_db[a].server = UNKNOWN}
<1>2. \A a \in walked : online_db[a] \in OnlineEntry
  BY DEF CharInv, Tables, TypeOnline
<1>3. \A a \in Account : \/ online_db'[a] = online_db[a] /\ a \notin lost
                         \/ /\ a \in walked /\ online_db'[a] = NoUser
                            /\ online_db[a].server \in {NONE, UNKNOWN}
  <2>1. \A a \in walked : online_db[a].server \in MapServer \cup {NONE, UNKNOWN}
    BY <1>2 DEF OnlineEntry
  <2>2. ASSUME NEW a \in walked
        PROVE  online_db[a].server < 0 <=> online_db[a].server \in {NONE, UNKNOWN}
    <3>1. CASE online_db[a].server \in MapServer
      <4>1. online_db[a].server \in Nat
        BY <3>1
      <4> QED
        BY <4>1 DEF NONE, UNKNOWN
    <3>2. CASE online_db[a].server \in {NONE, UNKNOWN}
      BY <3>2 DEF NONE, UNKNOWN
    <3> QED
      BY <2>1, <3>1, <3>2
  <2> QED
    BY <1>1, <2>2
<1>4. TypeOnline'
  <2>1. timer' \in [Tid -> Account \cup {NoUser}]
    BY <1>1, WithoutValues DEF CharInv, Tables
  <2> QED
    BY <1>1, <2>1 DEF CharInv, Tables, TypeOnline
<1>5. TimersMatchEntries'
  <2>1. \A a \in lost, t \in Tid : ~TimerIsCurrent(a, t)'
    BY <1>3 DEF TimerIsCurrent
  <2>2. ASSUME NEW a \in Account \ lost, NEW t \in Tid
        PROVE  TimerIsCurrent(a, t)' <=> TimerIsCurrent(a, t)
    <3>1. CASE online_db'[a] = online_db[a]
      BY <3>1 DEF TimerIsCurrent
    <3>2. CASE online_db'[a] # online_db[a]
      <4>1. a \in walked /\ online_db'[a] = NoUser /\ online_db[a].server = NONE
        BY <1>3, <3>2
      <4>2. ~TimerIsCurrent(a, t)
        BY <4>1 DEF CharInv, Tables, NowhereNoTimer, TimerIsCurrent, INVALID_TIMER
      <4> QED
        BY <4>1, <4>2 DEF TimerIsCurrent
    <3> QED
      BY <3>1, <3>2
  <2> QED
    BY <1>1, <2>1, <2>2, TimersStopped DEF CharInv, Tables
<1>6. NowhereNoTimer'
  BY <1>3 DEF CharInv, Tables, NowhereNoTimer
<1>7. EntryFdIsItsSession'
  <2>1. UNCHANGED session
    BY <1>1
  <2> QED
    BY <1>3, <2>1 DEF CharInv, Tables, EntryFdIsItsSession
<1>8. cache' \in [Char -> Record \cup {NoUser}] /\ CacheIsCurrent'
  BY <1>1 DEF CharInv, TypeRest, CacheIsCurrent
<1> QED
  BY <1>1, <1>4, <1>5, <1>6, <1>7, <1>8 DEF CharInv, Tables, TypeRest, linkVars

LEMMA TimersInv ==
  ASSUME CharInv, Timers
  PROVE  CharInv'
BY WaitingDisconnectInv, OnlineDataCleanupInv DEF Timers

----------------------------------------------------------------------------
(* The packets of map servers. *)

LEMMA ReceiveRest ==
  ASSUME CharInv, NEW m \in MapServer, NEW cmd, Receive(m, cmd)
  PROVE  /\ Msg(m) \in FromMapMsg
         /\ Msg(m).cmd = cmd
         /\ fromMap' \in [MapServer -> Seq(FromMapMsg)]
BY ReceiveType, CharInvTypes

LEMMA ParseGetMapNameInv ==
  ASSUME CharInv, NEW m \in MapServer, ParseGetMapName(m)
  PROVE  CharInv'
<1>1. fromMap' \in [MapServer -> Seq(FromMapMsg)]
  BY ReceiveRest DEF ParseGetMapName
<1>2. PICK order \in Orders(KnownMaps(m)) :
        toMap' = [n \in MapServer |->
            IF n = m
            THEN toMap[n] \o <<[cmd |-> "mapack"]>>
                          \o [i \in DOMAIN order |-> [cmd |-> "maps", of |-> order[i]]]
            ELSE IF Active(n) THEN Append(toMap[n], [cmd |-> "maps", of |-> m]) ELSE toMap[n]]
  BY DEF ParseGetMapName
<1> DEFINE others == [i \in DOMAIN order |-> [cmd |-> "maps", of |-> order[i]]]
<1>3. others \in Seq(ToMapMsg)
  <2>1. KnownMaps(m) \subseteq MapServer /\ IsFiniteSet(KnownMaps(m))
    BY FS_Subset DEF KnownMaps, CharInv, TypeRest
  <2>2. order \in Seq(MapServer) /\ DOMAIN order = 1 .. Len(order)
    BY <2>1, OrdersType
  <2>3. \A i \in DOMAIN order : [cmd |-> "maps", of |-> order[i]] \in ToMapMsg
    BY <2>2 DEF ToMapMsg
  <2> QED
    BY <2>2, <2>3
<1>4. /\ <<[cmd |-> "mapack"]>> \in Seq(ToMapMsg)
      /\ [cmd |-> "maps", of |-> m] \in ToMapMsg
      /\ \A n \in MapServer : toMap[n] \in Seq(ToMapMsg)
  BY DEF ToMapMsg, CharInv, TypeRest, ToMapQueues
<1>5. toMap' \in ToMapQueues
  <2> HIDE DEF others
  <2>1. toMap[m] \o <<[cmd |-> "mapack"]>> \o others \in Seq(ToMapMsg)
    BY <1>3, <1>4
  <2>2. \A n \in MapServer : Append(toMap[n], [cmd |-> "maps", of |-> m]) \in Seq(ToMapMsg)
    BY <1>4
  <2> QED
    BY <1>2, <1>4, <2>1, <2>2 DEF ToMapQueues, others
<1>6. Tables' /\ CacheIsCurrent'
  BY TablesUnchanged DEF ParseGetMapName, CharInv, CacheIsCurrent
<1> QED
  BY <1>1, <1>5, <1>6 DEF ParseGetMapName, CharInv, TypeRest

LEMMA ParseRegMapUserInv ==
  ASSUME CharInv, NEW m \in MapServer, ParseRegMapUser(m)
  PROVE  CharInv'
<1> DEFINE users  == Msg(m).users
           listed == {a \in Account : users[a] # NoUser}
           moved(n) == {a \in listed : n # m /\ Entry(a).server = n}
<1>1. /\ fromMap' \in [MapServer -> Seq(FromMapMsg)]
      /\ users \in [Account -> Char \cup {NoUser}]
  BY ReceiveRest, UsersMsg DEF ParseRegMapUser
<1>2. /\ online_db' = [a \in Account |->
              IF a \in listed
              THEN [Entry(a) EXCEPT !.server = m, !.char_id = users[a]]
              ELSE LostEntries(m)[a]]
      /\ \E order \in [MapServer -> UNION {Orders(moved(n)) : n \in MapServer}] :
              /\ \A n \in MapServer : order[n] \in Orders(moved(n))
              /\ toMap' = [n \in MapServer |->
                   IF Active(n) THEN toMap[n] \o Kicks(order[n]) ELSE toMap[n]]
  BY DEF ParseRegMapUser
<1>3. toMap' \in ToMapQueues
  <2>1. PICK order :
          /\ \A n \in MapServer : order[n] \in Orders(moved(n))
          /\ toMap' = [n \in MapServer |->
               IF Active(n) THEN toMap[n] \o Kicks(order[n]) ELSE toMap[n]]
    BY <1>2
  <2>2. \A n \in MapServer : Kicks(order[n]) \in Seq(ToMapMsg) /\ toMap[n] \in Seq(ToMapMsg)
    BY <2>1, KicksType DEF CharInv, TypeRest, ToMapQueues
  <2>3. \A n \in MapServer : toMap[n] \o Kicks(order[n]) \in Seq(ToMapMsg)
    BY <2>2
  <2> QED
    BY <2>1, <2>2, <2>3 DEF ToMapQueues
<1>4. ASSUME NEW a \in Account
      PROVE  /\ online_db'[a] \in OnlineEntry \cup {NoUser}
             /\ IF online_db'[a] = NoUser THEN online_db[a] = NoUser
                ELSE /\ online_db'[a].fd = Entry(a).fd
                     /\ online_db'[a].waiting_disconnect = Entry(a).waiting_disconnect
                     /\ online_db'[a].server # NONE \/ Entry(a).server = NONE
  <2>1. Entry(a) \in OnlineEntry
    BY EntryType DEF CharInv, Tables
  <2>2. CASE a \in listed
    <3> DEFINE e == [Entry(a) EXCEPT !.server = m, !.char_id = users[a]]
    <3>1. users[a] \in Char
      BY <1>1, <2>2
    <3>2. e \in OnlineEntry
      BY <2>1, <3>1 DEF OnlineEntry
    <3>3. e.fd = Entry(a).fd /\ e.waiting_disconnect = Entry(a).waiting_disconnect /\ e.server = m
      BY <2>1 DEF OnlineEntry
    <3>4. online_db'[a] = e
      BY <1>2, <2>2
    <3> HIDE DEF e
    <3> QED
      BY <3>2, <3>3, <3>4 DEF NONE
  <2>3. CASE a \notin listed /\ online_db[a] # NoUser /\ online_db[a].server = m
    <3> DEFINE e == [online_db[a] EXCEPT !.server = UNKNOWN]
    <3>1. online_db[a] \in OnlineEntry /\ Entry(a) = online_db[a]
      BY <2>1, <2>3 DEF Entry
    <3>2. /\ e \in OnlineEntry /\ e.fd = Entry(a).fd
          /\ e.waiting_disconnect = Entry(a).waiting_disconnect /\ e.server = UNKNOWN
      BY <3>1 DEF OnlineEntry
    <3>3. online_db'[a] = e
      BY <1>2, <2>3 DEF LostEntries
    <3> HIDE DEF e
    <3> QED
      BY <3>2, <3>3 DEF NONE, UNKNOWN
  <2>4. CASE a \notin listed /\ ~(online_db[a] # NoUser /\ online_db[a].server = m)
    <3>1. online_db'[a] = online_db[a]
      BY <1>2, <2>4 DEF LostEntries
    <3> QED
      BY <2>1, <3>1 DEF Entry
  <2> QED
    BY <2>2, <2>3, <2>4
<1>5. online_db' \in [Account -> OnlineEntry \cup {NoUser}]
  BY <1>2, <1>4
<1>6. UNCHANGED <<session, timer, cache, sql>>
  BY DEF ParseRegMapUser
<1>7. Tables'
  BY <1>4, <1>5, <1>6, EntriesMoved DEF CharInv
<1> QED
  BY <1>1, <1>3, <1>6, <1>7 DEF ParseRegMapUser, CharInv, TypeRest, CacheIsCurrent

\* What several packets do with an entry: char_set_char_online.
LEMMA OnlineAt ==
  ASSUME Tables, NEW a \in Account, NEW s \in MapServer, NEW c \in Char \cup {NONE},
         online_db' = [online_db EXCEPT ![a] = OnlineEntryAt(s, c, a)],
         StopTimers({a}), UNCHANGED session
  PROVE  Tables'
<1> DEFINE e == OnlineEntryAt(s, c, a)
<1>1. e \in OnlineEntry
  BY OnlineEntryAtType DEF Tables
<1>2. e.waiting_disconnect = INVALID_TIMER /\ e.fd = Entry(a).fd
  BY DEF OnlineEntryAt
<1> HIDE DEF e
<1>3. online_db' = [online_db EXCEPT ![a] = e]
  BY DEF e
<1> QED
  BY <1>1, <1>2, <1>3, EntryReset

LEMMA ParseReqSaveCharInv ==
  ASSUME CharInv, NEW m \in MapServer, ParseReqSaveChar(m)
  PROVE  CharInv'
<1> DEFINE p == Msg(m)
<1>1. /\ fromMap' \in [MapServer -> Seq(FromMapMsg)]
      /\ p.aid \in Account /\ p.cid \in Char /\ p.rec \in Record /\ p.quit \in BOOLEAN
  BY ReceiveRest, SaveMsgFields DEF ParseReqSaveChar
<1>2. PICK a \in Account, c \in Char, r \in Record : a = p.aid /\ c = p.cid /\ r = p.rec
  BY <1>1
<1>3. UNCHANGED session
  BY DEF ParseReqSaveChar
<1>4. CASE Accepted(p)
  <2>1. sql' \in ToSql(c, r)
    BY <1>2, <1>4 DEF ParseReqSaveChar
  <2>2. sql' \in [Char -> Record] /\ sql'[c].ver = r.ver /\ \A x \in Char \ {c} : sql'[x] = sql[x]
    <3>1. CASE sql' = [sql EXCEPT ![c] = r]
      BY <3>1 DEF CharInv, TypeRest
    <3>2. CASE cache[c] = r /\ sql' = sql
      BY <3>2 DEF CharInv, TypeRest, CacheIsCurrent
    <3> QED
      BY <2>1, <3>1, <3>2 DEF ToSql
  <2> DEFINE db == CachedToo(cache, c, r)
  <2>3. db \in [Char -> Record \cup {NoUser}] /\ db[c] = r /\ \A x \in Char \ {c} : db[x] = cache[x]
    BY DEF CachedToo, CharInv, TypeRest
  <2>4. CASE p.quit
    <3>1. /\ SetOffline(db, c, a)
          /\ toMap' = Sent(toMap, m, <<[cmd |-> "saveack", aid |-> a, cid |-> c]>>)
      BY <1>2, <1>4, <2>4 DEF ParseReqSaveChar
    <3>2. Tables'
      BY <1>3, <3>1, SetOfflineTables DEF CharInv
    <3>3. <<[cmd |-> "saveack", aid |-> a, cid |-> c]>> \in Seq(ToMapMsg)
      BY DEF ToMapMsg
    <3>4. toMap' \in ToMapQueues
      BY <3>1, <3>3, SentType DEF CharInv, TypeRest
    <3>5. cache' = OfflineCache(db, c)
      BY <3>1 DEF SetOffline
    <3> HIDE DEF db
    <3>6. cache' \in [Char -> Record \cup {NoUser}] /\ \A x \in Char : cache'[x] \in {NoUser, db[x]}
      BY <2>3, <3>5, OfflineCacheType
    <3>7. CacheIsCurrent'
      BY <2>2, <2>3, <3>6 DEF CharInv, CacheIsCurrent
    <3> QED
      BY <1>1, <2>2, <3>2, <3>4, <3>6, <3>7 DEF ParseReqSaveChar, CharInv, TypeRest
  <2>5. CASE ~p.quit
    <3>1. cache' = db /\ UNCHANGED <<online_db, timer, toMap>>
      BY <1>2, <1>4, <2>5 DEF ParseReqSaveChar
    <3> HIDE DEF db
    <3>2. CacheIsCurrent'
      BY <2>2, <2>3, <3>1 DEF CharInv, CacheIsCurrent
    <3>3. Tables'
      BY <1>3, <3>1, TablesUnchanged DEF CharInv
    <3> QED
      BY <1>1, <2>2, <2>3, <3>1, <3>2, <3>3 DEF ParseReqSaveChar, CharInv, TypeRest
  <2> QED
    BY <2>4, <2>5
<1>5. CASE ~Accepted(p)
  <2>1. /\ online_db' = [online_db EXCEPT ![a] = OnlineEntryAt(m, c, a)]
        /\ StopTimers({a})
        /\ toMap' = KickElsewhere(toMap, m, a)
        /\ UNCHANGED <<sql, cache>>
    BY <1>2, <1>5 DEF ParseReqSaveChar
  <2>2. Tables'
    BY <1>3, <2>1, OnlineAt DEF CharInv
  <2>3. toMap' \in ToMapQueues
    BY <2>1, KickElsewhereType DEF CharInv, TypeRest
  <2> QED
    BY <1>1, <2>1, <2>2, <2>3 DEF ParseReqSaveChar, CharInv, TypeRest, CacheIsCurrent
<1> QED
  BY <1>4, <1>5

LEMMA ParseAuthOkInv ==
  ASSUME CharInv, NEW m \in MapServer, ParseAuthOk(m)
  PROVE  CharInv'
<1> DEFINE p == Msg(m)
<1>1. /\ fromMap' \in [MapServer -> Seq(FromMapMsg)]
      /\ p.aid \in Account /\ p.login \in Login
  BY ReceiveRest, LoginMsg DEF ParseAuthOk
<1>2. PICK a \in Account, l \in Login : a = p.aid /\ l = p.login
  BY <1>1
<1>3. /\ auth_db' = [auth_db EXCEPT ![a] = [char_id |-> 0, login |-> l]]
      /\ online_db' = [online_db EXCEPT ![a] = SelectEntry(a)]
      /\ StopTimers({a})
      /\ UNCHANGED session
  BY <1>2 DEF ParseAuthOk
<1>4. [char_id |-> 0, login |-> l] \in AuthNode
  BY DEF AuthNode
<1> DEFINE e == SelectEntry(a)
<1>5. e \in OnlineEntry /\ e.waiting_disconnect = INVALID_TIMER /\ e.fd = Entry(a).fd
  BY EntryType DEF SelectEntry, NewEntry, CharInv, Tables
<1>6. Tables'
  <2> HIDE DEF e
  <2>1. online_db' = [online_db EXCEPT ![a] = e]
    BY <1>3 DEF e
  <2> QED
    BY <1>3, <1>5, <2>1, EntryReset DEF CharInv
<1>7. auth_db' \in [Account -> AuthNode \cup {NoUser}]
  BY <1>3, <1>4 DEF CharInv, TypeRest
<1> QED
  BY <1>1, <1>6, <1>7 DEF ParseAuthOk, CharInv, TypeRest, CacheIsCurrent

\* The record a handler works on is current.
LEMMA LoadedType ==
  ASSUME TypeRest, CacheIsCurrent, NEW c \in Char
  PROVE  Loaded(c) \in Record /\ Loaded(c).ver = sql[c].ver
BY DEF TypeRest, CacheIsCurrent, Loaded

LEMMA ParseReqChangeMapServInv ==
  ASSUME CharInv, NEW m \in MapServer, ParseReqChangeMapServ(m)
  PROVE  CharInv'
<1> DEFINE p  == Msg(m)
<1>1. /\ fromMap' \in [MapServer -> Seq(FromMapMsg)]
      /\ p.aid \in Account /\ p.login \in Login /\ p.cid \in Char /\ p.to \in MapServer
  BY ReceiveRest, LoginMsg, CharMsg DEF ParseReqChangeMapServ
<1>2. PICK a \in Account, l \in Login, c \in Char, to \in MapServer :
        a = p.aid /\ l = p.login /\ c = p.cid /\ to = p.to
  BY <1>1
<1>3. PICK ok \in BOOLEAN :
        /\ cache' = [cache EXCEPT ![c] = IF ok THEN [Loaded(c) EXCEPT !.at = to] ELSE Loaded(c)]
        /\ auth_db' = IF ok THEN [auth_db EXCEPT ![a] = [char_id |-> c, login |-> l]]
                       ELSE auth_db
        /\ online_db' = IF ok THEN [online_db EXCEPT ![a] =
                                       [Entry(a) EXCEPT !.char_id = c, !.server = to]]
                         ELSE online_db
        /\ toMap' = Sent(toMap, m, <<[cmd |-> "changeack", aid |-> a, cid |-> c, ok |-> ok]>>)
  <2>1. (Hosts(to) /\ Active(to)) \in BOOLEAN
    BY DEF Hosts, Active
  <2> QED
    BY <1>2, <2>1 DEF ParseReqChangeMapServ
<1>4. UNCHANGED <<session, asked, login_fd, timer, sql, maps, restarts, spent, map_fd, char_fd>>
  BY DEF ParseReqChangeMapServ
<1>5. toMap' \in ToMapQueues
  <2>1. <<[cmd |-> "changeack", aid |-> a, cid |-> c, ok |-> ok]>> \in Seq(ToMapMsg)
    BY DEF ToMapMsg
  <2> QED
    BY <1>3, <2>1, SentType DEF CharInv, TypeRest
<1>6. auth_db' \in [Account -> AuthNode \cup {NoUser}]
  <2>1. [char_id |-> c, login |-> l] \in AuthNode
    BY DEF AuthNode
  <2> QED
    BY <1>3, <2>1 DEF CharInv, TypeRest
<1>7. cache' \in [Char -> Record \cup {NoUser}] /\ CacheIsCurrent'
  <2> DEFINE r == IF ok THEN [Loaded(c) EXCEPT !.at = to] ELSE Loaded(c)
  <2>1. r \in Record /\ r.ver = sql[c].ver
    BY LoadedType DEF CharInv, Record
  <2> HIDE DEF r
  <2>2. cache' = [cache EXCEPT ![c] = r]
    BY <1>3 DEF r
  <2>3. cache' \in [Char -> Record \cup {NoUser}]
    BY <2>1, <2>2 DEF CharInv, TypeRest
  <2>4. cache'[c] = r /\ \A x \in Char \ {c} : cache'[x] = cache[x]
    BY <2>2 DEF CharInv, TypeRest
  <2> QED
    BY <1>4, <2>1, <2>3, <2>4 DEF CharInv, CacheIsCurrent
<1>8. Tables'
  <2>1. CASE ~ok
    BY <1>3, <1>4, <2>1, TablesUnchanged DEF CharInv
  <2>2. CASE ok
    <3> DEFINE e == [Entry(a) EXCEPT !.char_id = c, !.server = to]
    <3>1. Entry(a) \in OnlineEntry
      BY EntryType DEF CharInv, Tables
    <3>2. /\ e \in OnlineEntry /\ e.fd = Entry(a).fd
          /\ e.waiting_disconnect = Entry(a).waiting_disconnect /\ e.server = to
      BY <3>1 DEF OnlineEntry
    <3>3. online_db' = [online_db EXCEPT ![a] = e]
      BY <1>3, <2>2
    <3> HIDE DEF e
    <3>4. online_db' \in [Account -> OnlineEntry \cup {NoUser}]
      BY <3>2, <3>3 DEF CharInv, Tables, TypeOnline
    <3>5. online_db'[a] = e /\ \A b \in Account \ {a} : online_db'[b] = online_db[b]
      BY <3>3 DEF CharInv, Tables, TypeOnline
    <3>6. \A b \in Account \ {a} : online_db[b] # NoUser => Entry(b) = online_db[b]
      BY DEF Entry
    <3>7. e # NoUser /\ e.server # NONE
      BY <3>2 DEF NONE
    <3>8. \A b \in Account :
           IF online_db'[b] = NoUser THEN online_db[b] = NoUser
           ELSE /\ online_db'[b].fd = Entry(b).fd
                /\ online_db'[b].waiting_disconnect = Entry(b).waiting_disconnect
                /\ online_db'[b].server # NONE \/ Entry(b).server = NONE
      BY <3>2, <3>5, <3>6, <3>7
    <3> QED
      BY <1>4, <3>4, <3>8, EntriesMoved DEF CharInv
  <2> QED
    BY <2>1, <2>2
<1> QED
  BY <1>1, <1>4, <1>5, <1>6, <1>7, <1>8 DEF CharInv, TypeRest

LEMMA ParseSetCharOfflineInv ==
  ASSUME CharInv, NEW m \in MapServer, ParseSetCharOffline(m)
  PROVE  CharInv'
<1>1. /\ fromMap' \in [MapServer -> Seq(FromMapMsg)]
      /\ Msg(m).aid \in Account
  BY ReceiveRest, SetCharMsg DEF ParseSetCharOffline
<1>2. PICK c : SetOffline(cache, c, Msg(m).aid)
  BY DEF ParseSetCharOffline
<1>3. Tables'
  BY <1>1, <1>2, SetOfflineTables DEF CharInv, ParseSetCharOffline
<1>4. cache' = OfflineCache(cache, c)
  BY <1>2 DEF SetOffline
<1>5. cache' \in [Char -> Record \cup {NoUser}] /\ \A x \in Char : cache'[x] \in {NoUser, cache[x]}
  <2> cache \in [Char -> Record \cup {NoUser}]
    BY DEF CharInv, TypeRest
  <2> QED
    BY <1>4, OfflineCacheType
<1>6. CacheIsCurrent'
  BY <1>5 DEF CharInv, CacheIsCurrent, ParseSetCharOffline
<1> QED
  BY <1>1, <1>3, <1>5, <1>6 DEF ParseSetCharOffline, CharInv, TypeRest

LEMMA ParseSetCharOnlineInv ==
  ASSUME CharInv, NEW m \in MapServer, ParseSetCharOnline(m)
  PROVE  CharInv'
<1> DEFINE p  == Msg(m)
<1>1. /\ fromMap' \in [MapServer -> Seq(FromMapMsg)]
      /\ p.aid \in Account /\ p.cid \in Char \cup {NONE}
  BY ReceiveRest, SetCharMsg DEF ParseSetCharOnline, NONE
<1>2. PICK a \in Account, c \in Char \cup {NONE} : a = p.aid /\ c = p.cid
  BY <1>1
<1>3. /\ online_db' = [online_db EXCEPT ![a] = OnlineEntryAt(m, c, a)]
      /\ StopTimers({a})
      /\ toMap' = KickElsewhere(toMap, m, a)
      /\ UNCHANGED session
  BY <1>2 DEF ParseSetCharOnline
<1>4. Tables'
  BY <1>3, OnlineAt DEF CharInv
<1>5. toMap' \in ToMapQueues
  BY <1>3, KickElsewhereType DEF CharInv, TypeRest
<1> QED
  BY <1>1, <1>4, <1>5 DEF ParseSetCharOnline, CharInv, TypeRest, CacheIsCurrent

LEMMA ParseReqAuthInv ==
  ASSUME CharInv, NEW m \in MapServer, ParseReqAuth(m)
  PROVE  CharInv'
<1> DEFINE p  == Msg(m)
<1>1. /\ fromMap' \in [MapServer -> Seq(FromMapMsg)]
      /\ p.aid \in Account /\ p.login \in Login /\ p.cid \in Char
  BY ReceiveRest, LoginMsg, CharMsg DEF ParseReqAuth
<1>2. PICK a \in Account, l \in Login, c \in Char : a = p.aid /\ l = p.login /\ c = p.cid
  BY <1>1
<1>3. /\ cache' = [cache EXCEPT ![c] = Loaded(c)]
      /\ UNCHANGED <<session, sql>>
      /\ Loaded(c) \in Record /\ Loaded(c).ver = sql[c].ver
  BY <1>2, LoadedType DEF ParseReqAuth, CharInv
<1>4. cache' \in [Char -> Record \cup {NoUser}] /\ CacheIsCurrent'
  <2>1. cache' \in [Char -> Record \cup {NoUser}]
    BY <1>3 DEF CharInv, TypeRest
  <2>2. cache'[c] = Loaded(c) /\ \A x \in Char \ {c} : cache'[x] = cache[x]
    BY <1>3 DEF CharInv, TypeRest
  <2> QED
    BY <1>3, <2>1, <2>2 DEF CharInv, CacheIsCurrent
<1>5. CASE NodeMatches(p)
  <2> DEFINE ok == <<[cmd |-> "authok", aid |-> a, cid |-> c, login |-> l, rec |-> Loaded(c)]>>
  <2>1. /\ auth_db' = NodeUsed(a)
        /\ online_db' = [online_db EXCEPT ![a] = OnlineEntryAt(m, c, a)]
        /\ StopTimers({a})
        /\ toMap' = KickElsewhere(Sent(toMap, m, ok), m, a)
    BY <1>2, <1>5 DEF ParseReqAuth
  <2>2. ok \in Seq(ToMapMsg)
    BY <1>3 DEF ToMapMsg
  <2>3. toMap' \in ToMapQueues
    <3> HIDE DEF ok
    <3>1. Sent(toMap, m, ok) \in ToMapQueues
      BY <2>2, SentType DEF CharInv, TypeRest
    <3> QED
      BY <2>1, <3>1, KickElsewhereType
  <2>4. Tables'
    BY <1>3, <2>1, OnlineAt DEF CharInv
  <2>5. auth_db' \in [Account -> AuthNode \cup {NoUser}]
    BY <2>1 DEF NodeUsed, CharInv, TypeRest
  <2> QED
    BY <1>1, <1>4, <2>3, <2>4, <2>5 DEF ParseReqAuth, CharInv, TypeRest
<1>6. CASE ~NodeMatches(p)
  <2>1. /\ toMap' = Sent(toMap, m, <<[cmd |-> "authfail", aid |-> a, cid |-> c, login |-> l]>>)
        /\ UNCHANGED <<auth_db, online_db, timer>>
    BY <1>2, <1>6 DEF ParseReqAuth
  <2>2. <<[cmd |-> "authfail", aid |-> a, cid |-> c, login |-> l]>> \in Seq(ToMapMsg)
    BY DEF ToMapMsg
  <2>3. toMap' \in ToMapQueues
    BY <2>1, <2>2, SentType DEF CharInv, TypeRest
  <2>4. Tables'
    BY <1>3, <2>1, TablesUnchanged DEF CharInv
  <2> QED
    BY <1>1, <1>4, <2>1, <2>3, <2>4 DEF ParseReqAuth, CharInv, TypeRest
<1> QED
  BY <1>5, <1>6

LEMMA ParseSetAllOfflineInv ==
  ASSUME CharInv, NEW m \in MapServer, ParseSetAllOffline(m)
  PROVE  CharInv'
<1>1. fromMap' \in [MapServer -> Seq(FromMapMsg)]
  BY ReceiveRest DEF ParseSetAllOffline
<1>2. toMap' \in ToMapQueues
  <2>1. PICK order \in Orders({a \in Account : Entry(a).server = m}) :
          toMap' = Sent(toMap, m, Kicks(order))
    BY DEF ParseSetAllOffline
  <2>2. Kicks(order) \in Seq(ToMapMsg)
    BY KicksType
  <2> QED
    BY <2>1, <2>2, SentType DEF CharInv, TypeRest
<1>3. Tables' /\ CacheIsCurrent'
  BY TablesUnchanged DEF ParseSetAllOffline, charVars, CharInv, CacheIsCurrent
<1> QED
  BY <1>1, <1>2, <1>3 DEF ParseSetAllOffline, charVars, CharInv, TypeRest

LEMMA ParseMapInv ==
  ASSUME CharInv, NEW m \in MapServer, ParseMap(m)
  PROVE  CharInv'
BY ParseGetMapNameInv, ParseRegMapUserInv, ParseReqSaveCharInv, ParseAuthOkInv,
   ParseReqChangeMapServInv, ParseSetCharOfflineInv, ParseSetCharOnlineInv, ParseReqAuthInv,
   ParseSetAllOfflineInv DEF ParseMap

----------------------------------------------------------------------------
(* Links and restarts. *)

LEMMA ParseMapLoginInv ==
  ASSUME CharInv, NEW m \in MapServer, ParseMapLogin(m)
  PROVE  CharInv'
<1>1. <<[cmd |-> "connectack"]>> \in Seq(ToMapMsg)
  BY DEF ToMapMsg
<1>2. Tables' /\ CacheIsCurrent'
  BY TablesUnchanged DEF ParseMapLogin, charVars, CharInv, CacheIsCurrent
<1> QED
  BY <1>1, <1>2 DEF ParseMapLogin, charVars, CharInv, TypeRest, ToMapQueues

LEMMA MapDisconnectedInv ==
  ASSUME CharInv, NEW m \in MapServer, MapDisconnected(m)
  PROVE  CharInv'
<1>1. ASSUME NEW a \in Account
      PROVE  /\ online_db'[a] \in OnlineEntry \cup {NoUser}
             /\ IF online_db'[a] = NoUser THEN online_db[a] = NoUser
                ELSE /\ online_db'[a].fd = Entry(a).fd
                     /\ online_db'[a].waiting_disconnect = Entry(a).waiting_disconnect
                     /\ online_db'[a].server # NONE \/ Entry(a).server = NONE
  <2>1. CASE online_db[a] # NoUser /\ online_db[a].server = m
    <3> DEFINE e == [online_db[a] EXCEPT !.server = UNKNOWN]
    <3>1. online_db[a] \in OnlineEntry /\ Entry(a) = online_db[a]
      BY <2>1 DEF Entry, CharInv, Tables, TypeOnline
    <3>2. /\ e \in OnlineEntry /\ e.fd = Entry(a).fd
          /\ e.waiting_disconnect = Entry(a).waiting_disconnect /\ e.server = UNKNOWN
      BY <3>1 DEF OnlineEntry
    <3>3. online_db'[a] = e
      BY <2>1 DEF MapDisconnected, LostEntries
    <3> HIDE DEF e
    <3> QED
      BY <3>2, <3>3 DEF NONE, UNKNOWN
  <2>2. CASE ~(online_db[a] # NoUser /\ online_db[a].server = m)
    <3>1. online_db'[a] = online_db[a]
      BY <2>2 DEF MapDisconnected, LostEntries
    <3> QED
      BY <3>1 DEF Entry, CharInv, Tables, TypeOnline
  <2> QED
    BY <2>1, <2>2
<1>2. online_db' \in [Account -> OnlineEntry \cup {NoUser}]
  BY <1>1 DEF MapDisconnected, LostEntries
<1>3. Tables'
  BY <1>1, <1>2, EntriesMoved DEF CharInv, MapDisconnected
<1>4. toMap' \in ToMapQueues
  <2>1. [cmd |-> "removemap", of |-> m] \in ToMapMsg
    BY DEF ToMapMsg
  <2>2. \A n \in MapServer : toMap[n] \in Seq(ToMapMsg)
                             /\ Append(toMap[n], [cmd |-> "removemap", of |-> m]) \in Seq(ToMapMsg)
    BY <2>1 DEF CharInv, TypeRest, ToMapQueues
  <2> QED
    BY <2>2 DEF MapDisconnected, ToMapQueues
<1> QED
  BY <1>3, <1>4 DEF MapDisconnected, CharInv, TypeRest, CacheIsCurrent

LEMMA LinksInv ==
  ASSUME CharInv, Links
  PROVE  CharInv'
BY ParseMapLoginInv, MapDisconnectedInv DEF Links

\* Empty tables are as they should be: at the start, and after a restart.
LEMMA EmptyTables ==
  ASSUME session = [f \in Fd |-> NoUser], online_db = [a \in Account |-> NoUser],
         timer = [t \in Tid |-> NoUser]
  PROVE  Tables
<1>1. \A a \in Account : a # NoUser
  OBVIOUS
<1> QED
  BY <1>1 DEF Tables, TypeOnline, NowhereNoTimer, TimersMatchEntries, EntryFdIsItsSession

LEMMA RestartedInv ==
  ASSUME CharInv, Restarted, restarts' \in 0 .. CharRestarts
  PROVE  CharInv'
<1>1. Tables'
  <2>1. \A a \in Account : a # NoUser
    OBVIOUS
  <2>2. /\ \A a \in Account : online_db'[a] = NoUser
        /\ \A t \in Tid : timer'[t] = NoUser
    BY DEF Restarted
  <2> QED
    BY <2>1, <2>2 DEF Restarted, Tables, TypeOnline, NowhereNoTimer, TimersMatchEntries,
                      EntryFdIsItsSession
<1>2. CacheIsCurrent'
  BY DEF Restarted, CacheIsCurrent
<1>3. TypeRest'
  <2>1. \A m \in MapServer : char_fd'[m] \in {"none", "open", "eof"}
    BY DEF Restarted, CharInv, TypeRest
  <2>2. <<>> \in Seq(ToMapMsg) /\ <<>> \in Seq(FromMapMsg)
    OBVIOUS
  <2> QED
    BY <2>1, <2>2 DEF Restarted, CharInv, TypeRest, ToMapQueues
<1> QED
  BY <1>1, <1>2, <1>3 DEF CharInv

LEMMA CharStart ==
  ASSUME InitLinks, InitChar
  PROVE  CharInv
<1>1. Tables
  BY EmptyTables DEF InitChar
<1>2. CacheIsCurrent
  BY DEF InitChar, CacheIsCurrent
<1>3. sql \in [Char -> Record]
  BY DEF InitChar, Record
<1>4. TypeRest
  <2>1. <<>> \in Seq(ToMapMsg) /\ <<>> \in Seq(FromMapMsg)
    OBVIOUS
  <2> QED
    BY <1>3, <2>1 DEF InitChar, InitLinks, TypeRest, ToMapQueues
<1> QED
  BY <1>1, <1>2, <1>4 DEF CharInv

\* Every step of the char server keeps its invariant.
LEMMA CharNextInv ==
  ASSUME CharInv, CharNext
  PROVE  CharInv'
BY ConnectsInv, SelectsInv, ParseLoginInv, TimersInv, LinksInv, ParseMapInv DEF CharNext

=============================================================================
