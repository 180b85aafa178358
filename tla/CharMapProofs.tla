----------------------------- MODULE CharMapProofs -----------------------------
(***************************************************************************)
(* Proofs about CharMap: the char server and its map servers together, for    *)
(* every number of them, of accounts, characters, logins and breaks.          *)
(***************************************************************************)
EXTENDS CharMap, CharServerProofs, SequenceTheorems

USE LinksAssumption, CharAssumption, NoUserAssumption, NobodyAssumption,
    DefaultMapAssumption, CharMapAssumption

----------------------------------------------------------------------------
(* What the char server adds to the packets of map servers. *)

\* Packets that let nobody in, free nobody and carry no address.
Plain == {p \in ToMapMsg : p.cmd \in {"kick", "changeack", "authfail", "removemap"}}

\* The answers to the packet of m that let a player in, and that free one.
AuthOks(m) ==
  {p \in ToMapMsg : p.cmd = "authok" /\ Msg(m).cmd = "reqauth" /\ p.cid = Msg(m).cid
                      /\ p.rec = Loaded(p.cid)}
SaveAcks(m) ==
  {p \in ToMapMsg : p.cmd = "saveack" /\ Msg(m).cmd = "save" /\ p.cid = Msg(m).cid /\ Msg(m).quit}

\* Packets of S, or none, go to the end of every queue.
Appends(S, new, old) == \A n \in MapServer : \E ms \in Seq(S) : new[n] = old[n] \o ms

LEMMA NothingAppended ==
  ASSUME NEW S, NEW q \in ToMapQueues
  PROVE  Appends(S, q, q)
<1>1. ASSUME NEW n \in MapServer PROVE <<>> \in Seq(S) /\ q[n] = q[n] \o <<>>
  BY DEF ToMapQueues
<1> QED
  BY <1>1 DEF Appends

LEMMA SentAppends ==
  ASSUME NEW S \in SUBSET ToMapMsg, NEW q \in ToMapQueues, NEW m \in MapServer, NEW ms \in Seq(S)
  PROVE  Appends(S, Sent(q, m, ms), q) /\ Sent(q, m, ms) \in ToMapQueues
<1>1. ms \in Seq(ToMapMsg)
  BY SeqMonotonic
<1>2. \A n \in MapServer : Sent(q, m, ms)[n] = q[n] \o ms \/ Sent(q, m, ms)[n] = q[n] \o <<>>
  BY DEF Sent, ToMapQueues
<1>3. <<>> \in Seq(S)
  OBVIOUS
<1>4. Appends(S, Sent(q, m, ms), q)
  BY <1>2, <1>3 DEF Appends
<1> QED
  BY <1>1, <1>4, SentType

LEMMA MoreAppends ==
  ASSUME NEW S, NEW T, NEW q, NEW r, Appends(S, q, r)
  PROVE  Appends(S \cup T, q, r)
<1>1. Seq(S) \subseteq Seq(S \cup T)
  BY SeqMonotonic
<1> QED
  BY <1>1 DEF Appends

LEMMA AppendsTwice ==
  ASSUME NEW S \in SUBSET ToMapMsg, NEW q \in ToMapQueues, NEW r \in ToMapQueues, NEW s,
         Appends(S, r, q), Appends(S, s, r)
  PROVE  Appends(S, s, q)
<1> SUFFICES ASSUME NEW n \in MapServer PROVE \E ms \in Seq(S) : s[n] = q[n] \o ms
  BY DEF Appends
<1>1. PICK x \in Seq(S), y \in Seq(S) : r[n] = q[n] \o x /\ s[n] = r[n] \o y
  BY DEF Appends
<1>2. x \in Seq(ToMapMsg) /\ y \in Seq(ToMapMsg) /\ q[n] \in Seq(ToMapMsg)
  BY SeqMonotonic DEF ToMapQueues
<1>3. ASSUME NEW t \in Seq(ToMapMsg) PROVE (t \o x) \o y = t \o (x \o y)
  BY <1>2, ConcatAssociative, SMTT(30)
<1>4. x \o y \in Seq(S)
  BY ConcatProperties
<1> QED
  BY <1>1, <1>2, <1>3, <1>4

LEMMA KickElsewhereAppends ==
  ASSUME NEW q \in ToMapQueues, NEW s, NEW a \in Account
  PROVE  Appends(Plain, KickElsewhere(q, s, a), q) /\ Appends(Plain, Kicked(q, s, a), q)
<1>1. <<[cmd |-> "kick", aid |-> a]>> \in Seq(Plain)
  BY DEF Plain, ToMapMsg
<1>2. Plain \in SUBSET ToMapMsg
  BY DEF Plain
<1> QED
  BY <1>1, <1>2, NothingAppended, SentAppends DEF KickElsewhere, Kicked

LEMMA KicksAppend ==
  ASSUME NEW S \in SUBSET Account, NEW order \in Orders(S)
  PROVE  Kicks(order) \in Seq(Plain)
<1>1. IsFiniteSet(S)
  BY FS_Subset
<1>2. order \in Seq(S) /\ DOMAIN order = 1 .. Len(order)
  BY <1>1, OrdersType
<1>3. \A i \in DOMAIN order : [cmd |-> "kick", aid |-> order[i]] \in Plain
  BY <1>2 DEF ToMapMsg, Plain
<1> QED
  BY <1>2, <1>3 DEF Kicks

LEMMA KickTimerAppends ==
  ASSUME CharInv, NEW a \in Account, KickWithTimer(a)
  PROVE  Appends(Plain, toMap', toMap)
<1>1. toMap \in ToMapQueues
  BY DEF CharInv, TypeRest
<1> QED
  BY <1>1, KickElsewhereAppends DEF KickWithTimer

LEMMA ClientAppends ==
  ASSUME CharInv, NEW f \in Fd, Connects(f) \/ Selects(f)
  PROVE  Appends(Plain, toMap', toMap)
<1>1. toMap \in ToMapQueues
  BY DEF CharInv, TypeRest
<1>2. Appends(Plain, toMap, toMap)
  BY <1>1, NothingAppended
<1>3. ASSUME NEW l \in Login, AuthOk(f, l) PROVE Appends(Plain, toMap', toMap)
  BY <1>2, <1>3, KickTimerAppends DEF AuthOk
<1>4. ASSUME NEW l \in Login, ParseReqToConnect(f, l) PROVE Appends(Plain, toMap', toMap)
  BY <1>2, <1>3, <1>4 DEF ParseReqToConnect
<1>5. CASE ClientHangsUp(f) \/ ClientClosed(f)
  BY <1>2, <1>5 DEF ClientHangsUp, ClientClosed, linkVars
<1>6. ASSUME NEW c \in Char, NEW rec, Selected(f, c, rec) PROVE Appends(Plain, toMap', toMap)
  BY <1>1, <1>6, KickElsewhereAppends DEF Selected
<1>7. ASSUME NEW c \in Char, NEW m \in MapServer,
             ParseCharSelect(f, c) \/ ParseSelectAccessibleMap(f, c, m)
      PROVE  Appends(Plain, toMap', toMap)
  BY <1>6, <1>7 DEF ParseCharSelect, ParseSelectAccessibleMap
<1>8. ASSUME NEW c \in Char, ParseCharSelect(f, c) PROVE Appends(Plain, toMap', toMap)
  BY <1>6, <1>8 DEF ParseCharSelect
<1> QED
  BY <1>4, <1>5, <1>7, <1>8 DEF Connects, Selects

LEMMA LoginAppends ==
  ASSUME CharInv, ParseLogin \/ Timers
  PROVE  Appends(Plain, toMap', toMap)
<1>1. toMap \in ToMapQueues
  BY DEF CharInv, TypeRest
<1>2. Appends(Plain, toMap, toMap)
  BY <1>1, NothingAppended
<1>3. ASSUME NEW f \in Fd, NEW l \in Login, NEW ok \in BOOLEAN, ParseAckAccReq(f, l, ok)
      PROVE  Appends(Plain, toMap', toMap)
  BY <1>2, <1>3, KickTimerAppends DEF ParseAckAccReq, AuthOk
<1>4. ASSUME NEW a \in Account, ParseAskKick(a) PROVE Appends(Plain, toMap', toMap)
  BY <1>2, <1>4, KickTimerAppends DEF ParseAskKick
<1>5. CASE LoginLinkLost \/ CheckConnectLogServer \/ Timers
  BY <1>2, <1>5 DEF LoginLinkLost, CheckConnectLogServer, Timers, WaitingDisconnect,
                    OnlineDataCleanup, linkVars
<1> QED
  BY <1>3, <1>4, <1>5 DEF ParseLogin

\* A map server that is gone is reported to the others.
LEMMA DisconnectAppends ==
  ASSUME CharInv, NEW m \in MapServer, MapDisconnected(m)
  PROVE  Appends(Plain, toMap', toMap)
<1>1. [cmd |-> "removemap", of |-> m] \in Plain
  BY DEF Plain, ToMapMsg
<1>2. \A n \in MapServer : toMap[n] \in Seq(ToMapMsg)
  BY DEF CharInv, TypeRest, ToMapQueues
<1> SUFFICES ASSUME NEW n \in MapServer PROVE \E ms \in Seq(Plain) : toMap'[n] = toMap[n] \o ms
  BY DEF Appends
<1>3. <<>> \in Seq(Plain) /\ toMap[n] = toMap[n] \o <<>>
  BY <1>2, ConcatEmptySeq
<1>4. /\ <<[cmd |-> "removemap", of |-> m]>> \in Seq(Plain)
      /\ Append(toMap[n], [cmd |-> "removemap", of |-> m]) = toMap[n] \o <<[cmd |-> "removemap", of |-> m]>>
  BY <1>1, <1>2
<1>5. toMap'[n] \in {toMap[n], Append(toMap[n], [cmd |-> "removemap", of |-> m])}
  BY DEF MapDisconnected
<1> QED
  BY <1>3, <1>4, <1>5

LEMMA PlainPacketAppends ==
  ASSUME CharInv, NEW m \in MapServer,
         \/ ParseRegMapUser(m) \/ ParseAuthOk(m)
         \/ ParseReqChangeMapServ(m) \/ ParseSetCharOffline(m) \/ ParseSetCharOnline(m)
         \/ ParseSetAllOffline(m)
  PROVE  Appends(Plain, toMap', toMap)
<1> DEFINE p == Msg(m)
<1>1. toMap \in ToMapQueues /\ Plain \in SUBSET ToMapMsg
  BY DEF CharInv, TypeRest, Plain
<1>2. Appends(Plain, toMap, toMap)
  BY <1>1, NothingAppended
<1>3. CASE ParseRegMapUser(m)
  <2> DEFINE moved(n) == {a \in {b \in Account : p.users[b] # NoUser} : n # m /\ Entry(a).server = n}
  <2>1. PICK order :
          /\ \A n \in MapServer : order[n] \in Orders(moved(n))
          /\ toMap' = [n \in MapServer |->
               IF Active(n) THEN toMap[n] \o Kicks(order[n]) ELSE toMap[n]]
    BY <1>3 DEF ParseRegMapUser
  <2>2. \A n \in MapServer : Kicks(order[n]) \in Seq(Plain)
    BY <2>1, KicksAppend
  <2>3. \A n \in MapServer : toMap[n] = toMap[n] \o <<>> /\ <<>> \in Seq(Plain)
    BY <1>1, ConcatEmptySeq DEF ToMapQueues
  <2>4. ASSUME NEW n \in MapServer PROVE \E ms \in Seq(Plain) : toMap'[n] = toMap[n] \o ms
    <3>1. CASE Active(n)
      BY <2>1, <2>2, <3>1
    <3>2. CASE ~Active(n)
      BY <2>1, <2>3, <3>2
    <3> QED
      BY <3>1, <3>2
  <2> QED
    BY <2>4 DEF Appends
<1>4. CASE ParseAuthOk(m) \/ ParseSetCharOffline(m)
  BY <1>2, <1>4 DEF ParseAuthOk, ParseSetCharOffline
<1>5. CASE ParseReqChangeMapServ(m)
  <2>1. p \in FromMapMsg /\ p.aid \in Account /\ p.cid \in Char
    BY <1>5, ReceiveRest, LoginMsg, CharMsg DEF ParseReqChangeMapServ
  <2>2. PICK ok \in BOOLEAN : toMap' = Sent(toMap, m,
            <<[cmd |-> "changeack", aid |-> p.aid, cid |-> p.cid, ok |-> ok]>>)
    <3>1. (Hosts(p.to) /\ Active(p.to)) \in BOOLEAN
      BY DEF Hosts, Active
    <3> QED
      BY <1>5, <3>1 DEF ParseReqChangeMapServ
  <2>3. <<[cmd |-> "changeack", aid |-> p.aid, cid |-> p.cid, ok |-> ok]>> \in Seq(Plain)
    BY <2>1 DEF Plain, ToMapMsg
  <2> QED
    BY <1>1, <2>2, <2>3, SentAppends
<1>6. CASE ParseSetCharOnline(m)
  <2>1. p \in FromMapMsg /\ p.aid \in Account
    BY <1>6, ReceiveRest, SetCharMsg DEF ParseSetCharOnline
  <2> QED
    BY <1>1, <1>6, <2>1, KickElsewhereAppends DEF ParseSetCharOnline
<1>7. CASE ParseSetAllOffline(m)
  <2>1. PICK order \in Orders({a \in Account : Entry(a).server = m}) :
          toMap' = Sent(toMap, m, Kicks(order))
    BY <1>7 DEF ParseSetAllOffline
  <2>2. Kicks(order) \in Seq(Plain)
    BY KicksAppend
  <2> QED
    BY <1>1, <2>1, <2>2, SentAppends
<1> QED
  BY <1>3, <1>4, <1>5, <1>6, <1>7

LEMMA SaveAppends ==
  ASSUME CharInv, NEW m \in MapServer, ParseReqSaveChar(m)
  PROVE  Appends(Plain \cup SaveAcks(m), toMap', toMap)
<1> DEFINE p == Msg(m)
           S == Plain \cup SaveAcks(m)
           ack == [cmd |-> "saveack", aid |-> p.aid, cid |-> p.cid]
<1>1. toMap \in ToMapQueues /\ S \in SUBSET ToMapMsg
  BY DEF CharInv, TypeRest, Plain, SaveAcks
<1>2. p.aid \in Account /\ p.cid \in Char /\ p.cmd = "save"
  BY ReceiveRest, SaveMsgFields DEF ParseReqSaveChar, Receive, Msg
<1>3. ack \in ToMapMsg
  BY <1>2 DEF ToMapMsg
<1>4. CASE p.quit
  <2>1. ack \in S
    BY <1>2, <1>3, <1>4 DEF SaveAcks
  <2>2. toMap' = Sent(toMap, m, <<ack>>)
    BY <1>4 DEF ParseReqSaveChar, Accepted
  <2> HIDE DEF ack, S
  <2>3. <<ack>> \in Seq(S)
    BY <2>1
  <2> QED
    BY <1>1, <2>2, <2>3, SentAppends DEF S
<1>5. CASE ~p.quit
  <2>1. Appends(Plain, KickElsewhere(toMap, m, p.aid), toMap) /\ Appends(Plain, toMap, toMap)
    BY <1>1, <1>2, KickElsewhereAppends, NothingAppended
  <2>2. toMap' \in {toMap, KickElsewhere(toMap, m, p.aid)}
    BY <1>5 DEF ParseReqSaveChar
  <2>3. Appends(Plain, toMap', toMap)
    BY <2>1, <2>2
  <2> QED
    BY <2>3, MoreAppends
<1> QED
  BY <1>4, <1>5

----------------------------------------------------------------------------
(* Logins that were granted: the char server. *)

\* The packets that hand a client over, with a login the login server has granted.
FromGranted == {p \in FromMapMsg : p.cmd \in {"charselect", "changemap"} => p.login \in spent}
ToGranted   == {p \in ToMapMsg : p.cmd = "authok" => p.login \in spent}

NodesGranted ==
  /\ \A f \in Fd : session[f] # NoUser /\ session[f].auth => session[f].login \in spent
  /\ \A a \in Account : auth_db[a] # NoUser => auth_db[a].login \in spent

Granted ==
  /\ NodesGranted
  /\ fromMap \in [MapServer -> Seq(FromGranted)]
  /\ toMap \in [MapServer -> Seq(ToGranted)]
  /\ OnlyGranted

\* What was granted stays granted.
LEMMA GrantedGrows ==
  ASSUME spent \subseteq spent'
  PROVE  FromGranted \subseteq FromGranted' /\ ToGranted \subseteq ToGranted'
BY DEF FromGranted, ToGranted

LEMMA PlainGranted == Plain \subseteq ToGranted'
BY DEF Plain, ToGranted

LEMMA QueueMonotonic ==
  ASSUME NEW S, NEW T, S \subseteq T, NEW q \in [MapServer -> Seq(S)]
  PROVE  q \in [MapServer -> Seq(T)]
<1>1. \A m \in MapServer : q[m] \in Seq(T)
  BY SeqMonotonic
<1> QED
  BY <1>1

LEMMA ReceiveGranted ==
  ASSUME CharInv, Granted, NEW m \in MapServer, NEW cmd, Receive(m, cmd), spent' = spent
  PROVE  /\ Msg(m) \in FromGranted
         /\ fromMap' \in [MapServer -> Seq(FromGranted)]
<1>1. fromMap[m] \in Seq(FromGranted) /\ fromMap[m] # <<>>
  BY DEF Granted, Receive
<1>2. Head(fromMap[m]) \in FromGranted /\ Tail(fromMap[m]) \in Seq(FromGranted)
  BY <1>1
<1> QED
  BY <1>1, <1>2 DEF Granted, Receive, Msg

LEMMA AppendsGranted ==
  ASSUME NEW q \in ToMapQueues, NEW T, NEW r \in [MapServer -> Seq(T)],
         NEW S, S \subseteq T, Appends(S, q, r)
  PROVE  q \in [MapServer -> Seq(T)]
<1>1. ASSUME NEW n \in MapServer PROVE q[n] \in Seq(T)
  <2>1. PICK ms \in Seq(S) : q[n] = r[n] \o ms
    BY DEF Appends
  <2>2. ms \in Seq(T) /\ r[n] \in Seq(T)
    BY SeqMonotonic
  <2> QED
    BY <2>1, <2>2, ConcatProperties
<1> QED
  BY <1>1 DEF ToMapQueues

\* A step that sends plain packets and takes none.
LEMMA PlainKeeps ==
  ASSUME Granted, spent \subseteq spent', NodesGranted',
         UNCHANGED <<fromMap, pc, auth_node>>,
         toMap' \in ToMapQueues, Appends(Plain, toMap', toMap)
  PROVE  Granted'
<1>1. toMap \in [MapServer -> Seq(ToGranted')]
  BY GrantedGrows, QueueMonotonic DEF Granted
<1>2. toMap' \in [MapServer -> Seq(ToGranted')]
  BY <1>1, PlainGranted, AppendsGranted
<1>3. fromMap' \in [MapServer -> Seq(FromGranted')]
  BY GrantedGrows, QueueMonotonic DEF Granted
<1>4. OnlyGranted'
  BY DEF Granted, OnlyGranted
<1> QED
  BY <1>2, <1>3, <1>4 DEF Granted

\* char_auth_ok lets in who has a node, or whose login has just been granted.
LEMMA ConnectsNodes ==
  ASSUME CharInv, NodesGranted, NEW f \in Fd, Connects(f)
  PROVE  NodesGranted' /\ spent' = spent
<1>1. ASSUME NEW l \in Login, ParseReqToConnect(f, l)
      PROVE  NodesGranted' /\ spent' = spent
  <2> DEFINE a == LoginAccount[l]
  <2>1. spent' = spent /\ a \in Account
    BY <1>1 DEF ParseReqToConnect
  <2>2. PICK auth \in BOOLEAN :
          session' = [session EXCEPT ![f] = [login |-> l, auth |-> auth, eof |-> FALSE]]
          /\ (auth => HasNode(a, l))
    BY <1>1 DEF ParseReqToConnect, AuthOk
  <2>3. HasNode(a, l) => l \in spent
    BY <2>1 DEF HasNode, NodesGranted
  <2>4. auth_db' \in {auth_db, [auth_db EXCEPT ![a] = NoUser]}
    BY <1>1 DEF ParseReqToConnect
  <2>5. \A b \in Account : auth_db'[b] # NoUser => auth_db'[b].login \in spent'
    BY <2>1, <2>4 DEF NodesGranted, CharInv, TypeRest
  <2>6. \A g \in Fd : session'[g] # NoUser /\ session'[g].auth => session'[g].login \in spent'
    BY <2>1, <2>2, <2>3 DEF NodesGranted, CharInv, Tables
  <2> QED
    BY <2>1, <2>5, <2>6 DEF NodesGranted
<1>2. CASE ClientHangsUp(f)
  <2>1. session[f] \in Session
    BY <1>2 DEF ClientHangsUp, CharInv, Tables
  <2>2. [session[f] EXCEPT !.eof = TRUE].auth = session[f].auth
        /\ [session[f] EXCEPT !.eof = TRUE].login = session[f].login
    BY <2>1 DEF Session
  <2> QED
    BY <1>2, <2>2 DEF ClientHangsUp, NodesGranted, CharInv, Tables
<1>3. CASE ClientClosed(f)
  BY <1>3 DEF ClientClosed, NodesGranted, CharInv, Tables
<1> QED
  BY <1>1, <1>2, <1>3 DEF Connects

LEMMA SelectsNodes ==
  ASSUME CharInv, NodesGranted, NEW f \in Fd, Selects(f)
  PROVE  NodesGranted' /\ spent' = spent
<1>1. UNCHANGED <<session, spent>>
  BY DEF Selects, ParseCharSelect, ParseSelectAccessibleMap, Selected
<1>2. \/ UNCHANGED auth_db
      \/ \E c \in Char : Authed(f, c) /\ HandOver(f, c)
  BY DEF Selects, ParseCharSelect, ParseSelectAccessibleMap
<1>3. \A a \in Account : auth_db'[a] # NoUser => auth_db'[a].login \in spent
  <2>1. ASSUME NEW c \in Char, Authed(f, c), HandOver(f, c)
        PROVE  \A a \in Account : auth_db'[a] # NoUser => auth_db'[a].login \in spent
    <3>1. session[f].login \in spent
      BY <2>1 DEF Authed, NodesGranted
    <3> QED
      BY <2>1, <3>1 DEF HandOver, NodesGranted, CharInv, TypeRest
  <2> QED
    BY <1>2, <2>1 DEF NodesGranted
<1> QED
  BY <1>1, <1>3 DEF NodesGranted

LEMMA LoginNodes ==
  ASSUME CharInv, NodesGranted, ParseLogin \/ Timers
  PROVE  NodesGranted' /\ spent \subseteq spent'
<1>1. ASSUME NEW f \in Fd, NEW l \in Login, NEW ok \in BOOLEAN, ParseAckAccReq(f, l, ok)
      PROVE  NodesGranted' /\ spent \subseteq spent'
  <2>1. spent' = (IF ok THEN spent \cup {l} ELSE spent) /\ auth_db' = auth_db
    BY <1>1 DEF ParseAckAccReq
  <2>2. \/ UNCHANGED session
        \/ ok /\ \E auth \in BOOLEAN :
             session' = [session EXCEPT ![f] = [login |-> l, auth |-> auth, eof |-> FALSE]]
    BY <1>1 DEF ParseAckAccReq, AuthOk
  <2> QED
    BY <2>1, <2>2 DEF NodesGranted, CharInv, Tables
<1>2. ASSUME NEW a \in Account, ParseAskKick(a) PROVE NodesGranted' /\ spent \subseteq spent'
  <2>1. spent' = spent /\ auth_db' = [auth_db EXCEPT ![a] = NoUser]
    BY <1>2 DEF ParseAskKick
  <2>2. \/ UNCHANGED session
        \/ \E f \in SessionsOf(a) : session' = [session EXCEPT ![f].eof = TRUE]
    BY <1>2 DEF ParseAskKick
  <2>3. ASSUME NEW f \in SessionsOf(a), session' = [session EXCEPT ![f].eof = TRUE]
        PROVE  \A g \in Fd : session'[g] # NoUser /\ session'[g].auth => session'[g].login \in spent
    <3>1. f \in Fd /\ session[f] \in Session
      BY DEF SessionsOf, CharInv, Tables
    <3>2. [session[f] EXCEPT !.eof = TRUE].auth = session[f].auth
          /\ [session[f] EXCEPT !.eof = TRUE].login = session[f].login
      BY <3>1 DEF Session
    <3>3. session[f] # NoUser
      BY <3>1
    <3> QED
      BY <2>3, <3>1, <3>2, <3>3 DEF NodesGranted, CharInv, Tables
  <2>4. \A g \in Fd : session'[g] # NoUser /\ session'[g].auth => session'[g].login \in spent
    BY <2>2, <2>3 DEF NodesGranted
  <2> QED
    BY <2>1, <2>4 DEF NodesGranted, CharInv, TypeRest
<1>3. CASE LoginLinkLost \/ CheckConnectLogServer \/ Timers
  BY <1>3 DEF LoginLinkLost, CheckConnectLogServer, Timers, WaitingDisconnect,
              OnlineDataCleanup, NodesGranted
<1> QED
  BY <1>1, <1>2, <1>3 DEF ParseLogin

\* The auth nodes a map server has made are for logins of players it had.
LEMMA PacketNodes ==
  ASSUME CharInv, Granted, NEW m \in MapServer, ParseMap(m)
  PROVE  /\ NodesGranted' /\ spent' = spent
         /\ fromMap' \in [MapServer -> Seq(FromGranted)]
<1>1. UNCHANGED <<session, spent>>
  BY DEF ParseMap, ParseGetMapName, ParseRegMapUser, ParseReqSaveChar, ParseAuthOk,
         ParseReqChangeMapServ, ParseSetCharOffline, ParseSetCharOnline, ParseReqAuth,
         ParseSetAllOffline, charVars
<1>2. PICK cmd : Receive(m, cmd)
  BY DEF ParseMap, ParseGetMapName, ParseRegMapUser, ParseReqSaveChar, ParseAuthOk,
         ParseReqChangeMapServ, ParseSetCharOffline, ParseSetCharOnline, ParseReqAuth,
         ParseSetAllOffline
<1>3. Msg(m) \in FromGranted /\ fromMap' \in [MapServer -> Seq(FromGranted)]
  BY <1>1, <1>2, ReceiveGranted
<1>4. \A a \in Account : auth_db'[a] # NoUser => auth_db'[a].login \in spent
  <2>1. CASE ParseAuthOk(m)
    <3>1. Msg(m).login \in spent /\ Msg(m).aid \in Account
      BY <1>3, <2>1, ReceiveRest, LoginMsg DEF ParseAuthOk, FromGranted
    <3> QED
      BY <2>1, <3>1 DEF ParseAuthOk, Granted, NodesGranted, CharInv, TypeRest
  <2>2. CASE ParseReqChangeMapServ(m)
    <3>1. Msg(m).login \in spent /\ Msg(m).aid \in Account
      BY <1>3, <2>2, ReceiveRest, LoginMsg DEF ParseReqChangeMapServ, FromGranted
    <3> QED
      BY <2>2, <3>1 DEF ParseReqChangeMapServ, Granted, NodesGranted, CharInv, TypeRest
  <2>3. CASE ParseReqAuth(m)
    <3>1. Msg(m).aid \in Account
      BY <2>3, ReceiveRest, LoginMsg DEF ParseReqAuth
    <3>2. auth_db' \in {auth_db, NodeUsed(Msg(m).aid)}
      BY <2>3 DEF ParseReqAuth
    <3> QED
      BY <3>1, <3>2 DEF NodeUsed, Granted, NodesGranted, CharInv, TypeRest
  <2>4. CASE UNCHANGED auth_db
    BY <2>4 DEF Granted, NodesGranted
  <2> QED
    BY <2>1, <2>2, <2>3, <2>4
    DEF ParseMap, ParseGetMapName, ParseRegMapUser, ParseReqSaveChar,
        ParseSetCharOffline, ParseSetCharOnline, ParseSetAllOffline, charVars
<1> QED
  BY <1>1, <1>3, <1>4 DEF Granted, NodesGranted

\* The maps of a map server, after its ack.
LEMMA MapNameAppends ==
  ASSUME CharInv, NEW m \in MapServer, ParseGetMapName(m)
  PROVE  Appends({p \in ToMapMsg : p.cmd \in {"mapack", "maps"}}, toMap', toMap)
<1> DEFINE S == {p \in ToMapMsg : p.cmd \in {"mapack", "maps"}}
<1>1. PICK order \in Orders(KnownMaps(m)) :
        toMap' = [n \in MapServer |->
            IF n = m
            THEN toMap[n] \o <<[cmd |-> "mapack"]>>
                          \o [i \in DOMAIN order |-> [cmd |-> "maps", of |-> order[i]]]
            ELSE IF Active(n) THEN Append(toMap[n], [cmd |-> "maps", of |-> m]) ELSE toMap[n]]
  BY DEF ParseGetMapName
<1> DEFINE known == [i \in DOMAIN order |-> [cmd |-> "maps", of |-> order[i]]]
<1>2. known \in Seq(S)
  <2>1. KnownMaps(m) \subseteq MapServer /\ IsFiniteSet(KnownMaps(m))
    BY FS_Subset DEF KnownMaps, CharInv, TypeRest
  <2>2. order \in Seq(MapServer) /\ DOMAIN order = 1 .. Len(order)
    BY <2>1, OrdersType
  <2>3. \A i \in DOMAIN order : [cmd |-> "maps", of |-> order[i]] \in S
    BY <2>2 DEF ToMapMsg
  <2> QED
    BY <2>2, <2>3
<1> HIDE DEF known
<1>3. <<[cmd |-> "mapack"]>> \in Seq(S) /\ <<[cmd |-> "maps", of |-> m]>> \in Seq(S)
  BY DEF ToMapMsg
<1>4. <<[cmd |-> "mapack"]>> \o known \in Seq(S)
  BY <1>2, <1>3
<1>5. ASSUME NEW n \in MapServer
      PROVE  /\ toMap[n] \in Seq(ToMapMsg)
             /\ toMap[n] \o <<[cmd |-> "mapack"]>> \o known = toMap[n] \o (<<[cmd |-> "mapack"]>> \o known)
             /\ Append(toMap[n], [cmd |-> "maps", of |-> m]) = toMap[n] \o <<[cmd |-> "maps", of |-> m]>>
             /\ toMap[n] = toMap[n] \o <<>>
  <2>1. toMap[n] \in Seq(ToMapMsg)
    BY DEF CharInv, TypeRest, ToMapQueues
  <2>2. S \subseteq ToMapMsg
    OBVIOUS
  <2>3. <<[cmd |-> "mapack"]>> \in Seq(ToMapMsg) /\ known \in Seq(ToMapMsg)
    BY <1>2, <1>3, <2>2, SeqMonotonic
  <2>4. ASSUME NEW t \in Seq(ToMapMsg), NEW x \in Seq(ToMapMsg), NEW y \in Seq(ToMapMsg)
        PROVE  (t \o x) \o y = t \o (x \o y)
    BY ConcatAssociative, SMTT(60)
  <2>5. toMap[n] \o <<[cmd |-> "mapack"]>> \o known = toMap[n] \o (<<[cmd |-> "mapack"]>> \o known)
    <3> DEFINE ack == <<[cmd |-> "mapack"]>>
    <3>1. ack \in Seq(ToMapMsg)
      BY <2>3
    <3> HIDE DEF ack, S, known
    <3>2. PICK t, x, y \in Seq(ToMapMsg) : t = toMap[n] /\ x = ack /\ y = known
      BY <2>1, <2>3, <3>1
    <3>3. t \in Seq(ToMapMsg) /\ x \in Seq(ToMapMsg) /\ y \in Seq(ToMapMsg)
      BY <3>2
    <3>4. (t \o x) \o y = t \o (x \o y)
      BY <3>3, <2>4, ZenonT(60)
    <3> QED
      BY <3>2, <3>4 DEF ack
  <2>6. Append(toMap[n], [cmd |-> "maps", of |-> m]) = toMap[n] \o <<[cmd |-> "maps", of |-> m]>>
    BY <2>1
  <2>7. toMap[n] = toMap[n] \o <<>>
    BY <2>1
  <2> QED
    BY <2>1, <2>5, <2>6, <2>7
<1> HIDE DEF S
<1>6. ASSUME NEW n \in MapServer PROVE \E ms \in Seq(S) : toMap'[n] = toMap[n] \o ms
  <2>1. toMap'[n] = IF n = m THEN toMap[n] \o <<[cmd |-> "mapack"]>> \o known
                    ELSE IF Active(n) THEN Append(toMap[n], [cmd |-> "maps", of |-> m]) ELSE toMap[n]
    BY <1>1 DEF known
  <2>2. <<>> \in Seq(S)
    OBVIOUS
  <2> QED
    BY <1>3, <1>4, <1>5, <2>1, <2>2
<1> QED
  BY <1>6 DEF Appends, S

\* chmapif_parse_reqauth lets in who shows the login of his node.
LEMMA ReqAuthAppends ==
  ASSUME CharInv, Granted, NEW m \in MapServer, ParseReqAuth(m)
  PROVE  /\ Appends(ToGranted, toMap', toMap)
         /\ Appends(Plain \cup AuthOks(m), toMap', toMap)
<1> DEFINE p == Msg(m)
           S == {x \in ToGranted : x \in Plain \/ x \in AuthOks(m)}
<1>1. /\ p.aid \in Account /\ p.login \in Login /\ p.cid \in Char /\ p.cmd = "reqauth"
      /\ toMap \in ToMapQueues
  BY ReceiveRest, LoginMsg, CharMsg DEF ParseReqAuth, Receive, Msg, CharInv, TypeRest
<1>2. PICK a \in Account, l \in Login, c \in Char : a = p.aid /\ l = p.login /\ c = p.cid
  BY <1>1
<1>3. S \in SUBSET ToMapMsg
  BY DEF ToGranted
<1>4. Appends(S, toMap', toMap)
  <2>1. CASE NodeMatches(p)
    <3> DEFINE ok == <<[cmd |-> "authok", aid |-> a, cid |-> c, login |-> l, rec |-> Loaded(c)]>>
    <3>1. toMap' = KickElsewhere(Sent(toMap, m, ok), m, a)
      BY <1>2, <2>1 DEF ParseReqAuth
    <3>2. auth_db[a] = [char_id |-> c, login |-> l]
      BY <1>2, <2>1 DEF NodeMatches
    <3>3. auth_db[a] # NoUser
      <4>1. [char_id |-> c, login |-> l] \in AuthNode
        BY DEF AuthNode
      <4> QED
        BY <3>2, <4>1
    <3>4. l \in spent
      BY <3>2, <3>3 DEF Granted, NodesGranted
    <3>5. Loaded(c) \in Record
      BY LoadedType DEF CharInv
    <3>6. ok \in Seq(S)
      <4>1. [cmd |-> "authok", aid |-> a, cid |-> c, login |-> l, rec |-> Loaded(c)] \in S
        BY <1>1, <1>2, <3>4, <3>5 DEF ToGranted, ToMapMsg, AuthOks
      <4> HIDE DEF S
      <4> QED
        BY <4>1
    <3>7. Appends(S, Sent(toMap, m, ok), toMap) /\ Sent(toMap, m, ok) \in ToMapQueues
      <4> HIDE DEF ok, S
      <4> QED
        BY <1>1, <1>3, <3>6, SentAppends
    <3>8. Appends(S, KickElsewhere(Sent(toMap, m, ok), m, a), Sent(toMap, m, ok))
      <4>1. <<[cmd |-> "kick", aid |-> a]>> \in Seq(S)
        BY DEF ToGranted, ToMapMsg, Plain
      <4> HIDE DEF ok, S
      <4> QED
        BY <1>3, <3>7, <4>1, NothingAppended, SentAppends DEF KickElsewhere, Kicked
    <3>9. KickElsewhere(Sent(toMap, m, ok), m, a) \in ToMapQueues
      <4> HIDE DEF ok
      <4> QED
        BY <3>7, KickElsewhereType
    <3> HIDE DEF ok, S
    <3> QED
      BY <1>1, <1>3, <3>1, <3>7, <3>8, <3>9, AppendsTwice
  <2>2. CASE ~NodeMatches(p)
    <3>1. toMap' = Sent(toMap, m, <<[cmd |-> "authfail", aid |-> a, cid |-> c, login |-> l]>>)
      BY <1>2, <2>2 DEF ParseReqAuth
    <3>2. <<[cmd |-> "authfail", aid |-> a, cid |-> c, login |-> l]>> \in Seq(S)
      BY DEF ToGranted, ToMapMsg, Plain
    <3> HIDE DEF S
    <3> QED
      BY <1>1, <1>3, <3>1, <3>2, SentAppends
  <2> QED
    BY <2>1, <2>2
<1>5. S \subseteq ToGranted /\ S \subseteq Plain \cup AuthOks(m)
  OBVIOUS
<1> HIDE DEF S
<1> QED
  BY <1>4, <1>5, SeqMonotonic DEF Appends

\* Every step of the char server keeps logins granted.
LEMMA CharGranted ==
  ASSUME CharInv, CharInv', Granted, CharNext, UNCHANGED <<pc, auth_node>>
  PROVE  Granted'
<1>1. toMap' \in ToMapQueues
  BY DEF CharInv, TypeRest
<1>2. ASSUME NEW f \in Fd, Connects(f) \/ Selects(f) PROVE Granted'
  <2>1. fromMap' = fromMap
    BY <1>2 DEF Connects, ParseReqToConnect, ClientHangsUp, ClientClosed, Selects,
                ParseCharSelect, ParseSelectAccessibleMap, Selected, linkVars
  <2>2. NodesGranted' /\ spent' = spent
    BY <1>2, ConnectsNodes, SelectsNodes DEF Granted
  <2> QED
    BY <1>1, <1>2, <2>1, <2>2, ClientAppends, PlainKeeps
<1>3. CASE ParseLogin \/ Timers
  <2>1. fromMap' = fromMap
    BY <1>3 DEF ParseLogin, ParseAckAccReq, ParseAskKick, LoginLinkLost, CheckConnectLogServer,
                Timers, WaitingDisconnect, OnlineDataCleanup, linkVars
  <2>2. NodesGranted' /\ spent \subseteq spent'
    BY <1>3, LoginNodes DEF Granted
  <2> QED
    BY <1>1, <1>3, <2>1, <2>2, LoginAppends, PlainKeeps
<1>4. ASSUME NEW m \in MapServer, ParseMap(m) PROVE Granted'
  <2>1. NodesGranted' /\ spent' = spent /\ fromMap' \in [MapServer -> Seq(FromGranted)]
    BY <1>4, PacketNodes
  <2>2. FromGranted' = FromGranted /\ ToGranted' = ToGranted
    BY <2>1 DEF FromGranted, ToGranted
  <2>3. \E S \in SUBSET ToGranted : Appends(S, toMap', toMap)
    <3>1. CASE ParseGetMapName(m)
      BY <3>1, MapNameAppends DEF ToGranted
    <3>2. CASE ParseReqAuth(m)
      BY <3>2, ReqAuthAppends
    <3>3. Plain \in SUBSET ToGranted /\ Plain \cup SaveAcks(m) \in SUBSET ToGranted
      BY <2>2, PlainGranted DEF SaveAcks, ToGranted
    <3> QED
      BY <1>4, <3>1, <3>2, <3>3, PlainPacketAppends, SaveAppends DEF ParseMap
  <2>4. toMap' \in [MapServer -> Seq(ToGranted)]
    BY <1>1, <2>3, AppendsGranted DEF Granted
  <2>5. OnlyGranted'
    BY <2>1 DEF Granted, OnlyGranted
  <2> QED
    BY <2>1, <2>2, <2>4, <2>5 DEF Granted
<1>5. ASSUME NEW m \in MapServer, MapDisconnected(m) PROVE Granted'
  <2>1. UNCHANGED <<session, auth_db, spent, fromMap>>
    BY <1>5 DEF MapDisconnected
  <2>2. NodesGranted'
    BY <2>1 DEF Granted, NodesGranted
  <2> QED
    BY <1>1, <1>5, <2>1, <2>2, DisconnectAppends, PlainKeeps
<1>6. ASSUME NEW m \in MapServer, ParseMapLogin(m) PROVE Granted'
  <2>1. UNCHANGED <<session, auth_db, spent, fromMap>>
    BY <1>6 DEF ParseMapLogin, charVars
  <2>2. FromGranted' = FromGranted /\ ToGranted' = ToGranted
    BY <2>1 DEF FromGranted, ToGranted
  <2>3. toMap' \in [MapServer -> Seq(ToGranted)]
    <3>1. <<[cmd |-> "connectack"]>> \in Seq(ToGranted)
      BY DEF ToGranted, ToMapMsg
    <3> QED
      BY <1>6, <3>1 DEF ParseMapLogin, Granted
  <2>4. OnlyGranted'
    BY <2>1 DEF Granted, OnlyGranted
  <2> QED
    BY <2>1, <2>2, <2>3, <2>4 DEF Granted, NodesGranted
<1> QED
  BY <1>2, <1>3, <1>4, <1>5, <1>6 DEF CharNext, Links

----------------------------------------------------------------------------
(* The map servers. *)

\* Players and nodes: who is let in has shown a login that was granted, and a node
\* of a player on his way out has his record.
Players == {p \in Player : p.login \in spent} \cup {NoUser}
Nodes ==
  {n \in Node : /\ n.rec # NoUser => n.login \in spent
                /\ n.state # "ST_LOGIN" => n.rec # NoUser} \cup {NoUser}

WorldType ==
  /\ chrif_state \in [MapServer -> 0 .. 2]
  /\ pc \in [MapServer -> [Account -> Players]]
  /\ auth_node \in [MapServer -> [Account -> Nodes]]
  /\ ipport \in [MapServer -> SUBSET MapServer]
  /\ others \in [MapServer -> Int]
  /\ latest \in [Char -> 0 .. MaxVersion]
  /\ broken \in 0 .. Breaks

CharMapInv == CharInv /\ Granted /\ WorldType

LEMMA WorldGranted == WorldType => OnlyGranted
BY DEF WorldType, OnlyGranted, Players, Nodes

LEMMA CharMapInvTypes == CharMapInv => TypeOK /\ OnlyGranted
<1>1. CharInv => TypeLinks /\ TypeChar
  BY CharInvTypes
<1>2. WorldType =>
        /\ pc \in [MapServer -> [Account -> Player \cup {NoUser}]]
        /\ auth_node \in [MapServer -> [Account -> Node \cup {NoUser}]]
  <2>1. Players \subseteq Player \cup {NoUser} /\ Nodes \subseteq Node \cup {NoUser}
    BY DEF Players, Nodes
  <2> QED
    BY <2>1 DEF WorldType
<1> QED
  BY <1>1, <1>2, WorldGranted DEF CharMapInv, TypeOK, WorldType

\* A player or a node of one account is replaced.
LEMMA TablePut ==
  ASSUME NEW T, NEW tab \in [MapServer -> [Account -> T]], NEW m \in MapServer,
         NEW a \in Account, NEW v \in T
  PROVE  [tab EXCEPT ![m][a] = v] \in [MapServer -> [Account -> T]]
OBVIOUS

LEMMA SaveGranted ==
  ASSUME NEW a \in Account, NEW p, p.cid \in Char, p.rec \in Record, NEW q \in BOOLEAN
  PROVE  SaveMsg(a, p, q) \in FromGranted /\ <<SaveMsg(a, p, q)>> \in Seq(FromGranted)
BY DEF SaveMsg, FromGranted, FromMapMsg

LEMMA OfflineGranted ==
  ASSUME NEW a \in Account, NEW c \in Char
  PROVE  <<OfflineMsg(a, c)>> \in Seq(FromGranted)
BY DEF OfflineMsg, FromGranted, FromMapMsg

LEMMA ChangeGranted ==
  ASSUME NEW a \in Account, NEW p, p.cid \in Char, p.rec \in Record,
         p.login \in Login, p.login \in spent
  PROVE  <<ChangeMsg(a, p)>> \in Seq(FromGranted)
<1>1. p.rec.at \in MapServer
  BY DEF Record
<1> QED
  BY <1>1 DEF ChangeMsg, FromGranted, FromMapMsg

\* What map server m has written, if its link is open.
Writes(m) ==
  \/ fromMap' = fromMap
  \/ \E ms \in Seq(FromGranted) : fromMap' = [fromMap EXCEPT ![m] = @ \o ms]
Takes(m) ==
  \/ toMap' = toMap
  \/ char_fd[m] = "open" /\ toMap[m] # <<>> /\ toMap' = [toMap EXCEPT ![m] = Tail(@)]

LEMMA WrittenWrites ==
  ASSUME NEW m \in MapServer, NEW ms \in Seq(FromGranted),
         fromMap' \in {Written(m, ms), IfConnected(m, ms)}
  PROVE  Writes(m)
BY DEF Written, IfConnected, Writes

LEMMA NothingWritten == \A m \in MapServer : fromMap' = fromMap => Writes(m)
BY DEF Writes

LEMMA TakeTakes ==
  ASSUME CharInv, Granted, NEW m \in MapServer, NEW cmd, Take(m, cmd)
  PROVE  /\ Takes(m)
         /\ Head(toMap[m]) \in ToGranted
         /\ Head(toMap[m]).cmd = cmd
<1>1. toMap[m] \in Seq(ToGranted) /\ toMap[m] # <<>>
  BY DEF Granted, Take
<1> QED
  BY <1>1 DEF Take, Takes

\* A step of map server m on its queues, players and nodes.
LEMMA MapKeeps ==
  ASSUME CharMapInv, ByMap, NEW m \in MapServer, Writes(m), Takes(m), UNCHANGED map_fd,
         char_fd' \in [MapServer -> {"none", "open", "eof"}],
         WorldType'
  PROVE  CharMapInv'
<1>1. FromGranted' = FromGranted /\ ToGranted' = ToGranted
  BY DEF ByMap, FromGranted, ToGranted
<1>2. fromMap' \in [MapServer -> Seq(FromGranted)]
  <2>1. CASE fromMap' = fromMap
    BY <2>1 DEF CharMapInv, Granted
  <2>2. ASSUME NEW ms \in Seq(FromGranted), fromMap' = [fromMap EXCEPT ![m] = @ \o ms]
        PROVE  fromMap' \in [MapServer -> Seq(FromGranted)]
    <3>1. fromMap \in [MapServer -> Seq(FromGranted)]
      BY DEF CharMapInv, Granted
    <3>2. fromMap[m] \o ms \in Seq(FromGranted)
      BY <3>1, ConcatProperties
    <3> QED
      BY <2>2, <3>1, <3>2
  <2> QED
    BY <2>1, <2>2 DEF Writes
<1>3. toMap' \in [MapServer -> Seq(ToGranted)]
  <2>1. toMap \in [MapServer -> Seq(ToGranted)]
    BY DEF CharMapInv, Granted
  <2>2. toMap[m] # <<>> => Tail(toMap[m]) \in Seq(ToGranted)
    BY <2>1
  <2> QED
    BY <2>1, <2>2 DEF Takes
<1>4. fromMap' \in [MapServer -> Seq(FromMapMsg)] /\ toMap' \in ToMapQueues
  <2>1. FromGranted \subseteq FromMapMsg /\ ToGranted \subseteq ToMapMsg
    BY DEF FromGranted, ToGranted
  <2> QED
    BY <1>2, <1>3, <2>1, QueueMonotonic DEF ToMapQueues
<1>5. CharInv'
  <2>1. Tables' /\ CacheIsCurrent'
    BY TablesUnchanged DEF CharMapInv, CharInv, ByMap, charVars, CacheIsCurrent
  <2> QED
    BY <1>4, <2>1 DEF CharMapInv, CharInv, TypeRest, ByMap, charVars
<1>6. NodesGranted' /\ OnlyGranted'
  <2>1. WorldType' => OnlyGranted'
    BY WorldGranted, PTL
  <2> QED
    BY <2>1 DEF CharMapInv, Granted, NodesGranted, ByMap, charVars
<1> QED
  BY <1>1, <1>2, <1>3, <1>5, <1>6 DEF CharMapInv, Granted

\* What a step may leave of the players and the nodes of a map server.
LEMMA TablesKeep ==
  ASSUME CharMapInv, ByMap,
         chrif_state' \in [MapServer -> 0 .. 2],
         pc' \in [MapServer -> [Account -> Players]],
         auth_node' \in [MapServer -> [Account -> Nodes]],
         ipport' \in [MapServer -> SUBSET MapServer],
         others' \in [MapServer -> Int],
         latest' \in [Char -> 0 .. MaxVersion]
  PROVE  WorldType'
<1>1. Players' = Players /\ Nodes' = Nodes
  BY DEF ByMap, Players, Nodes
<1> QED
  BY <1>1 DEF ByMap, CharMapInv, WorldType

LEMMA PlayerFields ==
  ASSUME WorldType, NEW m \in MapServer, NEW a \in Account, pc[m][a] # NoUser
  PROVE  /\ pc[m][a] \in Player
         /\ pc[m][a].cid \in Char /\ pc[m][a].rec \in Record
         /\ pc[m][a].login \in Login /\ pc[m][a].login \in spent
BY DEF WorldType, Players, Player

LEMMA NodeFields ==
  ASSUME WorldType, NEW m \in MapServer, NEW a \in Account, auth_node[m][a] # NoUser
  PROVE  /\ auth_node[m][a] \in Node
         /\ auth_node[m][a].cid \in Char /\ auth_node[m][a].login \in Login
         /\ auth_node[m][a].rec # NoUser =>
              auth_node[m][a].rec \in Record /\ auth_node[m][a].login \in spent
         /\ auth_node[m][a].state # "ST_LOGIN" => auth_node[m][a].rec # NoUser
BY DEF WorldType, Nodes, Node

LEMMA NoOneThere == NoUser \in Players /\ NoUser \in Nodes
BY DEF Players, Nodes

LEMMA TableRows ==
  ASSUME WorldType, NEW m \in MapServer, NEW a \in Account
  PROVE  pc[m][a] \in Players /\ auth_node[m][a] \in Nodes
BY DEF WorldType

\* The node of a player who leaves.
LEMMA NodeForLeaving ==
  ASSUME NEW s \in {"ST_LOGOUT", "ST_MAPCHANGE"}, NEW p, p.cid \in Char, p.rec \in Record,
         p.login \in Login, p.login \in spent
  PROVE  NodeFor(s, p) \in Nodes
BY DEF NodeFor, Nodes, Node

\* Players.

LEMMA EnterKeeps ==
  ASSUME CharMapInv, NEW m \in MapServer, NEW c \in Char, NEW l \in Login,
         WantToConnection(m, c, l), ByMap
  PROVE  CharMapInv'
<1> DEFINE a == AccountOf[c]
           n == [state |-> "ST_LOGIN", cid |-> c, login |-> l, rec |-> NoUser]
<1>1. n \in Nodes /\ a \in Account
  BY DEF Nodes, Node
<1>2. <<[cmd |-> "reqauth", aid |-> a, cid |-> c, login |-> l]>> \in Seq(FromGranted)
  BY <1>1 DEF FromGranted, FromMapMsg
<1>3. Writes(m)
  BY <1>2, WrittenWrites DEF WantToConnection
<1>4. WorldType'
  <2>1. auth_node' \in [MapServer -> [Account -> Nodes]]
    <3> HIDE DEF n, a
    <3>1. auth_node' = [auth_node EXCEPT ![m][a] = n]
      BY DEF WantToConnection, n, a
    <3> QED
      BY <1>1, <3>1, TablePut DEF CharMapInv, WorldType
  <2> QED
    BY <2>1, TablesKeep DEF WantToConnection, CharMapInv, WorldType
<1> QED
  BY <1>3, <1>4, MapKeeps DEF WantToConnection, Takes, CharMapInv, CharInv, TypeRest

LEMMA ReceivedKeeps ==
  ASSUME CharMapInv, NEW m \in MapServer, NEW a \in Account, RegReceived(m, a), ByMap
  PROVE  CharMapInv'
<1> DEFINE n == auth_node[m][a]
           p == [cid |-> n.cid, login |-> n.login, rec |-> n.rec, conn |-> "open"]
<1>1. p \in Players
  BY NodeFields DEF RegReceived, NodeIs, CharMapInv, Players, Player
<1>2. WorldType'
  <2>1. pc' = [pc EXCEPT ![m][a] = p] /\ auth_node' = [auth_node EXCEPT ![m][a] = NoUser]
    BY DEF RegReceived
  <2> HIDE DEF p
  <2>2. /\ pc' \in [MapServer -> [Account -> Players]]
        /\ auth_node' \in [MapServer -> [Account -> Nodes]]
    BY <1>1, <2>1, TablePut, NoOneThere DEF CharMapInv, WorldType
  <2> QED
    BY <2>2, TablesKeep DEF RegReceived, CharMapInv, WorldType
<1> QED
  BY <1>2, MapKeeps DEF RegReceived, Writes, Takes, CharMapInv, CharInv, TypeRest, linkVars

LEMMA PlayKeeps ==
  ASSUME CharMapInv, NEW m \in MapServer, NEW a \in Account, Play(m, a), ByMap
  PROVE  CharMapInv'
<1> DEFINE p == [pc[m][a] EXCEPT !.rec.ver = @ + 1]
<1>1. /\ pc[m][a] \in Player /\ pc[m][a].rec \in Record
      /\ pc[m][a].rec.ver \in 0 .. MaxVersion - 1
      /\ pc[m][a].cid \in Char /\ pc[m][a].login \in spent
  BY PlayerFields DEF Play, CharMapInv, Record
<1>2. p \in Players
  BY <1>1 DEF Players, Player, Record
<1>3. WorldType'
  <2>1. pc' = [pc EXCEPT ![m][a] = p]
    BY DEF Play
  <2> HIDE DEF p
  <2>2. pc' \in [MapServer -> [Account -> Players]]
    BY <1>2, <2>1, TablePut DEF CharMapInv, WorldType
  <2>3. latest' \in [Char -> 0 .. MaxVersion]
    BY <1>1 DEF Play, CharMapInv, WorldType
  <2> QED
    BY <2>2, <2>3, TablesKeep DEF Play, CharMapInv, WorldType
<1> QED
  BY <1>3, MapKeeps DEF Play, Writes, Takes, CharMapInv, CharInv, TypeRest, linkVars

\* chrif_save and chrif_charselectreq leave the players and nodes alone.
LEMMA AskKeeps ==
  ASSUME CharMapInv, NEW m \in MapServer, NEW a \in Account,
         Autosave(m, a) \/ CharSelectReq(m, a), ByMap
  PROVE  CharMapInv'
<1>1. Writes(m)
  <2>1. CASE Autosave(m, a)
    <3>1. <<SaveMsg(a, pc[m][a], FALSE)>> \in Seq(FromGranted)
      BY <2>1, PlayerFields, SaveGranted DEF Autosave, CharMapInv
    <3> QED
      BY <2>1, <3>1, WrittenWrites DEF Autosave
  <2>2. CASE CharSelectReq(m, a)
    <3>1. pc[m][a].login \in Login /\ pc[m][a].login \in spent
      BY <2>2, PlayerFields DEF CharSelectReq, CharMapInv
    <3>2. <<[cmd |-> "charselect", aid |-> a, login |-> pc[m][a].login]>> \in Seq(FromGranted)
      BY <3>1 DEF FromGranted, FromMapMsg
    <3> QED
      BY <2>2, <3>2, WrittenWrites DEF CharSelectReq
  <2> QED
    BY <2>1, <2>2
<1>2. UNCHANGED <<mapVars, map_fd, char_fd, toMap>>
  BY DEF Autosave, CharSelectReq
<1>3. WorldType'
  BY <1>2, TablesKeep DEF mapVars, CharMapInv, WorldType
<1> QED
  BY <1>1, <1>2, <1>3, MapKeeps DEF Takes, CharMapInv, CharInv, TypeRest

LEMMA QuitKeeps ==
  ASSUME CharMapInv, NEW m \in MapServer, NEW a \in Account, pc[m][a] # NoUser,
         MapQuit(m, a), ByMap
  PROVE  CharMapInv'
<1>1. /\ pc[m][a].cid \in Char /\ pc[m][a].rec \in Record
      /\ pc[m][a].login \in Login /\ pc[m][a].login \in spent
  BY PlayerFields DEF CharMapInv
<1>2. <<SaveMsg(a, pc[m][a], TRUE)>> \in Seq(FromGranted) /\ QuitNode(m, a) \in Nodes
  BY <1>1, SaveGranted, NodeForLeaving DEF QuitNode
<1>3. Writes(m)
  BY <1>2, WrittenWrites DEF MapQuit
<1>4. WorldType'
  <2>1. /\ pc' \in [MapServer -> [Account -> Players]]
        /\ auth_node' \in [MapServer -> [Account -> Nodes]]
    BY <1>2, TablePut, NoOneThere DEF MapQuit, CharMapInv, WorldType
  <2> QED
    BY <2>1, TablesKeep DEF MapQuit, CharMapInv, WorldType
<1> QED
  BY <1>3, <1>4, MapKeeps DEF MapQuit, Takes, CharMapInv, CharInv, TypeRest

LEMMA GoneKeeps ==
  ASSUME CharMapInv, NEW m \in MapServer, NEW a \in Account,
         ClientGone(m, a) \/ DelayQuit(m, a), ByMap
  PROVE  CharMapInv'
<1>1. CASE pc[m][a] # NoUser /\ MapQuit(m, a)
  BY <1>1, QuitKeeps
<1>2. CASE pc[m][a] # NoUser /\ pc' = [pc EXCEPT ![m][a].conn = "none"]
           /\ UNCHANGED <<chrif_state, auth_node, ipport, others, latest, linkVars>>
  <2> DEFINE p == [pc[m][a] EXCEPT !.conn = "none"]
  <2>1. p \in Players
    BY <1>2, PlayerFields DEF CharMapInv, Players, Player
  <2>2. pc' = [pc EXCEPT ![m][a] = p]
    BY <1>2
  <2> HIDE DEF p
  <2>3. WorldType'
    <3>1. pc' \in [MapServer -> [Account -> Players]]
      BY <2>1, <2>2, TablePut DEF CharMapInv, WorldType
    <3> QED
      BY <1>2, <3>1, TablesKeep DEF CharMapInv, WorldType
  <2> QED
    BY <1>2, <2>3, MapKeeps DEF Writes, Takes, CharMapInv, CharInv, TypeRest, linkVars
<1>3. CASE auth_node' = [auth_node EXCEPT ![m][a] = NoUser]
           /\ UNCHANGED <<chrif_state, pc, ipport, others, latest, linkVars>>
  <2>1. WorldType'
    BY <1>3, NoOneThere, TablePut, TablesKeep DEF CharMapInv, WorldType
  <2> QED
    BY <1>3, <2>1, MapKeeps DEF Writes, Takes, CharMapInv, CharInv, TypeRest, linkVars
<1> QED
  BY <1>1, <1>2, <1>3 DEF ClientGone, DelayQuit

LEMMA SetPosKeeps ==
  ASSUME CharMapInv, NEW m \in MapServer, NEW a \in Account, NEW to \in MapServer,
         SetPos(m, a, to), ByMap
  PROVE  CharMapInv'
<1> DEFINE p == [pc[m][a] EXCEPT !.rec.at = to]
           ms == <<SaveMsg(a, p, FALSE)>> \o (IF others[m] < 1 THEN <<>> ELSE <<ChangeMsg(a, p)>>)
<1>1. /\ pc[m][a] \in Player /\ pc[m][a].cid \in Char /\ pc[m][a].rec \in Record
      /\ pc[m][a].login \in Login /\ pc[m][a].login \in spent
  BY PlayerFields DEF SetPos, CharMapInv
<1>2. p.cid \in Char /\ p.rec \in Record /\ p.login \in Login /\ p.login \in spent
  BY <1>1 DEF Player, Record
<1>3. /\ auth_node' = [auth_node EXCEPT ![m][a] = NodeFor("ST_MAPCHANGE", p)]
      /\ fromMap' = IfConnected(m, ms)
  BY DEF SetPos
<1> HIDE DEF p
<1>4. ms \in Seq(FromGranted)
  <2>1. <<SaveMsg(a, p, FALSE)>> \in Seq(FromGranted) /\ <<ChangeMsg(a, p)>> \in Seq(FromGranted)
    BY <1>2, SaveGranted, ChangeGranted
  <2>2. <<>> \in Seq(FromGranted)
    OBVIOUS
  <2> DEFINE s == <<SaveMsg(a, p, FALSE)>>
             c == <<ChangeMsg(a, p)>>
  <2> HIDE DEF s, c
  <2>3. s \o <<>> \in Seq(FromGranted) /\ s \o c \in Seq(FromGranted)
    BY <2>1, <2>2, ConcatProperties DEF s, c
  <2> QED
    BY <2>3 DEF s, c
<1> HIDE DEF ms
<1>5. Writes(m)
  BY <1>3, <1>4, WrittenWrites
<1>6. NodeFor("ST_MAPCHANGE", p) \in Nodes
  BY <1>2, NodeForLeaving
<1>7. WorldType'
  <2>1. /\ pc' \in [MapServer -> [Account -> Players]]
        /\ auth_node' \in [MapServer -> [Account -> Nodes]]
    BY <1>3, <1>6, TablePut, NoOneThere DEF SetPos, CharMapInv, WorldType
  <2> QED
    BY <2>1, TablesKeep DEF SetPos, CharMapInv, WorldType
<1> QED
  BY <1>5, <1>7, MapKeeps DEF SetPos, Takes, CharMapInv, CharInv, TypeRest

LEMMA CleanupKeeps ==
  ASSUME CharMapInv, NEW m \in MapServer, NEW a \in Account, AuthDbCleanup(m, a), ByMap
  PROVE  CharMapInv'
<1> DEFINE n == auth_node[m][a]
<1>1. n.cid \in Char /\ (n.state = "ST_LOGOUT" => n.rec \in Record)
  BY NodeFields DEF AuthDbCleanup, CharMapInv
<1>2. Writes(m)
  <2>1. CASE n.state = "ST_LOGOUT"
    <3>1. <<SaveMsg(a, n, TRUE)>> \in Seq(FromGranted)
      BY <1>1, <2>1, SaveGranted
    <3> QED
      BY <2>1, <3>1, WrittenWrites DEF AuthDbCleanup
  <2>2. CASE n.state # "ST_LOGOUT"
    <3>1. <<OfflineMsg(a, n.cid)>> \in Seq(FromGranted)
      BY <1>1, OfflineGranted
    <3> QED
      BY <2>2, <3>1, WrittenWrites DEF AuthDbCleanup
  <2> QED
    BY <2>1, <2>2
<1>3. WorldType'
  <2>1. auth_node' \in {auth_node, [auth_node EXCEPT ![m][a] = NoUser]}
    BY DEF AuthDbCleanup
  <2>2. auth_node' \in [MapServer -> [Account -> Nodes]]
    <3>1. [auth_node EXCEPT ![m][a] = NoUser] \in [MapServer -> [Account -> Nodes]]
      BY TablePut, NoOneThere DEF CharMapInv, WorldType
    <3> QED
      BY <2>1, <3>1 DEF CharMapInv, WorldType
  <2> QED
    BY <2>2, TablesKeep DEF AuthDbCleanup, CharMapInv, WorldType
<1> QED
  BY <1>2, <1>3, MapKeeps DEF AuthDbCleanup, Takes, CharMapInv, CharInv, TypeRest

\* Packets of the char server.

\* A handler that writes nothing and changes at most the node of the account it is about.
LEMMA HandlerKeeps ==
  ASSUME CharMapInv, NEW m \in MapServer, ByMap, Takes(m), Writes(m),
         NEW a \in Account, NEW n \in Nodes,
         auth_node' \in {auth_node, [auth_node EXCEPT ![m][a] = n]},
         UNCHANGED <<chrif_state, pc, ipport, others, latest, map_fd, char_fd>>
  PROVE  CharMapInv'
<1>1. auth_node' \in [MapServer -> [Account -> Nodes]]
  <2>1. [auth_node EXCEPT ![m][a] = n] \in [MapServer -> [Account -> Nodes]]
    BY TablePut DEF CharMapInv, WorldType
  <2> QED
    BY <2>1 DEF CharMapInv, WorldType
<1>2. WorldType'
  BY <1>1, TablesKeep DEF CharMapInv, WorldType
<1> QED
  BY <1>2, MapKeeps DEF CharMapInv, CharInv, TypeRest

LEMMA ConnectAckKeeps ==
  ASSUME CharMapInv, NEW m \in MapServer, ConnectAck(m), ByMap
  PROVE  CharMapInv'
<1>1. Takes(m)
  BY TakeTakes DEF ConnectAck, CharMapInv
<1>2. <<[cmd |-> "sendmap"]>> \in Seq(FromGranted)
  BY DEF FromGranted, FromMapMsg
<1>3. Writes(m)
  BY <1>2, WrittenWrites DEF ConnectAck
<1>4. WorldType'
  BY TablesKeep DEF ConnectAck, CharMapInv, WorldType
<1> QED
  BY <1>1, <1>3, <1>4, MapKeeps DEF ConnectAck, CharMapInv, CharInv, TypeRest

LEMMA ResentGranted ==
  ASSUME CharMapInv, NEW m \in MapServer, NEW a \in Account, auth_node[m][a] # NoUser,
         Resent(m, a) # <<>>
  PROVE  Resent(m, a)[1] \in FromGranted
<1> DEFINE n == auth_node[m][a]
<1>1. /\ n.cid \in Char /\ n.login \in Login
      /\ n.rec # NoUser => n.rec \in Record /\ n.login \in spent
      /\ n.state # "ST_LOGIN" => n.rec # NoUser
      /\ n.state \in {"ST_LOGIN", "ST_LOGOUT", "ST_MAPCHANGE"}
  BY NodeFields DEF CharMapInv, Node
<1>2. CASE n.state = "ST_LOGIN"
  <2>1. <<OfflineMsg(a, n.cid)>> \in Seq(FromGranted)
    BY <1>1, OfflineGranted
  <2> QED
    BY <1>2, <2>1 DEF Resent
<1>3. CASE n.state = "ST_LOGOUT"
  <2>1. PICK x \in FromGranted : x = SaveMsg(a, n, TRUE)
    BY <1>1, <1>3, SaveGranted
  <2>2. Resent(m, a) = <<x>>
    BY <1>3, <2>1 DEF Resent
  <2> QED
    BY <2>2
<1>4. CASE n.state = "ST_MAPCHANGE"
  <2>1. <<ChangeMsg(a, n)>> \in Seq(FromGranted)
    BY <1>1, <1>4, ChangeGranted
  <2> QED
    BY <1>4, <2>1 DEF Resent
<1> QED
  BY <1>1, <1>2, <1>3, <1>4

LEMMA SendMapAckKeeps ==
  ASSUME CharMapInv, NEW m \in MapServer, SendMapAck(m), ByMap
  PROVE  CharMapInv'
<1> DEFINE users  == [a \in Account |-> IF pc[m][a] = NoUser THEN NoUser ELSE pc[m][a].cid]
           resend == {a \in Account : auth_node[m][a] # NoUser /\ Resent(m, a) # <<>>}
           first  == <<[cmd |-> "regmapuser", users |-> users]>>
<1>1. Takes(m)
  BY TakeTakes DEF SendMapAck, CharMapInv
<1>2. first \in Seq(FromGranted)
  <2>1. users \in [Account -> Char \cup {NoUser}]
    BY PlayerFields DEF CharMapInv
  <2> HIDE DEF users
  <2> QED
    BY <2>1 DEF FromGranted, FromMapMsg
<1>3. Writes(m)
  <2>1. PICK order \in Orders(resend) :
          fromMap' = Written(m, first \o [i \in DOMAIN order |-> Resent(m, order[i])[1]])
    BY DEF SendMapAck
  <2>2. order \in Seq(resend) /\ DOMAIN order = 1 .. Len(order)
    <3>1. IsFiniteSet(resend)
      BY FS_Subset
    <3> QED
      BY <3>1, OrdersType
  <2> DEFINE rest == [i \in DOMAIN order |-> Resent(m, order[i])[1]]
  <2>3. \A i \in DOMAIN order : Resent(m, order[i])[1] \in FromGranted
    BY <2>2, ResentGranted
  <2>4. rest \in Seq(FromGranted)
    BY <2>2, <2>3
  <2> HIDE DEF rest, first
  <2>5. first \o rest \in Seq(FromGranted)
    BY <1>2, <2>4, ConcatProperties
  <2>6. fromMap' = Written(m, first \o rest)
    BY <2>1 DEF rest
  <2> QED
    BY <2>5, <2>6, WrittenWrites
<1>4. WorldType'
  <2>1. auth_node' \in [MapServer -> [Account -> Nodes]]
    <3> DEFINE row == [a \in Account |-> IF NodeIs(m, a, "ST_LOGIN") THEN NoUser ELSE auth_node[m][a]]
    <3>1. row \in [Account -> Nodes]
      BY NoOneThere DEF CharMapInv, WorldType
    <3>2. auth_node' = [auth_node EXCEPT ![m] = row]
      BY DEF SendMapAck, CharMapInv, WorldType
    <3> HIDE DEF row
    <3> QED
      BY <3>1, <3>2 DEF CharMapInv, WorldType
  <2>2. chrif_state' = [chrif_state EXCEPT ![m] = 2] /\ UNCHANGED <<pc, ipport, others, latest>>
    BY DEF SendMapAck
  <2> QED
    BY <2>1, <2>2, TablesKeep DEF CharMapInv, WorldType
<1> QED
  BY <1>1, <1>3, <1>4, MapKeeps DEF SendMapAck, CharMapInv, CharInv, TypeRest

\* chrif_authok: the login of the packet was granted, and the node takes the record
\* only if it is for that login.
LEMMA AuthOkTakenKeeps ==
  ASSUME CharMapInv, NEW m \in MapServer, AuthOkTaken(m), ByMap
  PROVE  CharMapInv'
<1>1. /\ Takes(m)
      /\ Head(toMap[m]) \in ToGranted
      /\ Head(toMap[m]).cmd = "authok"
  BY TakeTakes DEF AuthOkTaken, CharMapInv
<1>2. PICK p \in ToGranted : p = Head(toMap[m]) /\ p.cmd = "authok"
  BY <1>1
<1>3. /\ p.aid \in Account /\ p.login \in Login /\ p.login \in spent
      /\ p.rec \in Record
  BY <1>2 DEF ToGranted, ToMapMsg
<1> DEFINE a == p.aid
           old == auth_node[m][a]
           loaded == [old EXCEPT !.rec = [p.rec EXCEPT !.at = m]]
           left == IF old.cid = p.cid THEN NoUser ELSE old
<1>4. UNCHANGED <<chrif_state, pc, ipport, others, latest, map_fd, char_fd>>
  BY DEF AuthOkTaken
<1>5. CASE /\ pc[m][a] = NoUser /\ NodeIs(m, a, "ST_LOGIN")
           /\ old.cid = p.cid /\ old.login = p.login /\ m \in {p.rec.at, DefaultMapAt}
  <2>1. loaded \in Nodes
    BY <1>3, <1>5, NodeFields DEF NodeIs, CharMapInv, Nodes, Node, Record
  <2>2. auth_node' = [auth_node EXCEPT ![m][a] = loaded] /\ fromMap' = fromMap
    BY <1>2, <1>5 DEF AuthOkTaken
  <2> HIDE DEF loaded
  <2> QED
    BY <1>1, <1>3, <1>4, <2>1, <2>2, HandlerKeeps DEF Writes
<1>6. CASE /\ pc[m][a] = NoUser /\ NodeIs(m, a, "ST_LOGIN")
           /\ ~(old.cid = p.cid /\ old.login = p.login /\ m \in {p.rec.at, DefaultMapAt})
  <2>1. left \in Nodes
    BY <1>3, NoOneThere, TableRows DEF CharMapInv
  <2>2. auth_node' = [auth_node EXCEPT ![m][a] = left] /\ fromMap' = IfConnected(m, <<OfflineMsg(a, old.cid)>>)
    BY <1>2, <1>6 DEF AuthOkTaken
  <2>3. <<OfflineMsg(a, old.cid)>> \in Seq(FromGranted)
    BY <1>3, <1>6, NodeFields, OfflineGranted DEF NodeIs, CharMapInv
  <2>4. Writes(m)
    BY <2>2, <2>3, WrittenWrites
  <2> HIDE DEF left
  <2> QED
    BY <1>1, <1>3, <1>4, <2>1, <2>2, <2>4, HandlerKeeps
<1>7. CASE ~(pc[m][a] = NoUser /\ NodeIs(m, a, "ST_LOGIN"))
  <2>1. auth_node' = auth_node /\ fromMap' = fromMap
    BY <1>2, <1>7 DEF AuthOkTaken
  <2> QED
    BY <1>1, <1>3, <1>4, <2>1, NoOneThere, HandlerKeeps DEF Writes
<1> QED
  BY <1>5, <1>6, <1>7

\* chrif_authfail and chrif_save_ack: the node is kept or freed.
LEMMA FreedKeeps ==
  ASSUME CharMapInv, NEW m \in MapServer, AuthFail(m) \/ SaveAck(m), ByMap
  PROVE  CharMapInv'
<1>1. PICK cmd \in {"authfail", "saveack"} : Take(m, cmd)
  BY DEF AuthFail, SaveAck
<1>2. Takes(m) /\ Head(toMap[m]) \in ToGranted /\ Head(toMap[m]).cmd = cmd
  BY <1>1, TakeTakes DEF CharMapInv
<1>3. PICK a \in Account : a = Head(toMap[m]).aid
  BY <1>2 DEF ToGranted, ToMapMsg
<1>4. auth_node' \in {[auth_node EXCEPT ![m][a] = NoUser], [auth_node EXCEPT ![m][a] = auth_node[m][a]]}
  BY <1>3 DEF AuthFail, SaveAck
<1>5. \E n \in Nodes : auth_node' = [auth_node EXCEPT ![m][a] = n]
  BY <1>4, NoOneThere DEF CharMapInv, WorldType
<1> QED
  BY <1>2, <1>5, HandlerKeeps DEF AuthFail, SaveAck, Writes

LEMMA KickKeeps ==
  ASSUME CharMapInv, NEW m \in MapServer, DisconnectPlayer(m), ByMap
  PROVE  CharMapInv'
<1>1. Takes(m) /\ Head(toMap[m]) \in ToGranted /\ Head(toMap[m]).cmd = "kick"
  BY TakeTakes DEF DisconnectPlayer, CharMapInv
<1>2. PICK a \in Account : a = Head(toMap[m]).aid
  BY <1>1 DEF ToGranted, ToMapMsg
<1> DEFINE p == IF pc[m][a] # NoUser /\ pc[m][a].conn = "open"
                THEN [pc[m][a] EXCEPT !.conn = "eof"] ELSE pc[m][a]
           n == IF pc[m][a] = NoUser /\ NodeIs(m, a, "ST_LOGIN") THEN NoUser ELSE auth_node[m][a]
<1>3. p \in Players /\ n \in Nodes
  <2>1. CASE pc[m][a] # NoUser /\ pc[m][a].conn = "open"
    <3>1. [pc[m][a] EXCEPT !.conn = "eof"] \in Players
      BY <2>1, PlayerFields DEF CharMapInv, Players, Player
    <3> QED
      BY <2>1, <3>1, NoOneThere, TableRows DEF CharMapInv
  <2>2. CASE ~(pc[m][a] # NoUser /\ pc[m][a].conn = "open")
    BY <2>2, NoOneThere, TableRows DEF CharMapInv
  <2> QED
    BY <2>1, <2>2
<1>4. pc' = [pc EXCEPT ![m][a] = p] /\ auth_node' = [auth_node EXCEPT ![m][a] = n]
  BY <1>2 DEF DisconnectPlayer, CharMapInv, WorldType
<1> HIDE DEF p, n
<1>5. /\ pc' \in [MapServer -> [Account -> Players]]
      /\ auth_node' \in [MapServer -> [Account -> Nodes]]
  BY <1>3, <1>4, TablePut DEF CharMapInv, WorldType
<1>6. WorldType'
  BY <1>5, TablesKeep DEF DisconnectPlayer, CharMapInv, WorldType
<1> QED
  BY <1>1, <1>6, MapKeeps DEF DisconnectPlayer, Writes, CharMapInv, CharInv, TypeRest

LEMMA ChangeAckKeeps ==
  ASSUME CharMapInv, NEW m \in MapServer, ChangeMapServerAck(m), ByMap
  PROVE  CharMapInv'
<1>1. Takes(m) /\ Head(toMap[m]) \in ToGranted /\ Head(toMap[m]).cmd = "changeack"
  BY TakeTakes DEF ChangeMapServerAck, CharMapInv
<1>2. PICK a \in Account, c \in Char : a = Head(toMap[m]).aid /\ c = Head(toMap[m]).cid
  BY <1>1 DEF ToGranted, ToMapMsg
<1>3. auth_node' \in {auth_node, [auth_node EXCEPT ![m][a] = NoUser]}
  BY <1>2 DEF ChangeMapServerAck
<1>4. fromMap' = fromMap \/ fromMap' = IfConnected(m, <<OfflineMsg(a, c)>>)
  BY <1>2 DEF ChangeMapServerAck
<1>5. Writes(m)
  BY <1>4, OfflineGranted, WrittenWrites, NothingWritten
<1> QED
  BY <1>1, <1>3, <1>5, NoOneThere, HandlerKeeps DEF ChangeMapServerAck

\* chrif_recvmap and chrif_removemap
LEMMA MapsKeep ==
  ASSUME CharMapInv, NEW m \in MapServer, RecvMap(m) \/ RemoveMap(m), ByMap
  PROVE  CharMapInv'
<1>1. PICK cmd \in {"maps", "removemap"} : Take(m, cmd)
  BY DEF RecvMap, RemoveMap
<1>2. Takes(m) /\ Head(toMap[m]) \in ToGranted /\ Head(toMap[m]).cmd = cmd
  BY <1>1, TakeTakes DEF CharMapInv
<1>3. Head(toMap[m]).of \in MapServer
  BY <1>2 DEF ToGranted, ToMapMsg
<1>4. ipport' \in [MapServer -> SUBSET MapServer] /\ others' \in [MapServer -> Int]
  BY <1>3 DEF RecvMap, RemoveMap, CharMapInv, WorldType
<1>5. WorldType'
  BY <1>4, TablesKeep DEF RecvMap, RemoveMap, CharMapInv, WorldType
<1> QED
  BY <1>2, <1>5, MapKeeps DEF RecvMap, RemoveMap, Writes, CharMapInv, CharInv, TypeRest

LEMMA NoticeKeeps ==
  ASSUME CharMapInv, NEW m \in MapServer, OnDisconnect(m), ByMap
  PROVE  CharMapInv'
<1>1. WorldType'
  BY TablesKeep DEF OnDisconnect, CharMapInv, WorldType
<1>2. char_fd' \in [MapServer -> {"none", "open", "eof"}]
  BY DEF OnDisconnect, CharMapInv, CharInv, TypeRest
<1> QED
  BY <1>1, <1>2, MapKeeps DEF OnDisconnect, Writes, Takes, CharMapInv

LEMMA MapStepKeeps == CharMapInv /\ MapStep => CharMapInv'
<1>1. \A m \in MapServer : ChrifParse(m) /\ ByMap /\ CharMapInv => CharMapInv'
  BY ConnectAckKeeps, SendMapAckKeeps, AuthOkTakenKeeps, FreedKeeps, KickKeeps, ChangeAckKeeps,
     MapsKeep DEF ChrifParse
<1> QED
  BY <1>1, EnterKeeps, ReceivedKeeps, PlayKeeps, AskKeeps, GoneKeeps, SetPosKeeps, CleanupKeeps
  DEF MapStep

----------------------------------------------------------------------------
(* The servers and their links together. *)

LEMMA WorldUnchanged ==
  ASSUME WorldType, UNCHANGED mapVars, broken' \in 0 .. Breaks, spent \subseteq spent'
  PROVE  WorldType'
<1>1. Players \subseteq Players' /\ Nodes \subseteq Nodes'
  BY DEF Players, Nodes
<1>2. /\ pc \in [MapServer -> [Account -> Players']]
      /\ auth_node \in [MapServer -> [Account -> Nodes']]
  BY <1>1 DEF WorldType
<1> QED
  BY <1>2 DEF WorldType, mapVars

LEMMA SpentGrows == CharNext => spent \subseteq spent'
<1>1. ASSUME NEW f \in Fd, Connects(f) \/ Selects(f) PROVE spent' = spent
  BY <1>1 DEF Connects, ParseReqToConnect, ClientHangsUp, ClientClosed, Selects,
              ParseCharSelect, ParseSelectAccessibleMap, Selected
<1>2. ParseLogin => spent \subseteq spent'
  BY DEF ParseLogin, ParseAckAccReq, ParseAskKick, LoginLinkLost, CheckConnectLogServer
<1>3. Timers \/ Links => spent' = spent
  BY DEF Timers, WaitingDisconnect, OnlineDataCleanup, Links, ParseMapLogin, MapDisconnected
<1>4. ASSUME NEW m \in MapServer, ParseMap(m) PROVE spent' = spent
  BY <1>4 DEF ParseMap, ParseGetMapName, ParseRegMapUser, ParseReqSaveChar, ParseAuthOk,
              ParseReqChangeMapServ, ParseSetCharOffline, ParseSetCharOnline, ParseReqAuth,
              ParseSetAllOffline
<1> QED
  BY <1>1, <1>2, <1>3, <1>4 DEF CharNext

\* Whatever the char server does, and whatever clock makes it wait.
LEMMA CharStepKeeps ==
  ASSUME CharMapInv, CharNext, ByChar
  PROVE  CharMapInv'
<1>1. CharInv'
  BY CharNextInv DEF CharMapInv
<1>2. Granted'
  BY <1>1, CharGranted DEF CharMapInv, ByChar, mapVars
<1>3. WorldType'
  BY SpentGrows, WorldUnchanged DEF CharMapInv, ByChar, WorldType
<1> QED
  BY <1>1, <1>2, <1>3 DEF CharMapInv

LEMMA CharStepIsCharNext == CharStep => CharNext /\ ByChar
BY DEF CharStep, CharNext, Timers

LEMMA EmptyQueues ==
  ASSUME NEW S, NEW q \in [MapServer -> Seq(S)], NEW r, NEW M \in SUBSET MapServer,
         r = [m \in MapServer |-> IF m \in M THEN <<>> ELSE q[m]]
  PROVE  r \in [MapServer -> Seq(S)]
<1>1. <<>> \in Seq(S)
  OBVIOUS
<1> QED
  BY <1>1

LEMMA ConnectKeeps ==
  ASSUME CharMapInv, NEW m \in MapServer, Connect(m)
  PROVE  CharMapInv'
<1>1. CharNext /\ UNCHANGED <<pc, auth_node, ipport, others, latest, broken, spent>>
  BY DEF Connect, CharNext, Links, ParseMapLogin
<1>2. CharInv'
  BY <1>1, CharNextInv DEF CharMapInv
<1>3. Granted'
  BY <1>1, <1>2, CharGranted DEF CharMapInv
<1>4. WorldType'
  <2>1. chrif_state' \in [MapServer -> 0 .. 2]
    BY DEF Connect, Reconnecting, CharMapInv, WorldType
  <2>2. Players' = Players /\ Nodes' = Nodes
    BY <1>1 DEF Players, Nodes
  <2> QED
    BY <1>1, <2>1, <2>2 DEF CharMapInv, WorldType
<1> QED
  BY <1>2, <1>3, <1>4 DEF CharMapInv

LEMMA BreakKeeps ==
  ASSUME CharMapInv, NEW m \in MapServer, LinkBreaks(m)
  PROVE  CharMapInv'
<1>1. UNCHANGED <<charVars, sql, restarts, spent, mapVars>>
  BY DEF LinkBreaks
<1>2. FromGranted' = FromGranted /\ ToGranted' = ToGranted
  BY <1>1 DEF FromGranted, ToGranted
<1>3. /\ fromMap' = [n \in MapServer |-> IF n \in {m} THEN <<>> ELSE fromMap[n]]
      /\ toMap' = [n \in MapServer |-> IF n \in {m} THEN <<>> ELSE toMap[n]]
  BY DEF LinkBreaks, Break, CharMapInv, CharInv, TypeRest, ToMapQueues
<1>4. /\ fromMap' \in [MapServer -> Seq(FromGranted)]
      /\ toMap' \in [MapServer -> Seq(ToGranted)]
      /\ fromMap' \in [MapServer -> Seq(FromMapMsg)]
      /\ toMap' \in [MapServer -> Seq(ToMapMsg)]
  BY <1>3, EmptyQueues DEF CharMapInv, Granted, CharInv, TypeRest, ToMapQueues
<1>5. CharInv'
  <2>1. Tables' /\ CacheIsCurrent'
    BY <1>1, TablesUnchanged DEF charVars, CharMapInv, CharInv, CacheIsCurrent
  <2>2. /\ map_fd' \in [MapServer -> {"free", "open", "eof"}]
        /\ char_fd' \in [MapServer -> {"none", "open", "eof"}]
    BY DEF LinkBreaks, Break, CharMapInv, CharInv, TypeRest
  <2> QED
    BY <1>1, <1>4, <2>1, <2>2 DEF charVars, CharMapInv, CharInv, TypeRest, ToMapQueues
<1>6. WorldType'
  <2>1. broken' \in 0 .. Breaks
    BY DEF LinkBreaks, CharMapInv, WorldType
  <2> QED
    BY <1>1, <2>1, WorldUnchanged DEF CharMapInv
<1>7. NodesGranted' /\ OnlyGranted'
  <2>1. WorldType' => OnlyGranted'
    BY WorldGranted, PTL
  <2> QED
    BY <1>1, <1>6, <2>1 DEF charVars, CharMapInv, Granted, NodesGranted
<1> QED
  BY <1>2, <1>4, <1>5, <1>6, <1>7 DEF CharMapInv, Granted

LEMMA RestartKeeps ==
  ASSUME CharMapInv, Restarts
  PROVE  CharMapInv'
<1>1. UNCHANGED <<spent, mapVars, broken>> /\ Restarted /\ restarts' \in 0 .. CharRestarts
  BY DEF Restarts, CharRestart, Restarted, ByChar, CharMapInv, CharInv, TypeRest
<1>2. CharInv'
  BY <1>1, RestartedInv DEF CharMapInv
<1>3. WorldType'
  BY <1>1, WorldUnchanged DEF CharMapInv, WorldType
<1>4. /\ fromMap' \in [MapServer -> Seq(FromGranted')]
      /\ toMap' \in [MapServer -> Seq(ToGranted')]
  BY <1>1 DEF Restarted
<1>5. NodesGranted'
  BY <1>1 DEF Restarted, NodesGranted
<1>6. OnlyGranted'
  <2>1. WorldType' => OnlyGranted'
    BY WorldGranted, PTL
  <2> QED
    BY <1>3, <2>1
<1> QED
  BY <1>2, <1>3, <1>4, <1>5, <1>6 DEF CharMapInv, Granted

LEMMA CharMapStart == Init => CharMapInv
<1> SUFFICES ASSUME Init PROVE CharMapInv
  OBVIOUS
<1>1. CharInv
  BY CharStart DEF Init
<1>2. WorldType
  BY NoOneThere DEF Init, InitMap, WorldType
<1>3. Granted
  <2>1. OnlyGranted
    BY <1>2, WorldGranted
  <2>2. /\ fromMap \in [MapServer -> Seq(FromGranted)]
        /\ toMap \in [MapServer -> Seq(ToGranted)]
    BY DEF Init, InitLinks
  <2>3. NodesGranted
    BY DEF Init, InitChar, NodesGranted
  <2> QED
    BY <2>1, <2>2, <2>3 DEF Granted
<1> QED
  BY <1>1, <1>2, <1>3 DEF CharMapInv

LEMMA CharMapStep ==
  ASSUME CharMapInv, [Next]_vars
  PROVE  CharMapInv'
<1>1. CASE CharStep
  BY <1>1, CharStepIsCharNext, CharStepKeeps
<1>2. CASE MapStep
  BY <1>2, MapStepKeeps
<1>3. ASSUME NEW m \in MapServer, CharNotices(m) PROVE CharMapInv'
  BY <1>3, CharStepKeeps DEF CharNotices, CharNext, Links
<1>4. ASSUME NEW m \in MapServer, MapNotices(m) PROVE CharMapInv'
  BY <1>4, NoticeKeeps DEF MapNotices
<1>5. CASE UNCHANGED vars
  <2>1. CharInv'
    <3>1. Tables' /\ CacheIsCurrent'
      BY <1>5, TablesUnchanged DEF vars, charVars, CharMapInv, CharInv, CacheIsCurrent
    <3> QED
      BY <1>5, <3>1 DEF vars, charVars, linkVars, CharMapInv, CharInv, TypeRest
  <2>2. WorldType'
    BY <1>5, WorldUnchanged DEF vars, CharMapInv, WorldType
  <2>3. Granted'
    BY <1>5 DEF vars, charVars, mapVars, linkVars, CharMapInv, Granted, NodesGranted, OnlyGranted,
                FromGranted, ToGranted
  <2> QED
    BY <2>1, <2>2, <2>3 DEF CharMapInv
<1> QED
  BY <1>1, <1>2, <1>3, <1>4, <1>5, ConnectKeeps, BreakKeeps, RestartKeeps DEF Next

\* Who is in the world, or about to be, has shown a granted login: the invariant says
\* it of every session, auth node and packet a login passes through.
THEOREM CharMapInvariant == Spec => []CharMapInv
  BY CharMapStart, CharMapStep, PTL DEF Spec

\* Whatever links break and servers restart, every variable of the char server and its
\* map servers stays a set, table or queue of the values it is declared with.
THEOREM CharMapTypeCorrect == Spec => []TypeOK
<1>1. CharMapInv => TypeOK
  BY CharMapInvTypes
<1> QED
  BY <1>1, CharMapInvariant, PTL

\* Nobody is let into the world by a login the login server has not granted, however
\* auth nodes are overwritten, left over or raced by packets (chmapif_parse_reqauth,
\* chrif_authok).
THEOREM OnlyGrantedCorrect == Spec => []OnlyGranted
<1>1. CharMapInv => OnlyGranted
  BY CharMapInvTypes
<1> QED
  BY <1>1, CharMapInvariant, PTL

----------------------------------------------------------------------------
(* The maps of the other map servers. *)

Queued(m, p) == \E i \in DOMAIN toMap[m] : toMap[m][i] = p
Open(m)      == map_fd[m] = "open" /\ char_fd[m] = "open"
MapAck       == [cmd |-> "mapack"]
MapsOf(n)    == [cmd |-> "maps", of |-> n]

\* A server whose maps the char server knows is connected; one that is ready, or soon
\* will be, is one of them; and each of two such servers knows the maps of the other
\* or is about to be told.
Known    == \A m \in MapServer : map_fd[m] = "free" => m \notin maps
Declared == \A m \in MapServer :
              Open(m) /\ (chrif_state[m] = 2 \/ Queued(m, MapAck)) => m \in maps
Heard    == \A m, n \in MapServer :
              m # n /\ Open(m) /\ map_fd[n] = "open" /\ m \in maps /\ n \in maps =>
                n \in ipport[m] \/ Queued(m, MapsOf(n))
Told     == Known /\ Declared /\ Heard

LEMMA AppendedQueued ==
  ASSUME toMap \in ToMapQueues, NEW S \in SUBSET ToMapMsg, Appends(S, toMap', toMap),
         NEW m \in MapServer, NEW p
  PROVE  /\ Queued(m, p) => Queued(m, p)'
         /\ Queued(m, p)' => Queued(m, p) \/ p \in S
<1>1. PICK ms \in Seq(S) : toMap'[m] = toMap[m] \o ms
  BY DEF Appends
<1>2. PICK q \in Seq(ToMapMsg) : q = toMap[m]
  BY DEF ToMapQueues
<1>3. ms \in Seq(ToMapMsg)
  BY SeqMonotonic
<1>4. /\ Len(q \o ms) = Len(q) + Len(ms)
      /\ \A i \in 1 .. Len(q) + Len(ms) :
           (q \o ms)[i] = IF i <= Len(q) THEN q[i] ELSE ms[i - Len(q)]
  BY <1>3, ConcatProperties
<1>5. Len(q) \in Nat /\ Len(ms) \in Nat /\ DOMAIN q = 1 .. Len(q) /\ DOMAIN (q \o ms) = 1 .. Len(q) + Len(ms)
  BY <1>3, <1>4, ConcatProperties, LenProperties
<1>6. ASSUME NEW i \in DOMAIN q, q[i] = p PROVE \E j \in DOMAIN (q \o ms) : (q \o ms)[j] = p
  BY <1>4, <1>5, <1>6
<1>7. ASSUME NEW i \in DOMAIN (q \o ms), (q \o ms)[i] = p
      PROVE  (\E j \in DOMAIN q : q[j] = p) \/ p \in S
  <2>1. CASE i <= Len(q)
    BY <1>4, <1>5, <1>7, <2>1
  <2>2. CASE ~(i <= Len(q))
    <3>1. i - Len(q) \in 1 .. Len(ms)
      BY <1>5, <1>7, <2>2
    <3>2. ms[i - Len(q)] \in S
      BY <3>1, ElementOfSeq
    <3> QED
      BY <1>4, <1>5, <1>7, <2>2, <3>2
  <2> QED
    BY <2>1, <2>2
<1> QED
  BY <1>1, <1>2, <1>6, <1>7 DEF Queued

LEMMA TakenQueued ==
  ASSUME toMap \in ToMapQueues, NEW k \in MapServer, toMap[k] # <<>>,
         toMap' = [toMap EXCEPT ![k] = Tail(@)], NEW m \in MapServer, NEW p
  PROVE  /\ Queued(m, p)' => Queued(m, p)
         /\ Queued(m, p) => Queued(m, p)' \/ (m = k /\ p = Head(toMap[k]))
<1>1. CASE m # k
  BY <1>1 DEF ToMapQueues, Queued
<1>2. CASE m = k
  <2>1. PICK q \in Seq(ToMapMsg) : q = toMap[k] /\ q # <<>>
    BY DEF ToMapQueues
  <2>2. toMap'[m] = Tail(q)
    BY <1>2, <2>1 DEF ToMapQueues
  <2>3. /\ Len(Tail(q)) = Len(q) - 1 /\ Len(q) \in Nat \ {0} /\ Tail(q) \in Seq(ToMapMsg)
        /\ \A i \in 1 .. Len(q) - 1 : Tail(q)[i] = q[i + 1]
        /\ Head(q) = q[1]
    BY <2>1, HeadTailProperties, EmptySeq, LenProperties
  <2>4. DOMAIN q = 1 .. Len(q) /\ DOMAIN Tail(q) = 1 .. Len(q) - 1
    BY <2>3, LenProperties
  <2>5. ASSUME NEW i \in DOMAIN Tail(q), Tail(q)[i] = p PROVE \E j \in DOMAIN q : q[j] = p
    BY <2>3, <2>4, <2>5
  <2>6. ASSUME NEW i \in DOMAIN q, q[i] = p, p # Head(q)
        PROVE  \E j \in DOMAIN Tail(q) : Tail(q)[j] = p
    <3>1. i - 1 \in DOMAIN Tail(q) /\ Tail(q)[i - 1] = q[i]
      BY <2>3, <2>4, <2>6
    <3> QED
      BY <2>6, <3>1
  <2> QED
    BY <1>2, <2>1, <2>2, <2>5, <2>6 DEF Queued
<1> QED
  BY <1>1, <1>2

\* A walk over a table comes by every member of it.
LEMMA OrdersCover ==
  ASSUME NEW S, IsFiniteSet(S), NEW order \in Orders(S), NEW x \in S
  PROVE  \E i \in DOMAIN order : order[i] = x
<1>1. Cardinality(S) \in Nat /\ IsFiniteSet(1 .. Cardinality(S))
      /\ Cardinality(1 .. Cardinality(S)) = Cardinality(S)
  BY FS_CardinalityType, FS_Interval
<1>2. order \in Injection(1 .. Cardinality(S), S)
  BY DEF Orders, Injection, IsInjective
<1>3. order \in Surjection(1 .. Cardinality(S), S)
  BY <1>1, <1>2, FS_Injection
<1> QED
  BY <1>3 DEF Surjection

LEMMA LastQueued ==
  ASSUME NEW T, NEW t \in Seq(T), NEW k \in Seq(T), NEW i \in DOMAIN k
  PROVE  \E j \in DOMAIN (t \o k) : (t \o k)[j] = k[i]
<1>1. /\ Len(t) \in Nat /\ Len(k) \in Nat /\ DOMAIN k = 1 .. Len(k)
      /\ DOMAIN (t \o k) = 1 .. Len(t) + Len(k)
      /\ \A j \in 1 .. Len(t) + Len(k) :
           (t \o k)[j] = IF j <= Len(t) THEN t[j] ELSE k[j - Len(t)]
  BY ConcatProperties, LenProperties
<1>2. Len(t) + i \in DOMAIN (t \o k) /\ ~(Len(t) + i <= Len(t)) /\ Len(t) + i - Len(t) = i
  BY <1>1
<1>3. (t \o k)[Len(t) + i] = k[i]
  BY <1>1, <1>2
<1> QED
  BY <1>2, <1>3

\* A step that sends nothing about maps and takes nothing.
LEMMA SilentTold ==
  ASSUME CharMapInv, Told, NEW S \in SUBSET ToMapMsg, MapAck \notin S, Appends(S, toMap', toMap),
         UNCHANGED <<map_fd, char_fd, maps, chrif_state, ipport>>
  PROVE  Told'
<1>1. \A m \in MapServer : \A p :
        (Queued(m, p) => Queued(m, p)') /\ (Queued(m, p)' => Queued(m, p) \/ p \in S)
  BY AppendedQueued DEF CharMapInv, CharInv, TypeRest
<1>2. Known' /\ Declared'
  BY <1>1 DEF Told, Known, Declared, Open, MapAck
<1>3. Heard'
  BY <1>1 DEF Told, Heard, Open, MapsOf
<1> QED
  BY <1>2, <1>3 DEF Told

\* chmapif_parse_getmapname: all that are connected hear of m, and m of them.
LEMMA MapNameTold ==
  ASSUME CharMapInv, Told, NEW m \in MapServer, ParseGetMapName(m), ByChar
  PROVE  Told'
<1>1. toMap \in ToMapQueues /\ maps' = maps \cup {m}
      /\ UNCHANGED <<map_fd, char_fd, chrif_state, ipport>>
  BY DEF CharMapInv, CharInv, TypeRest, ParseGetMapName, ByChar, mapVars
<1>2. Appends({p \in ToMapMsg : p.cmd \in {"mapack", "maps"}}, toMap', toMap)
  BY MapNameAppends DEF CharMapInv
<1>3. \A x \in MapServer : \A p :
        /\ Queued(x, p) => Queued(x, p)'
        /\ Queued(x, p)' => Queued(x, p) \/ p \in {y \in ToMapMsg : y.cmd \in {"mapack", "maps"}}
  BY <1>1, <1>2, AppendedQueued
<1>4. PICK order \in Orders(KnownMaps(m)) :
        toMap' = [n \in MapServer |->
            IF n = m
            THEN toMap[n] \o <<[cmd |-> "mapack"]>>
                          \o [i \in DOMAIN order |-> [cmd |-> "maps", of |-> order[i]]]
            ELSE IF Active(n) THEN Append(toMap[n], [cmd |-> "maps", of |-> m]) ELSE toMap[n]]
  BY DEF ParseGetMapName
<1>5. Known' /\ map_fd[m] = "open"
  BY <1>1 DEF Told, Known, ParseGetMapName, Receive, Active
<1>6. Declared'
  <2>1. ASSUME NEW x \in MapServer, x # m, Queued(x, MapAck)' PROVE Queued(x, MapAck)
    <3>1. toMap'[x] \in {toMap[x], Append(toMap[x], MapsOf(m))}
      BY <1>4, <2>1 DEF MapsOf
    <3>2. MapsOf(m) # MapAck
      BY DEF MapsOf, MapAck
    <3>3. PICK q \in Seq(ToMapMsg) : q = toMap[x]
      BY <1>1 DEF ToMapQueues
    <3>4. MapsOf(m) \in ToMapMsg
      BY DEF MapsOf, ToMapMsg
    <3>5. ASSUME NEW i \in DOMAIN Append(q, MapsOf(m)), Append(q, MapsOf(m))[i] = MapAck
          PROVE  \E j \in DOMAIN q : q[j] = MapAck
      <4> HIDE DEF MapsOf, MapAck
      <4>1. /\ DOMAIN Append(q, MapsOf(m)) = 1 .. Len(q) + 1 /\ DOMAIN q = 1 .. Len(q)
            /\ Len(q) \in Nat
        BY <3>4, AppendProperties, LenProperties
      <4>2. \A j \in 1 .. Len(q) : Append(q, MapsOf(m))[j] = q[j]
        BY <3>4, AppendProperties
      <4>3. Append(q, MapsOf(m))[Len(q) + 1] = MapsOf(m)
        BY <3>4, AppendProperties
      <4> QED
        BY <3>2, <3>5, <4>1, <4>2, <4>3
    <3> HIDE DEF MapsOf, MapAck
    <3> QED
      BY <2>1, <3>1, <3>3, <3>5 DEF Queued
  <2> QED
    BY <1>1, <2>1 DEF Told, Declared, Open
<1>7. ASSUME NEW n \in MapServer, n # m, map_fd[n] = "open", n \in maps PROVE Queued(m, MapsOf(n))'
  <2>1. n \in KnownMaps(m)
    BY <1>7 DEF KnownMaps, Valid
  <2>2. PICK i \in DOMAIN order : order[i] = n
    <3>1. IsFiniteSet(KnownMaps(m))
      BY FS_Subset DEF KnownMaps, CharMapInv, CharInv, TypeRest
    <3> QED
      BY <2>1, <3>1, OrdersCover
  <2> DEFINE known == [j \in DOMAIN order |-> [cmd |-> "maps", of |-> order[j]]]
             ack   == <<[cmd |-> "mapack"]>>
  <2>3. toMap'[m] = (toMap[m] \o ack) \o known
    BY <1>4
  <2>4. known \in Seq(ToMapMsg) /\ ack \in Seq(ToMapMsg) /\ toMap[m] \in Seq(ToMapMsg)
    <3>1. KnownMaps(m) \subseteq MapServer /\ IsFiniteSet(KnownMaps(m))
      BY FS_Subset DEF KnownMaps, CharMapInv, CharInv, TypeRest
    <3>2. order \in Seq(MapServer) /\ DOMAIN order = 1 .. Len(order)
      BY <3>1, OrdersType
    <3>3. \A j \in DOMAIN order : [cmd |-> "maps", of |-> order[j]] \in ToMapMsg
      BY <3>2 DEF ToMapMsg
    <3>4. known \in Seq(ToMapMsg)
      BY <3>2, <3>3
    <3>5. ack \in Seq(ToMapMsg)
      BY DEF ToMapMsg
    <3> QED
      BY <1>1, <3>4, <3>5 DEF ToMapQueues
  <2>5. i \in DOMAIN known /\ known[i] = MapsOf(n)
    BY <2>2 DEF MapsOf
  <2> HIDE DEF known, ack
  <2>6. toMap[m] \o ack \in Seq(ToMapMsg)
    BY <2>4, ConcatProperties
  <2>7. \E j \in DOMAIN ((toMap[m] \o ack) \o known) : ((toMap[m] \o ack) \o known)[j] = known[i]
    <3>1. PICK q \in Seq(ToMapMsg) : q = toMap[m] \o ack
      BY <2>6
    <3>2. \E j \in DOMAIN (q \o known) : (q \o known)[j] = known[i]
      BY <2>4, <2>5, LastQueued, SMTT(30)
    <3> QED
      BY <3>1, <3>2
  <2> QED
    BY <2>3, <2>5, <2>7 DEF Queued
<1>8. ASSUME NEW x \in MapServer, x # m, map_fd[x] = "open" PROVE Queued(x, MapsOf(m))'
  <2>1. toMap'[x] = Append(toMap[x], MapsOf(m))
    BY <1>4, <1>8 DEF Active, MapsOf
  <2>2. toMap[x] \in Seq(ToMapMsg) /\ MapsOf(m) \in ToMapMsg
    BY <1>1 DEF ToMapQueues, MapsOf, ToMapMsg
  <2> HIDE DEF MapsOf
  <2> QED
    BY <2>1, <2>2, AppendProperties DEF Queued
<1>9. Heard'
  BY <1>1, <1>3, <1>7, <1>8 DEF Told, Heard, Open
<1> QED
  BY <1>5, <1>6, <1>9 DEF Told

\* What else the char server does.
LEMMA CharTold ==
  ASSUME CharMapInv, Told, CharStep
  PROVE  Told'
<1>1. /\ Plain \in SUBSET ToMapMsg /\ MapAck \notin Plain
      /\ \A m : /\ Plain \cup AuthOks(m) \in SUBSET ToMapMsg /\ MapAck \notin Plain \cup AuthOks(m)
               /\ Plain \cup SaveAcks(m) \in SUBSET ToMapMsg /\ MapAck \notin Plain \cup SaveAcks(m)
  BY DEF Plain, MapAck, AuthOks, SaveAcks
<1>2. ByChar /\ UNCHANGED <<chrif_state, ipport>>
  BY DEF CharStep, ByChar, mapVars
<1>3. ASSUME NEW f \in Fd, Connects(f) \/ Selects(f) PROVE Told'
  <2>1. UNCHANGED <<map_fd, char_fd, maps>>
    BY <1>3 DEF Connects, ParseReqToConnect, ClientHangsUp, ClientClosed, Selects,
                ParseCharSelect, ParseSelectAccessibleMap, Selected, linkVars
  <2> QED
    BY <1>1, <1>2, <1>3, <2>1, ClientAppends, SilentTold DEF CharMapInv
<1>4. CASE ParseLogin \/ Timers
  <2>1. UNCHANGED <<map_fd, char_fd, maps>>
    BY <1>4 DEF ParseLogin, ParseAckAccReq, ParseAskKick, LoginLinkLost, CheckConnectLogServer,
                Timers, WaitingDisconnect, OnlineDataCleanup, linkVars
  <2> QED
    BY <1>1, <1>2, <1>4, <2>1, LoginAppends, SilentTold DEF CharMapInv
<1>5. ASSUME NEW m \in MapServer, ParseMap(m), ~ParseGetMapName(m) PROVE Told'
  <2>1. UNCHANGED <<map_fd, char_fd, maps>>
    BY <1>5 DEF ParseMap, ParseRegMapUser, ParseReqSaveChar, ParseAuthOk,
                ParseReqChangeMapServ, ParseSetCharOffline, ParseSetCharOnline, ParseReqAuth,
                ParseSetAllOffline, charVars
  <2>2. CASE ParseReqAuth(m)
    BY <1>1, <1>2, <2>1, <2>2, ReqAuthAppends, SilentTold DEF CharMapInv
  <2>3. CASE ParseReqSaveChar(m)
    BY <1>1, <1>2, <2>1, <2>3, SaveAppends, SilentTold DEF CharMapInv
  <2>4. CASE ~ParseReqAuth(m) /\ ~ParseReqSaveChar(m)
    <3>1. Appends(Plain, toMap', toMap)
      BY <1>5, <2>4, PlainPacketAppends DEF ParseMap, CharMapInv
    <3> QED
      BY <1>1, <1>2, <2>1, <3>1, SilentTold
  <2> QED
    BY <2>2, <2>3, <2>4
<1> QED
  BY <1>2, <1>3, <1>4, <1>5, MapNameTold DEF CharStep, Timers

\* chmapif_on_disconnect: what was m's is forgotten.
LEMMA LostTold ==
  ASSUME CharMapInv, Told, NEW m \in MapServer, CharNotices(m)
  PROVE  Told'
<1>1. Appends(Plain, toMap', toMap) /\ Plain \in SUBSET ToMapMsg /\ MapAck \notin Plain
  BY DisconnectAppends DEF CharNotices, CharMapInv, Plain, MapAck
<1>2. \A x \in MapServer : \A p :
        (Queued(x, p) => Queued(x, p)') /\ (Queued(x, p)' => Queued(x, p) \/ p \in Plain)
  BY <1>1, AppendedQueued DEF CharMapInv, CharInv, TypeRest
<1>3. /\ map_fd[m] = "eof" /\ map_fd' = [map_fd EXCEPT ![m] = "free"] /\ maps' = maps \ {m}
      /\ UNCHANGED <<char_fd, chrif_state, ipport>>
      /\ map_fd \in [MapServer -> {"free", "open", "eof"}]
  BY DEF CharNotices, MapDisconnected, ByChar, mapVars, CharMapInv, CharInv, TypeRest
<1>4. Known' /\ Declared'
  BY <1>1, <1>2, <1>3 DEF Told, Known, Declared, Open
<1>5. Heard'
  BY <1>2, <1>3 DEF Told, Heard, Open
<1> QED
  BY <1>4, <1>5 DEF Told

\* A new connection: nothing has been declared on it.
LEMMA ConnectTold ==
  ASSUME CharMapInv, Told, NEW m \in MapServer, Connect(m)
  PROVE  Told'
<1>1. /\ map_fd[m] = "free" /\ char_fd[m] = "none"
      /\ map_fd' = [map_fd EXCEPT ![m] = "open"]
      /\ char_fd' = [char_fd EXCEPT ![m] = "open"]
      /\ chrif_state' = [chrif_state EXCEPT ![m] = 0]
      /\ toMap' = [toMap EXCEPT ![m] = <<[cmd |-> "connectack"]>>]
      /\ UNCHANGED <<ipport, maps>>
  BY DEF Connect, ParseMapLogin, Reconnecting, charVars
<1>2. /\ map_fd \in [MapServer -> {"free", "open", "eof"}]
      /\ char_fd \in [MapServer -> {"none", "open", "eof"}]
      /\ chrif_state \in [MapServer -> 0 .. 2]
      /\ toMap \in ToMapQueues
  BY DEF CharMapInv, CharInv, TypeRest, WorldType
<1>3. m \notin maps
  BY <1>1 DEF Told, Known
<1>4. \A x \in MapServer : \A p : x # m => (Queued(x, p)' <=> Queued(x, p))
  BY <1>1, <1>2 DEF Queued, ToMapQueues
<1>5. ~Queued(m, MapAck)'
  BY <1>1, <1>2 DEF Queued, MapAck, ToMapQueues
<1>6. Known' /\ Declared'
  BY <1>1, <1>2, <1>3, <1>4, <1>5 DEF Told, Known, Declared, Open
<1>7. Heard'
  BY <1>1, <1>2, <1>3, <1>4 DEF Told, Heard, Open
<1> QED
  BY <1>6, <1>7 DEF Told

\* A link that breaks, and a restart of the char server, close what was open.
LEMMA BreakTold ==
  ASSUME CharMapInv, Told, NEW m \in MapServer, LinkBreaks(m)
  PROVE  Told'
<1>1. /\ map_fd' = [map_fd EXCEPT ![m] = "eof"]
      /\ char_fd' = [char_fd EXCEPT ![m] = "eof"]
      /\ toMap' = [toMap EXCEPT ![m] = <<>>]
      /\ UNCHANGED <<ipport, maps, chrif_state>>
  BY DEF LinkBreaks, Break, charVars, mapVars
<1>2. /\ map_fd \in [MapServer -> {"free", "open", "eof"}]
      /\ char_fd \in [MapServer -> {"none", "open", "eof"}]
      /\ toMap \in ToMapQueues
  BY DEF CharMapInv, CharInv, TypeRest
<1>3. \A x \in MapServer : \A p : x # m => (Queued(x, p)' <=> Queued(x, p))
  BY <1>1, <1>2 DEF Queued, ToMapQueues
<1>4. Known' /\ Declared'
  BY <1>1, <1>2, <1>3 DEF Told, Known, Declared, Open
<1>5. Heard'
  BY <1>1, <1>2, <1>3 DEF Told, Heard, Open
<1> QED
  BY <1>4, <1>5 DEF Told

LEMMA RestartTold == Restarts => Told'
BY DEF Restarts, CharRestart, Restarted, Told, Known, Declared, Heard, Open

\* Players and timers of a map server leave its link and what it knows of maps alone.
LEMMA PlayersSilent ==
  ASSUME NEW m \in MapServer, NEW a \in Account
  PROVE  /\ \A c \in Char, l \in Login : WantToConnection(m, c, l) =>
              UNCHANGED <<map_fd, char_fd, toMap, chrif_state, ipport>>
         /\ RegReceived(m, a) \/ Play(m, a) \/ Autosave(m, a) \/ CharSelectReq(m, a) =>
              UNCHANGED <<map_fd, char_fd, toMap, chrif_state, ipport>>
         /\ ClientGone(m, a) \/ DelayQuit(m, a) \/ AuthDbCleanup(m, a) =>
              UNCHANGED <<map_fd, char_fd, toMap, chrif_state, ipport>>
         /\ \A to \in MapServer : SetPos(m, a, to) =>
              UNCHANGED <<map_fd, char_fd, toMap, chrif_state, ipport>>
<1>1. \A c \in Char, l \in Login : WantToConnection(m, c, l) =>
        UNCHANGED <<map_fd, char_fd, toMap, chrif_state, ipport>>
  BY DEF WantToConnection
<1>2. RegReceived(m, a) \/ Play(m, a) \/ Autosave(m, a) \/ CharSelectReq(m, a) =>
        UNCHANGED <<map_fd, char_fd, toMap, chrif_state, ipport>>
  BY DEF RegReceived, Play, Autosave, CharSelectReq, mapVars, linkVars
<1>3. ClientGone(m, a) \/ DelayQuit(m, a) \/ AuthDbCleanup(m, a) =>
        UNCHANGED <<map_fd, char_fd, toMap, chrif_state, ipport>>
  BY DEF ClientGone, DelayQuit, MapQuit, AuthDbCleanup, linkVars
<1>4. \A to \in MapServer : SetPos(m, a, to) =>
        UNCHANGED <<map_fd, char_fd, toMap, chrif_state, ipport>>
  BY DEF SetPos
<1> QED
  BY <1>1, <1>2, <1>3, <1>4

\* chrif_recvmap and chrif_sendmapack take what the invariant is about; what else a
\* map server takes it is not.
LEMMA MapTold ==
  ASSUME CharMapInv, Told, MapStep
  PROVE  Told'
<1>0. PICK m \in MapServer :
        \/ ChrifParse(m)
        \/ UNCHANGED <<map_fd, char_fd, toMap, chrif_state, ipport>>
  BY PlayersSilent DEF MapStep
<1>1. UNCHANGED <<map_fd, char_fd, maps>>
  <2>1. UNCHANGED maps
    BY DEF MapStep, ByMap, charVars
  <2>2. ChrifParse(m) => UNCHANGED <<map_fd, char_fd>>
    BY DEF ChrifParse, ConnectAck, SendMapAck, AuthOkTaken, AuthFail, DisconnectPlayer,
           ChangeMapServerAck, SaveAck, RecvMap, RemoveMap
  <2> QED
    BY <1>0, <2>1, <2>2
<1>2. toMap \in ToMapQueues /\ ipport \in [MapServer -> SUBSET MapServer]
      /\ chrif_state \in [MapServer -> 0 .. 2]
  BY DEF CharMapInv, CharInv, TypeRest, WorldType
<1>4. CASE UNCHANGED <<toMap, chrif_state, ipport>>
  BY <1>1, <1>4 DEF Told, Known, Declared, Heard, Open, Queued
<1>5. CASE ChrifParse(m)
  <2>1. PICK cmd : Take(m, cmd)
    BY <1>5 DEF ChrifParse, ConnectAck, SendMapAck, AuthOkTaken, AuthFail, DisconnectPlayer,
                ChangeMapServerAck, SaveAck, RecvMap, RemoveMap
  <2>2. \A x \in MapServer : \A p :
          /\ Queued(x, p)' => Queued(x, p)
          /\ Queued(x, p) => Queued(x, p)' \/ (x = m /\ p = Head(toMap[m]))
    BY <1>2, <2>1, TakenQueued DEF Take
  <2>3. Known'
    BY <1>1 DEF Told, Known
  <2>4. Declared'
    <3>1. CASE SendMapAck(m)
      <4>1. Queued(m, MapAck)
        <5>1. Head(toMap[m]) \in ToMapMsg /\ Head(toMap[m]).cmd = "mapack"
          <6>1. Take(m, "mapack")
            BY <3>1 DEF SendMapAck
          <6>2. Head(toMap[m]) \in ToGranted
            BY <6>1, TakeTakes DEF CharMapInv
          <6> QED
            BY <6>1, <6>2 DEF Take, ToGranted
        <5>2. Head(toMap[m]) = MapAck
          BY <5>1 DEF ToMapMsg, MapAck
        <5>3. PICK q \in Seq(ToMapMsg) : q = toMap[m] /\ q # <<>>
          BY <1>2, <2>1 DEF ToMapQueues, Take
        <5>4. Head(q) = q[1] /\ 1 \in DOMAIN q
          BY <5>3, EmptySeq, LenProperties
        <5> QED
          BY <5>2, <5>3, <5>4 DEF Queued
      <4>2. chrif_state' = [chrif_state EXCEPT ![m] = 2]
        BY <3>1 DEF SendMapAck
      <4> QED
        BY <1>1, <1>2, <2>2, <4>1, <4>2 DEF Told, Declared, Open
    <3>2. CASE chrif_state' = [chrif_state EXCEPT ![m] = 1] \/ UNCHANGED chrif_state
      BY <1>1, <1>2, <2>2, <3>2 DEF Told, Declared, Open
    <3> QED
      BY <1>5, <3>1, <3>2 DEF ChrifParse, ConnectAck, AuthOkTaken, AuthFail, DisconnectPlayer,
                              ChangeMapServerAck, SaveAck, RecvMap, RemoveMap
  <2>5. Heard'
    <3>1. CASE RecvMap(m)
      <4>1. ipport' = [ipport EXCEPT ![m] = @ \cup {Head(toMap[m]).of}]
        BY <3>1 DEF RecvMap
      <4>2. \A n \in MapServer : MapsOf(n) = Head(toMap[m]) => n \in ipport'[m]
        BY <1>2, <4>1 DEF MapsOf
      <4>3. \A x \in MapServer : ipport[x] \subseteq ipport'[x]
        BY <1>2, <4>1
      <4> QED
        BY <1>1, <2>2, <4>2, <4>3 DEF Told, Heard, Open
    <3>2. CASE UNCHANGED ipport /\ ~RecvMap(m)
      <4>1. Head(toMap[m]).cmd # "maps"
        BY <1>5, <3>2 DEF ChrifParse, ConnectAck, SendMapAck, AuthOkTaken, AuthFail,
                          DisconnectPlayer, ChangeMapServerAck, SaveAck, RemoveMap, Take
      <4>2. \A n \in MapServer : MapsOf(n) # Head(toMap[m])
        BY <4>1 DEF MapsOf
      <4> QED
        BY <1>1, <2>2, <3>2, <4>2 DEF Told, Heard, Open
    <3> QED
      BY <1>5, <3>1, <3>2 DEF ChrifParse, ConnectAck, SendMapAck, AuthOkTaken, AuthFail,
                              DisconnectPlayer, ChangeMapServerAck, SaveAck, RemoveMap
  <2> QED
    BY <2>3, <2>4, <2>5 DEF Told
<1> QED
  BY <1>0, <1>4, <1>5

LEMMA ToldStep ==
  ASSUME CharMapInv, Told, [Next]_vars
  PROVE  Told'
<1>1. ASSUME NEW m \in MapServer, MapNotices(m) PROVE Told'
  <2>1. /\ char_fd[m] = "eof"
        /\ char_fd' = [char_fd EXCEPT ![m] = "none"]
        /\ ipport' = [ipport EXCEPT ![m] = {}]
        /\ UNCHANGED <<map_fd, maps, chrif_state, toMap>>
    BY <1>1 DEF MapNotices, OnDisconnect, ByMap, charVars
  <2>2. /\ char_fd \in [MapServer -> {"none", "open", "eof"}]
        /\ ipport \in [MapServer -> SUBSET MapServer]
    BY DEF CharMapInv, CharInv, TypeRest, WorldType
  <2> QED
    BY <2>1, <2>2 DEF Told, Known, Declared, Heard, Open, Queued
<1>2. CASE UNCHANGED vars
  BY <1>2 DEF vars, charVars, mapVars, linkVars, Told, Known, Declared, Heard, Open, Queued
<1> QED
  BY <1>1, <1>2, CharTold, MapTold, LostTold, ConnectTold, BreakTold, RestartTold DEF Next

\* Once every packet has arrived, two map servers that are ready can send players to each
\* other, in whatever order they connected, broke and came back (chmapif_send_maps,
\* chrif_on_disconnect).
THEOREM MapsSharedCorrect == Spec => []MapsShared
<1>1. Init => Told
  BY DEF Init, InitLinks, InitChar, Told, Known, Declared, Heard, Open
<1>2. CharMapInv /\ Told => MapsShared
  <2> SUFFICES ASSUME CharMapInv, Told, NEW m \in MapServer, NEW n \in MapServer,
                      toMap[m] = <<>>, m # n, Ready(m), Ready(n)
               PROVE  n \in ipport[m]
    BY DEF MapsShared
  <2>1. m \in maps /\ n \in maps
    BY DEF Told, Declared, Ready, Open
  <2>2. ~Queued(m, MapsOf(n))
    BY DEF Queued
  <2> QED
    BY <2>1, <2>2 DEF Told, Heard, Ready, Open
<1>3. Told /\ CharMapInv /\ [Next]_vars => Told'
  BY ToldStep
<1> QED
  BY <1>1, <1>2, <1>3, CharMapInvariant, PTL DEF Spec

----------------------------------------------------------------------------
(* One map server: where the newest progress of a character is.              *)
(*                                                                           *)
(* What is on its way to the char server, q, and what comes back, r, is one   *)
(* line: what is asked in q is answered in r, in the same order.              *)

Lacks(q, A) == \A i \in DOMAIN q : q[i] \notin A

\* In that line, nothing of A is behind anything of B.
InOrder(q, A, B) == \A i, j \in DOMAIN q : q[i] \in A /\ q[j] \in B => i < j
Before(A, B, q, r) ==
  /\ InOrder(q, A, B) /\ InOrder(r, A, B)
  /\ Lacks(q, A) \/ Lacks(r, B)

LEMMA JoinedIs ==
  ASSUME NEW X, NEW q \in Seq(X), NEW ms \in Seq(X)
  PROVE  /\ q \o ms \in Seq(X)
         /\ DOMAIN q \subseteq DOMAIN (q \o ms)
         /\ \A i \in DOMAIN q : (q \o ms)[i] = q[i]
         /\ \A i \in DOMAIN (q \o ms) : i \in DOMAIN q \/ /\ i - Len(q) \in DOMAIN ms
                                                          /\ (q \o ms)[i] = ms[i - Len(q)]
         /\ \A i \in DOMAIN ms : Len(q) + i \in DOMAIN (q \o ms) /\ (q \o ms)[Len(q) + i] = ms[i]
         /\ \A i \in DOMAIN q, j \in DOMAIN (q \o ms) : i \in Int /\ j \in Int /\ (j \notin DOMAIN q => i < j)
<1>1. q \o ms \in Seq(X) /\ Len(q \o ms) = Len(q) + Len(ms)
  OBVIOUS
<1>2. Len(q) \in Nat /\ Len(ms) \in Nat
  OBVIOUS
<1>3. DOMAIN q = 1 .. Len(q) /\ DOMAIN ms = 1 .. Len(ms) /\ DOMAIN (q \o ms) = 1 .. Len(q) + Len(ms)
  BY <1>1
<1>4. \A i \in 1 .. Len(q) + Len(ms) :
        (q \o ms)[i] = IF i <= Len(q) THEN q[i] ELSE ms[i - Len(q)]
  BY ConcatProperties
<1> QED
  BY <1>1, <1>2, <1>3, <1>4

LEMMA LacksJoined ==
  ASSUME NEW X, NEW q \in Seq(X), NEW ms \in Seq(X), NEW A
  PROVE  Lacks(q \o ms, A) <=> Lacks(q, A) /\ Lacks(ms, A)
<1> DEFINE t == q \o ms
<1>1. /\ DOMAIN q \subseteq DOMAIN t /\ \A i \in DOMAIN q : t[i] = q[i]
      /\ \A i \in DOMAIN t : i \in DOMAIN q \/ (i - Len(q) \in DOMAIN ms /\ t[i] = ms[i - Len(q)])
      /\ \A i \in DOMAIN ms : Len(q) + i \in DOMAIN t /\ t[Len(q) + i] = ms[i]
  BY JoinedIs
<1> HIDE DEF t
<1>2. Lacks(t, A) <=> Lacks(q, A) /\ Lacks(ms, A)
  BY <1>1 DEF Lacks
<1> QED
  BY <1>2 DEF t

LEMMA OrderJoined ==
  ASSUME NEW X, NEW q \in Seq(X), NEW ms \in Seq(X), NEW A, NEW B
  PROVE  InOrder(q \o ms, A, B) <=>
           InOrder(q, A, B) /\ InOrder(ms, A, B) /\ (Lacks(q, B) \/ Lacks(ms, A))
<1> DEFINE t == q \o ms
           n == Len(q)
<1>1. /\ n \in Nat /\ DOMAIN q = 1 .. n /\ DOMAIN ms = 1 .. Len(ms) /\ Len(ms) \in Nat
      /\ DOMAIN t = 1 .. n + Len(ms)
      /\ \A i \in 1 .. n : t[i] = q[i]
      /\ \A i \in 1 .. Len(ms) : t[n + i] = ms[i]
  BY ConcatProperties, LenProperties
<1> HIDE DEF t, n
<1>2. ASSUME InOrder(t, A, B)
      PROVE  InOrder(q, A, B) /\ InOrder(ms, A, B) /\ (Lacks(q, B) \/ Lacks(ms, A))
  <2>1. InOrder(q, A, B)
    <3>1. \A i \in 1 .. n : i \in 1 .. n + Len(ms)
      BY <1>1
    <3> QED
      BY <1>1, <1>2, <3>1 DEF InOrder
  <2>2. InOrder(ms, A, B)
    <3> SUFFICES ASSUME NEW i \in DOMAIN ms, NEW j \in DOMAIN ms, ms[i] \in A, ms[j] \in B
                 PROVE  i < j
      BY DEF InOrder
    <3>1. n + i \in DOMAIN t /\ n + j \in DOMAIN t /\ t[n + i] \in A /\ t[n + j] \in B
      BY <1>1
    <3>2. n + i < n + j
      BY <1>2, <3>1 DEF InOrder
    <3> QED
      BY <1>1, <3>2
  <2>3. ASSUME NEW j \in DOMAIN q, q[j] \in B, NEW i \in DOMAIN ms, ms[i] \in A PROVE FALSE
    <3>1. n + i \in DOMAIN t /\ j \in DOMAIN t /\ t[n + i] \in A /\ t[j] \in B
      BY <1>1, <2>3
    <3>2. n + i < j
      BY <1>2, <3>1 DEF InOrder
    <3> QED
      BY <1>1, <3>2
  <2> QED
    BY <2>1, <2>2, <2>3 DEF Lacks
<1>3. ASSUME InOrder(q, A, B), InOrder(ms, A, B), Lacks(q, B) \/ Lacks(ms, A)
      PROVE  InOrder(t, A, B)
  <2> SUFFICES ASSUME NEW i \in DOMAIN t, NEW j \in DOMAIN t, t[i] \in A, t[j] \in B
               PROVE  i < j
    BY DEF InOrder
  <2>1. \A k \in DOMAIN t : \/ k \in 1 .. n /\ t[k] = q[k]
                            \/ k > n /\ k - n \in 1 .. Len(ms) /\ t[k] = ms[k - n]
    <3> SUFFICES ASSUME NEW k \in 1 .. n + Len(ms), k > n PROVE k - n \in 1 .. Len(ms) /\ t[k] = ms[k - n]
      BY <1>1
    <3>1. k - n \in 1 .. Len(ms) /\ n + (k - n) = k
      BY <1>1
    <3> QED
      BY <1>1, <3>1
  <2>2. CASE i \in 1 .. n /\ j \in 1 .. n
    BY <1>1, <1>3, <2>2 DEF InOrder
  <2>3. CASE i \in 1 .. n /\ j > n
    BY <1>1, <2>3
  <2>4. CASE i > n /\ j \in 1 .. n
    BY <1>1, <1>3, <2>1, <2>4 DEF Lacks
  <2>5. CASE i > n /\ j > n
    <3>1. i - n \in DOMAIN ms /\ j - n \in DOMAIN ms /\ ms[i - n] \in A /\ ms[j - n] \in B
      BY <1>1, <2>1, <2>5
    <3>2. i - n < j - n
      BY <1>3, <3>1 DEF InOrder
    <3> QED
      BY <1>1, <3>2
  <2> QED
    BY <1>1, <2>1, <2>2, <2>3, <2>4, <2>5
<1> QED
  BY <1>2, <1>3 DEF t

LEMMA LacksEither ==
  ASSUME NEW q, NEW A, NEW B
  PROVE  Lacks(q, A \cup B) <=> Lacks(q, A) /\ Lacks(q, B)
BY DEF Lacks

LEMMA OneLacks ==
  ASSUME NEW X, NEW x \in X
  PROVE  <<x>> \in Seq(X) /\ \A A : Lacks(<<x>>, A) <=> x \notin A
BY DEF Lacks

LEMMA HeadTail ==
  ASSUME NEW X, NEW q \in Seq(X), q # <<>>
  PROVE  /\ <<Head(q)>> \in Seq(X) /\ Tail(q) \in Seq(X)
         /\ <<Head(q)>> \o Tail(q) = q
<1>1. /\ Tail(q) \in Seq(X) /\ Len(Tail(q)) = Len(q) - 1 /\ Len(q) \in Nat /\ Len(q) >= 1
      /\ Head(q) = q[1] /\ Head(q) \in X
      /\ \A i \in 1 .. Len(q) - 1 : Tail(q)[i] = q[i + 1]
  BY HeadTailProperties, LenProperties
<1>2. PICK h \in Seq(X) : h = <<Head(q)>> /\ Len(h) = 1 /\ h[1] = q[1]
  <2>1. ASSUME NEW x \in X PROVE <<x>> \in Seq(X) /\ Len(<<x>>) = 1 /\ <<x>>[1] = x
    OBVIOUS
  <2> QED
    BY <1>1, <2>1
<1>3. PICK t \in Seq(X) : t = Tail(q)
  BY <1>1
<1>4. /\ Len(h \o t) = Len(q) /\ h \o t \in Seq(X)
      /\ \A i \in 1 .. Len(q) : (h \o t)[i] = IF i <= 1 THEN h[i] ELSE t[i - 1]
  <2>1. Len(h) + Len(t) = Len(q)
    BY <1>1, <1>2, <1>3
  <2> QED
    BY <1>2, <2>1, ConcatProperties
<1>5. ASSUME NEW i \in 1 .. Len(q) PROVE (h \o t)[i] = q[i]
  <2>1. CASE i = 1
    BY <1>2, <1>4, <2>1
  <2>2. CASE i # 1
    <3>1. i - 1 \in 1 .. Len(q) - 1 /\ (i - 1) + 1 = i /\ ~(i <= 1)
      BY <1>1, <2>2
    <3> QED
      BY <1>1, <1>3, <1>4, <3>1
  <2> QED
    BY <2>1, <2>2
<1>6. h \o t = q
  BY <1>4, <1>5, SeqEqual
<1> QED
  BY <1>1, <1>2, <1>3, <1>6

LEMMA LacksTail ==
  ASSUME NEW X, NEW q \in Seq(X), q # <<>>, NEW A
  PROVE  Lacks(q, A) <=> Head(q) \notin A /\ Lacks(Tail(q), A)
<1>1. PICK h \in Seq(X), t \in Seq(X) : h = <<Head(q)>> /\ t = Tail(q) /\ h \o t = q
  BY HeadTail
<1>2. Lacks(h \o t, A) <=> Lacks(h, A) /\ Lacks(t, A)
  BY LacksJoined
<1>3. DOMAIN h = {1} /\ h[1] = Head(q)
  BY <1>1
<1>4. Lacks(h, A) <=> Head(q) \notin A
  BY <1>3 DEF Lacks
<1> QED
  BY <1>1, <1>2, <1>4

LEMMA OrderTail ==
  ASSUME NEW X, NEW q \in Seq(X), q # <<>>, NEW A, NEW B
  PROVE  InOrder(q, A, B) <=>
           /\ ~(Head(q) \in A /\ Head(q) \in B)
           /\ InOrder(Tail(q), A, B)
           /\ Head(q) \notin B \/ Lacks(Tail(q), A)
<1>1. PICK h \in Seq(X), t \in Seq(X) : h = <<Head(q)>> /\ t = Tail(q) /\ h \o t = q
  BY HeadTail
<1>2. InOrder(h \o t, A, B) <=>
        InOrder(h, A, B) /\ InOrder(t, A, B) /\ (Lacks(h, B) \/ Lacks(t, A))
  BY OrderJoined
<1>3. DOMAIN h = {1} /\ h[1] = Head(q)
  BY <1>1
<1>4. /\ InOrder(h, A, B) <=> ~(Head(q) \in A /\ Head(q) \in B)
      /\ Lacks(h, B) <=> Head(q) \notin B
  BY <1>3 DEF InOrder, Lacks
<1> QED
  BY <1>1, <1>2, <1>4

\* What is sent moves up that line, and what is taken leaves it: nothing of A falls behind B.
LEMMA BeforeWritten ==
  ASSUME NEW X, NEW Y, NEW q \in Seq(X), NEW r \in Seq(Y), NEW ms \in Seq(X), NEW A, NEW B,
         Before(A, B, q, r), Lacks(ms, A)
  PROVE  Before(A, B, q \o ms, r)
<1>1. InOrder(ms, A, B)
  BY DEF Lacks, InOrder
<1> QED
  BY <1>1, LacksJoined, OrderJoined DEF Before

LEMMA BeforeSent ==
  ASSUME NEW X, NEW Y, NEW q \in Seq(X), NEW r \in Seq(Y), NEW ms \in Seq(Y), NEW A, NEW B,
         Before(A, B, q, r), Lacks(ms, A), Lacks(ms, B)
  PROVE  Before(A, B, q, r \o ms)
<1>1. InOrder(ms, A, B)
  BY DEF Lacks, InOrder
<1> QED
  BY <1>1, LacksJoined, OrderJoined DEF Before

LEMMA BeforeTaken ==
  ASSUME NEW X, NEW Y, NEW q \in Seq(X), NEW r \in Seq(Y), r # <<>>, NEW A, NEW B,
         Before(A, B, q, r)
  PROVE  Before(A, B, q, Tail(r))
BY LacksTail, OrderTail DEF Before

\* An answer takes the place of what was asked.
LEMMA BeforeMoved ==
  ASSUME NEW X, NEW Y, NEW q \in Seq(X), NEW r \in Seq(Y), q # <<>>, NEW ms \in Seq(Y), NEW A, NEW B,
         Before(A, B, q, r),
         Head(q) \notin A => Lacks(ms, A), Head(q) \notin B => Lacks(ms, B)
  PROVE  Before(A, B, Tail(q), r \o ms)
<1>1. Lacks(ms, A) \/ Lacks(ms, B)
  BY OrderTail DEF Before
<1>2. InOrder(ms, A, B)
  BY <1>1 DEF Lacks, InOrder
<1>3. Lacks(q, A) <=> Head(q) \notin A /\ Lacks(Tail(q), A)
  BY LacksTail
<1>4. InOrder(q, A, B) <=> /\ ~(Head(q) \in A /\ Head(q) \in B)
                           /\ InOrder(Tail(q), A, B)
                           /\ Head(q) \notin B \/ Lacks(Tail(q), A)
  BY OrderTail
<1>5. InOrder(r \o ms, A, B) <=>
        InOrder(r, A, B) /\ InOrder(ms, A, B) /\ (Lacks(r, B) \/ Lacks(ms, A))
  BY OrderJoined
<1>6. Lacks(r \o ms, B) <=> Lacks(r, B) /\ Lacks(ms, B)
  BY LacksJoined
<1> QED
  BY <1>2, <1>3, <1>4, <1>5, <1>6 DEF Before

\* When the first of the line is of B, nothing of A is left.
LEMMA BeforeHead ==
  ASSUME NEW X, NEW Y, NEW q \in Seq(X), NEW r \in Seq(Y), r # <<>>, NEW A, NEW B,
         Before(A, B, q, r), Head(r) \in B
  PROVE  Lacks(q, A) /\ Lacks(r, A)
<1>1. Head(r) \notin A /\ Lacks(Tail(r), A)
  BY OrderTail DEF Before
<1>2. ~Lacks(r, B)
  BY LacksTail
<1> QED
  BY <1>1, <1>2, LacksTail DEF Before

\* A queue that lacks one of the two is in order.
LEMMA BeforeLacks ==
  ASSUME NEW q, NEW r, NEW A, NEW B, Lacks(q, A) \/ Lacks(q, B), Lacks(r, A) \/ Lacks(r, B),
         Lacks(q, A) \/ Lacks(r, B)
  PROVE  Before(A, B, q, r)
BY DEF Before, InOrder, Lacks

----------------------------------------------------------------------------
(* Character c in that line: what lets it in, what reports it gone, and the    *)
(* records that are older than its progress l.                                 *)

Ins(c)      == {p \in FromMapMsg \cup ToMapMsg : p.cmd \in {"reqauth", "authok"} /\ p.cid = c}
Saves(c)    == {p \in FromMapMsg : p.cmd = "save" /\ p.cid = c}
Outs(c)     == {p \in Saves(c) : p.quit} \cup {p \in ToMapMsg : p.cmd = "saveack" /\ p.cid = c}
Old(c, l)   == {p \in Saves(c) : p.rec.ver # l}
                 \cup {p \in ToMapMsg : p.cmd = "authok" /\ p.cid = c /\ p.rec.ver # l}
Early(c, l) == Ins(c) \cup Old(c, l)

InWorld(p, c)  == p # NoUser /\ p.cid = c
OnWayOut(n, c) == n # NoUser /\ n.state = "ST_LOGOUT" /\ n.cid = c
OnWayIn(n, c)  == n # NoUser /\ n.state = "ST_LOGIN" /\ n.cid = c /\ n.rec # NoUser

NoOuts(c, q, r) == Lacks(q, Outs(c)) /\ Lacks(r, Outs(c))

\* Where the newest progress l is, v being that in SQL, p and n the player and the node of
\* the account: with the player; then in the node, until SQL has it; then in SQL, from where
\* nothing takes an older record into the world.
Inside(c, q, r, l, p) ==
  InWorld(p, c) => p.rec.ver = l /\ NoOuts(c, q, r)
Parting(c, q, r, v, l, n) ==
  OnWayOut(n, c) =>
    n.rec.ver = l /\ Before(Early(c, l), Outs(c), q, r) /\ (Lacks(r, Outs(c)) \/ v = l)
Outside(c, q, r, v, l, p, n) ==
  ~InWorld(p, c) /\ ~OnWayOut(n, c) =>
    /\ v = l
    /\ Lacks(q, Old(c, l)) /\ Lacks(r, Old(c, l))
    /\ Before(Outs(c), Ins(c), q, r)
Entering(c, q, r, l, n) ==
  OnWayIn(n, c) => n.rec.ver = l /\ NoOuts(c, q, r)
Kept(c, q, r, v, l, p, n) ==
  /\ Inside(c, q, r, l, p)
  /\ Parting(c, q, r, v, l, n)
  /\ Outside(c, q, r, v, l, p, n)
  /\ Entering(c, q, r, l, n)

\* What the two servers may send.
LEMMA PacketKinds ==
  ASSUME NEW c \in Char, NEW l, NEW p
  PROVE  /\ p \in ToMapMsg /\ p \in Old(c, l) => p \in Ins(c)
         /\ p \in Ins(c) => p \notin Outs(c)
         /\ p \in Saves(c) => p \notin Ins(c) /\ (p \in Old(c, l) <=> p.rec.ver # l)
         /\ p \in FromMapMsg /\ p \in Outs(c) => p \in Saves(c)
BY DEF Ins, Outs, Old, Saves, FromMapMsg, ToMapMsg

LEMMA AnswerLacks ==
  ASSUME NEW c \in Char, NEW l, NEW ms \in Seq(ToMapMsg), Lacks(ms, Ins(c))
  PROVE  Lacks(ms, Old(c, l)) /\ Lacks(ms, Early(c, l))
<1>1. \A i \in DOMAIN ms : ms[i] \in ToMapMsg
  OBVIOUS
<1> QED
  BY <1>1, PacketKinds DEF Lacks, Early

\* The char server answers the first packet of q with ms, or sends ms and takes none.
LEMMA KeptMoved ==
  ASSUME NEW c \in Char, NEW q \in Seq(FromMapMsg), NEW r \in Seq(ToMapMsg), NEW v, NEW w, NEW l,
         NEW p, NEW n, Kept(c, q, r, v, l, p, n),
         NEW ms \in Seq(ToMapMsg), q # <<>>,
         Head(q) \notin Ins(c) => Lacks(ms, Ins(c)),
         Head(q) \notin Outs(c) => Lacks(ms, Outs(c)),
         v = l => Lacks(ms, Old(c, l)),
         w = v \/ (Head(q) \in Saves(c) /\ w = Head(q).rec.ver),
         Head(q) \in Outs(c) => w = Head(q).rec.ver
  PROVE  Kept(c, Tail(q), r \o ms, w, l, p, n)
<1> DEFINE h == Head(q)
<1>1. h \in FromMapMsg
  BY HeadTailProperties
<1> HIDE DEF h
<1>2. /\ Lacks(q, Outs(c)) <=> h \notin Outs(c) /\ Lacks(Tail(q), Outs(c))
      /\ Lacks(q, Old(c, l)) <=> h \notin Old(c, l) /\ Lacks(Tail(q), Old(c, l))
  BY LacksTail DEF h
<1>3. /\ Lacks(r \o ms, Outs(c)) <=> Lacks(r, Outs(c)) /\ Lacks(ms, Outs(c))
      /\ Lacks(r \o ms, Old(c, l)) <=> Lacks(r, Old(c, l)) /\ Lacks(ms, Old(c, l))
  BY LacksJoined
<1>4. ASSUME NoOuts(c, q, r) PROVE NoOuts(c, Tail(q), r \o ms)
  BY <1>2, <1>3, <1>4 DEF NoOuts, h
<1>5. Inside(c, Tail(q), r \o ms, l, p) /\ Entering(c, Tail(q), r \o ms, l, n)
  BY <1>4 DEF Kept, Inside, Entering
<1>6. ASSUME OnWayOut(n, c) PROVE Parting(c, Tail(q), r \o ms, w, l, n)
  <2>1. /\ n.rec.ver = l /\ Before(Early(c, l), Outs(c), q, r)
        /\ Lacks(r, Outs(c)) \/ v = l
    BY <1>6 DEF Kept, Parting
  <2>2. h \notin Early(c, l) => Lacks(ms, Early(c, l))
    BY AnswerLacks DEF Early, h
  <2>3. Before(Early(c, l), Outs(c), Tail(q), r \o ms)
    BY <2>1, <2>2, BeforeMoved DEF h
  <2>4. CASE h \in Outs(c)
    <3>1. h \notin Early(c, l)
      BY <2>1, <2>4, OrderTail DEF Before, h
    <3>2. w = l
      BY <1>1, <2>4, <3>1, PacketKinds DEF Early, h
    <3> QED
      BY <2>1, <2>3, <3>2 DEF Parting
  <2>5. CASE h \notin Outs(c)
    <3>1. CASE Lacks(r, Outs(c))
      BY <1>3, <2>1, <2>3, <2>5, <3>1 DEF Parting, h
    <3>2. CASE ~Lacks(r, Outs(c))
      <4>1. Lacks(q, Early(c, l))
        BY <2>1, <3>2 DEF Before
      <4>2. h \notin Old(c, l)
        BY <1>2, <4>1, LacksEither DEF Early
      <4>3. w = l
        BY <2>1, <3>2, <4>2, PacketKinds DEF h
      <4> QED
        BY <2>1, <2>3, <4>3 DEF Parting
    <3> QED
      BY <3>1, <3>2
  <2> QED
    BY <2>4, <2>5
<1>7. ASSUME ~InWorld(p, c), ~OnWayOut(n, c) PROVE Outside(c, Tail(q), r \o ms, w, l, p, n)
  <2>1. /\ v = l /\ Lacks(q, Old(c, l)) /\ Lacks(r, Old(c, l))
        /\ Before(Outs(c), Ins(c), q, r)
    BY <1>7 DEF Kept, Outside
  <2>2. w = l
    BY <1>2, <2>1, PacketKinds DEF h
  <2>3. Before(Outs(c), Ins(c), Tail(q), r \o ms)
    BY <2>1, BeforeMoved
  <2> QED
    BY <1>2, <1>3, <2>1, <2>2, <2>3 DEF Outside
<1> QED
  BY <1>5, <1>6, <1>7 DEF Kept, Parting, Outside

LEMMA KeptSent ==
  ASSUME NEW c \in Char, NEW q \in Seq(FromMapMsg), NEW r \in Seq(ToMapMsg), NEW v, NEW l,
         NEW p, NEW n, Kept(c, q, r, v, l, p, n),
         NEW ms \in Seq(ToMapMsg), Lacks(ms, Ins(c)), Lacks(ms, Outs(c))
  PROVE  Kept(c, q, r \o ms, v, l, p, n)
<1>1. Lacks(ms, Old(c, l)) /\ Lacks(ms, Early(c, l))
  BY AnswerLacks
<1>2. /\ Lacks(r \o ms, Outs(c)) <=> Lacks(r, Outs(c))
      /\ Lacks(r \o ms, Old(c, l)) <=> Lacks(r, Old(c, l))
  BY <1>1, LacksJoined
<1>3. /\ Before(Early(c, l), Outs(c), q, r) => Before(Early(c, l), Outs(c), q, r \o ms)
      /\ Before(Outs(c), Ins(c), q, r) => Before(Outs(c), Ins(c), q, r \o ms)
  BY <1>1, BeforeSent
<1> QED
  BY <1>2, <1>3 DEF Kept, Inside, Parting, Outside, Entering, NoOuts

\* A link that breaks, and a new one, with r2 the ack of the new one.
LEMMA KeptCut ==
  ASSUME NEW c \in Char, NEW q, NEW q2, NEW r, NEW r2, NEW v, NEW l, NEW p, NEW n,
         Kept(c, q, r, v, l, p, n), q2 \in {q, <<>>},
         Lacks(r2, Ins(c)), Lacks(r2, Outs(c)), Lacks(r2, Old(c, l))
  PROVE  Kept(c, q2, r2, v, l, p, n)
<1>1. \A A : Lacks(q, A) => Lacks(q2, A)
  BY DEF Lacks
<1>2. \A A, B : InOrder(q, A, B) => InOrder(q2, A, B)
  BY DEF InOrder
<1>3. /\ Before(Early(c, l), Outs(c), q, r) => Before(Early(c, l), Outs(c), q2, r2)
      /\ Before(Outs(c), Ins(c), q, r) => Before(Outs(c), Ins(c), q2, r2)
  BY <1>2 DEF Before, InOrder, Lacks
<1> QED
  BY <1>1, <1>3 DEF Kept, Inside, Parting, Outside, Entering, NoOuts

\* A map server takes the first packet of r.
LEMMA KeptTaken ==
  ASSUME NEW c \in Char, NEW q \in Seq(FromMapMsg), NEW r \in Seq(ToMapMsg), r # <<>>, NEW v, NEW l,
         NEW p, NEW n, Kept(c, q, r, v, l, p, n)
  PROVE  Kept(c, q, Tail(r), v, l, p, n)
<1>1. \A A : Lacks(r, A) => Lacks(Tail(r), A)
  BY LacksTail
<1>2. /\ Before(Early(c, l), Outs(c), q, r) => Before(Early(c, l), Outs(c), q, Tail(r))
      /\ Before(Outs(c), Ins(c), q, r) => Before(Outs(c), Ins(c), q, Tail(r))
  BY BeforeTaken
<1> QED
  BY <1>1, <1>2 DEF Kept, Inside, Parting, Outside, Entering, NoOuts

\* A map server writes ms, and neither a player nor a node on its way out is moved.
Same(p, n, p2, n2) ==
  /\ p2 = NoUser <=> p = NoUser
  /\ p # NoUser => p2.cid = p.cid /\ p2.rec = p.rec
  /\ \/ n2 = n
     \/ /\ n = NoUser \/ n.state # "ST_LOGOUT"
        /\ n2 = NoUser \/ (n2.state = "ST_LOGIN" /\ n2.rec = NoUser)
Harmless(ms, c, l, n) ==
  /\ Lacks(ms, Old(c, l))
  /\ OnWayOut(n, c) => Lacks(ms, Ins(c))
  /\ ~OnWayOut(n, c) => Lacks(ms, Outs(c))

LEMMA KeptWritten ==
  ASSUME NEW c \in Char, NEW q \in Seq(FromMapMsg), NEW r \in Seq(ToMapMsg), NEW v, NEW l,
         NEW p, NEW n, Kept(c, q, r, v, l, p, n), NEW p2, NEW n2, Same(p, n, p2, n2),
         InWorld(p, c) => n = NoUser,
         NEW ms \in Seq(FromMapMsg), Harmless(ms, c, l, n)
  PROVE  Kept(c, q, r, v, l, p2, n2) /\ Kept(c, q \o ms, r, v, l, p2, n2)
<1> SUFFICES ASSUME NEW q2 \in {q, q \o ms} PROVE Kept(c, q2, r, v, l, p2, n2)
  OBVIOUS
<1>1. /\ InWorld(p2, c) <=> InWorld(p, c)
      /\ InWorld(p, c) => p2.rec = p.rec
      /\ OnWayOut(n2, c) <=> OnWayOut(n, c)
      /\ OnWayOut(n, c) => n2 = n
      /\ OnWayIn(n2, c) => n2 = n
  BY DEF Same, InWorld, OnWayOut, OnWayIn
<1>2. /\ Lacks(q \o ms, Outs(c)) <=> Lacks(q, Outs(c)) /\ Lacks(ms, Outs(c))
      /\ Lacks(q \o ms, Old(c, l)) <=> Lacks(q, Old(c, l)) /\ Lacks(ms, Old(c, l))
  BY LacksJoined
<1>3. ASSUME OnWayOut(n, c) PROVE Parting(c, q2, r, v, l, n2)
  <2>1. Lacks(ms, Early(c, l))
    BY <1>3, LacksEither DEF Harmless, Early
  <2>2. Before(Early(c, l), Outs(c), q, r) => Before(Early(c, l), Outs(c), q \o ms, r)
    BY <2>1, BeforeWritten
  <2>3. Before(Early(c, l), Outs(c), q, r) => Before(Early(c, l), Outs(c), q2, r)
    BY <2>2
  <2> QED
    BY <1>1, <1>3, <2>3 DEF Kept, Parting
<1>4. ASSUME ~OnWayOut(n, c)
      PROVE  /\ Inside(c, q2, r, l, p2) /\ Entering(c, q2, r, l, n2)
             /\ Outside(c, q2, r, v, l, p2, n2)
  <2>1. Lacks(ms, Outs(c))
    BY <1>4 DEF Harmless
  <2>2. Before(Outs(c), Ins(c), q, r) => Before(Outs(c), Ins(c), q2, r)
    <3>1. Before(Outs(c), Ins(c), q, r) => Before(Outs(c), Ins(c), q \o ms, r)
      BY <2>1, BeforeWritten
    <3> QED
      BY <3>1
  <2>3. /\ Lacks(q, Outs(c)) => Lacks(q2, Outs(c))
        /\ Lacks(q, Old(c, l)) => Lacks(q2, Old(c, l))
    BY <1>2, <2>1 DEF Harmless
  <2> QED
    BY <1>1, <1>4, <2>2, <2>3 DEF Kept, Inside, Entering, Outside, NoOuts
<1>5. OnWayOut(n, c) => ~InWorld(p, c) /\ ~OnWayIn(n, c)
  BY DEF OnWayOut, OnWayIn, InWorld
<1> QED
  BY <1>1, <1>3, <1>4, <1>5 DEF Kept, Inside, Entering, Outside, Parting, OnWayIn

\* chrif_authok: the record a waiting node takes is the newest.
LEMMA KeptEntering ==
  ASSUME NEW c \in Char, NEW q \in Seq(FromMapMsg), NEW r \in Seq(ToMapMsg), NEW v, NEW l,
         NEW n, n # NoUser, n.state = "ST_LOGIN", Kept(c, q, r, v, l, NoUser, n),
         r # <<>>, Head(r).cmd = "authok", Head(r).cid = n.cid,
         NEW n2, n2 # NoUser, n2.state = "ST_LOGIN", n2.cid = n.cid, n2.rec.ver = Head(r).rec.ver
  PROVE  Kept(c, q, Tail(r), v, l, NoUser, n2)
<1>1. Kept(c, q, Tail(r), v, l, NoUser, n)
  BY KeptTaken
<1>2. ~OnWayOut(n, c) /\ ~OnWayOut(n2, c) /\ ~InWorld(NoUser, c)
  BY DEF OnWayOut, InWorld
<1>3. ASSUME OnWayIn(n2, c) PROVE Entering(c, q, Tail(r), l, n2)
  <2>1. /\ Lacks(r, Old(c, l)) /\ Before(Outs(c), Ins(c), q, r)
    BY <1>2 DEF Kept, Outside
  <2>2. Head(r) \in ToMapMsg
    BY HeadTailProperties
  <2>3. Head(r) \in Ins(c) /\ Head(r).cid = c
    BY <1>3, <2>2 DEF OnWayIn, Ins
  <2>4. Head(r).rec.ver = l
    BY <2>1, <2>2, <2>3, LacksTail DEF Old
  <2>5. Lacks(q, Outs(c)) /\ Lacks(r, Outs(c))
    BY <2>1, <2>3, BeforeHead
  <2> QED
    BY <2>4, <2>5, LacksTail DEF Entering, NoOuts
<1> QED
  BY <1>1, <1>2, <1>3 DEF Kept, Inside, Parting, Outside, Entering

\* pc_reg_received
LEMMA KeptReceived ==
  ASSUME NEW c \in Char, NEW q, NEW r, NEW v, NEW l, NEW n, n # NoUser, n.state = "ST_LOGIN",
         n.rec # NoUser, Kept(c, q, r, v, l, NoUser, n),
         NEW p2, p2 # NoUser, p2.cid = n.cid, p2.rec = n.rec
  PROVE  Kept(c, q, r, v, l, p2, NoUser)
BY DEF Kept, Inside, Parting, Outside, Entering, InWorld, OnWayOut, OnWayIn

\* What a player does is the newest progress.
LEMMA KeptPlayed ==
  ASSUME NEW c \in Char, NEW q, NEW r, NEW v, NEW l, NEW p, p # NoUser, p.cid = c,
         Kept(c, q, r, v, l, p, NoUser), NEW p2, p2 # NoUser, p2.cid = c
  PROVE  Kept(c, q, r, v, p2.rec.ver, p2, NoUser)
BY DEF Kept, Inside, Parting, Outside, Entering, InWorld, OnWayOut, OnWayIn

\* map_quit: the final save is sent, if there is a link, and the node has the record too.
LEMMA KeptQuit ==
  ASSUME NEW c \in Char, NEW q \in Seq(FromMapMsg), NEW r \in Seq(ToMapMsg), NEW v, NEW l,
         NEW p, p # NoUser, Kept(c, q, r, v, l, p, NoUser),
         NEW n2, n2 # NoUser, n2.state = "ST_LOGOUT", n2.cid = p.cid, n2.rec = p.rec,
         NEW x \in FromMapMsg, x.cmd = "save", x.cid = p.cid, x.rec = p.rec
  PROVE  Kept(c, q, r, v, l, NoUser, n2) /\ Kept(c, q \o <<x>>, r, v, l, NoUser, n2)
<1> SUFFICES ASSUME NEW q2 \in {q, q \o <<x>>} PROVE Kept(c, q2, r, v, l, NoUser, n2)
  OBVIOUS
<1>1. PICK ms \in Seq(FromMapMsg) : ms = <<x>> /\ \A A : Lacks(ms, A) <=> x \notin A
  BY OneLacks
<1>0. q2 \in {q, q \o ms}
  BY <1>1
<1>2. x \notin Ins(c)
  BY DEF Ins
<1>3. CASE p.cid = c
  <2>1. p.rec.ver = l /\ NoOuts(c, q, r)
    BY <1>3 DEF Kept, Inside, InWorld
  <2>2. x \notin Old(c, l)
    BY <2>1 DEF Old, Saves, ToMapMsg
  <2>3. Before(Early(c, l), Outs(c), q, r)
    BY <2>1, BeforeLacks DEF NoOuts
  <2>4. Lacks(ms, Early(c, l))
    BY <1>1, <1>2, <2>2 DEF Early
  <2>5. Before(Early(c, l), Outs(c), q \o ms, r)
    BY <2>3, <2>4, BeforeWritten
  <2> QED
    BY <1>0, <1>3, <2>1, <2>3, <2>5 DEF Kept, Inside, Parting, Outside, Entering, InWorld, OnWayOut, OnWayIn, NoOuts
<1>4. CASE p.cid # c
  <2>1. /\ v = l /\ Lacks(q, Old(c, l)) /\ Lacks(r, Old(c, l))
        /\ Before(Outs(c), Ins(c), q, r)
    BY <1>4 DEF Kept, Outside, InWorld, OnWayOut
  <2>2. x \notin Old(c, l) /\ x \notin Outs(c)
    BY <1>4 DEF Old, Outs, Saves, ToMapMsg
  <2>3. Lacks(ms, Old(c, l)) /\ Lacks(ms, Outs(c))
    BY <1>1, <2>2
  <2>4. Before(Outs(c), Ins(c), q \o ms, r) /\ Lacks(q \o ms, Old(c, l))
    BY <2>1, <2>3, BeforeWritten, LacksJoined
  <2> QED
    BY <1>0, <1>4, <2>1, <2>4 DEF Kept, Inside, Parting, Outside, Entering, InWorld, OnWayOut, OnWayIn
<1> QED
  BY <1>3, <1>4

\* chrif_save_ack
LEMMA KeptAcked ==
  ASSUME NEW c \in Char, NEW q \in Seq(FromMapMsg), NEW r \in Seq(ToMapMsg), NEW v, NEW l,
         NEW n, n # NoUser, n.state = "ST_LOGOUT", Kept(c, q, r, v, l, NoUser, n),
         r # <<>>, Head(r).cmd = "saveack", Head(r).cid = n.cid
  PROVE  Kept(c, q, Tail(r), v, l, NoUser, NoUser)
<1>1. Kept(c, q, Tail(r), v, l, NoUser, n)
  BY KeptTaken
<1>2. CASE n.cid # c
  BY <1>1, <1>2 DEF Kept, Inside, Parting, Outside, Entering, InWorld, OnWayOut, OnWayIn
<1>3. CASE n.cid = c
  <2>1. Before(Early(c, l), Outs(c), q, r) /\ (Lacks(r, Outs(c)) \/ v = l)
    BY <1>3 DEF Kept, Parting, OnWayOut
  <2>2. Head(r) \in ToMapMsg
    BY HeadTailProperties
  <2>3. Head(r) \in Outs(c)
    BY <1>3, <2>2 DEF Outs
  <2>4. v = l
    BY <2>1, <2>3, LacksTail
  <2>5. Lacks(q, Early(c, l)) /\ Lacks(r, Early(c, l))
    BY <2>1, <2>3, BeforeHead
  <2>6. /\ Lacks(q, Ins(c)) /\ Lacks(q, Old(c, l))
        /\ Lacks(Tail(r), Ins(c)) /\ Lacks(Tail(r), Old(c, l))
    BY <2>5, LacksEither, LacksTail DEF Early
  <2>7. Before(Outs(c), Ins(c), q, Tail(r))
    BY <2>6, BeforeLacks
  <2> QED
    BY <2>4, <2>6, <2>7 DEF Kept, Inside, Parting, Outside, Entering, InWorld, OnWayOut, OnWayIn
<1> QED
  BY <1>2, <1>3

----------------------------------------------------------------------------
(* The same of every character, for the map server m. *)

MapsPackets == {p \in ToMapMsg : p.cmd = "maps"}

KeptAt(m, c) ==
  Kept(c, fromMap[m], toMap[m], sql[c].ver, latest[c], pc[m][AccountOf[c]], auth_node[m][AccountOf[c]])
\* Players and nodes are of the account they are found under, and nobody moves to
\* another map server: m knows the maps of none.
RowOwned(a, p, n) ==
  /\ p # NoUser => AccountOf[p.cid] = a /\ n = NoUser
  /\ n # NoUser => AccountOf[n.cid] = a /\ n.state # "ST_MAPCHANGE"
Owned(m) == \A a \in Account : RowOwned(a, pc[m][a], auth_node[m][a])
Alone(m)   == ipport[m] = {} /\ Lacks(toMap[m], MapsPackets)
Settled(m) == Owned(m) /\ Alone(m) /\ \A c \in Char : KeptAt(m, c)

LEMMA MembersLack ==
  ASSUME NEW S, NEW ms \in Seq(S), NEW A, \A x \in S : x \notin A
  PROVE  Lacks(ms, A)
<1>1. \A i \in DOMAIN ms : ms[i] \in S
  OBVIOUS
<1> QED
  BY <1>1 DEF Lacks

LEMMA PlainLacks ==
  ASSUME NEW ms \in Seq(Plain), NEW c
  PROVE  /\ ms \in Seq(ToMapMsg)
         /\ Lacks(ms, Ins(c)) /\ Lacks(ms, Outs(c)) /\ Lacks(ms, MapsPackets)
<1>1. Plain \subseteq ToMapMsg
  BY DEF Plain
<1>2. \A x \in Plain : x \notin Ins(c) /\ x \notin Outs(c) /\ x \notin MapsPackets
  BY DEF Plain, Ins, Outs, Saves, MapsPackets, ToMapMsg, FromMapMsg
<1> QED
  BY <1>1, <1>2, MembersLack, SeqMonotonic

LEMMA Queues ==
  ASSUME CharMapInv, NEW m \in MapServer
  PROVE  fromMap[m] \in Seq(FromMapMsg) /\ toMap[m] \in Seq(ToMapMsg)
BY DEF CharMapInv, CharInv, TypeRest, ToMapQueues

\* The char server sends what lets nobody in and frees nobody.
LEMMA SentSettled ==
  ASSUME CharMapInv, NEW m \in MapServer, Settled(m), UNCHANGED <<mapVars, fromMap, sql>>,
         Appends(Plain, toMap', toMap)
  PROVE  Settled(m)'
<1>1. PICK ms \in Seq(Plain) : toMap'[m] = toMap[m] \o ms
  BY DEF Appends
<1>2. fromMap[m] \in Seq(FromMapMsg) /\ toMap[m] \in Seq(ToMapMsg) /\ ms \in Seq(ToMapMsg)
      /\ Lacks(ms, MapsPackets)
  BY PlainLacks, Queues
<1>3. Owned(m)'
  BY DEF Settled, Owned, RowOwned, mapVars
<1>4. Alone(m)'
  BY <1>1, <1>2, LacksJoined DEF Settled, Alone, mapVars
<1>5. ASSUME NEW c \in Char PROVE KeptAt(m, c)'
  <2>1. Kept(c, fromMap[m], toMap[m], sql[c].ver, latest[c], pc[m][AccountOf[c]], auth_node[m][AccountOf[c]])
    BY DEF Settled, KeptAt
  <2>2. Kept(c, fromMap[m], toMap[m] \o ms, sql[c].ver, latest[c], pc[m][AccountOf[c]], auth_node[m][AccountOf[c]])
    BY <1>2, <2>1, PlainLacks, KeptSent
  <2> QED
    BY <1>1, <2>2 DEF KeptAt, mapVars
<1> QED
  BY <1>3, <1>4, <1>5 DEF Settled

\* What the char server answers a packet of m, when there is no other map server.
Answers(m) == Plain \cup {MapAck} \cup AuthOks(m) \cup SaveAcks(m)

LEMMA AnswersType ==
  ASSUME NEW m, NEW ms \in Seq(Answers(m))
  PROVE  ms \in Seq(ToMapMsg) /\ Lacks(ms, MapsPackets)
<1>1. Answers(m) \subseteq ToMapMsg
  BY DEF Answers, Plain, AuthOks, SaveAcks, MapAck, ToMapMsg
<1>2. \A x \in Answers(m) : x \notin MapsPackets
  BY DEF Answers, Plain, AuthOks, SaveAcks, MapAck, MapsPackets
<1> QED
  BY <1>1, <1>2, MembersLack, SeqMonotonic

LEMMA AnswersFit ==
  ASSUME CharMapInv, NEW m \in MapServer, Msg(m) \in FromMapMsg, NEW c \in Char, NEW ms \in Seq(Answers(m))
  PROVE  /\ Msg(m) \notin Ins(c) => Lacks(ms, Ins(c))
         /\ Msg(m) \notin Outs(c) => Lacks(ms, Outs(c))
         /\ \A l : sql[c].ver = l => Lacks(ms, Old(c, l))
<1>1. Answers(m) \subseteq ToMapMsg
  BY DEF Answers, Plain, AuthOks, SaveAcks, MapAck, ToMapMsg
<1>3. \A x \in Answers(m) : x \in Ins(c) => Msg(m) \in Ins(c)
  <2>1. ASSUME NEW x \in Answers(m), x \in Ins(c) PROVE x \in AuthOks(m) /\ x.cid = c
    <3>1. x \in ToMapMsg
      BY <1>1
    <3>2. x.cmd = "authok" /\ x.cid = c
      BY <2>1, <3>1 DEF Ins, ToMapMsg
    <3> QED
      BY <3>1, <3>2 DEF Answers, Plain, SaveAcks, MapAck
  <2> QED
    BY <2>1 DEF AuthOks, Ins
<1>4. \A x \in Answers(m) : x \in Outs(c) => Msg(m) \in Outs(c)
  <2>1. ASSUME NEW x \in Answers(m), x \in Outs(c) PROVE x \in SaveAcks(m) /\ x.cid = c
    <3>1. x \in ToMapMsg
      BY <1>1
    <3>2. x.cmd = "saveack" /\ x.cid = c
      BY <2>1, <3>1 DEF Outs, Saves, ToMapMsg, FromMapMsg
    <3> QED
      BY <3>1, <3>2 DEF Answers, Plain, AuthOks, MapAck
  <2> QED
    BY <2>1 DEF SaveAcks, Outs, Saves
<1>5. \A x \in Answers(m) : x \in Old(c, sql[c].ver) => FALSE
  <2> SUFFICES ASSUME NEW x \in Answers(m), x \in Old(c, sql[c].ver) PROVE FALSE
    OBVIOUS
  <2>1. x \in ToMapMsg
    BY <1>1
  <2>2. x.cmd = "authok" /\ x.cid = c /\ x.rec.ver # sql[c].ver
    BY <2>1 DEF Old, Saves, ToMapMsg, FromMapMsg
  <2>3. x.rec = Loaded(c)
    BY <2>1, <2>2 DEF Answers, Plain, SaveAcks, MapAck, AuthOks
  <2>4. Loaded(c).ver = sql[c].ver
    BY DEF Loaded, CharMapInv, CharInv, CacheIsCurrent
  <2> QED
    BY <2>2, <2>3, <2>4
<1> HIDE DEF Answers
<1> QED
  BY <1>3, <1>4, <1>5, MembersLack

\* chmapif_parse_reqsavechar: SQL has the progress of the packet, or is not touched.
LEMMA SavedVersion ==
  ASSUME CharMapInv, NEW m \in MapServer, ParseMap(m), NEW c \in Char
  PROVE  /\ \/ sql'[c].ver = sql[c].ver
            \/ Msg(m) \in Saves(c) /\ sql'[c].ver = Msg(m).rec.ver
         /\ Msg(m) \in Outs(c) => sql'[c].ver = Msg(m).rec.ver
<1>1. Msg(m) \in FromMapMsg
  BY ReceiveRest DEF ParseMap, ParseGetMapName, ParseRegMapUser, ParseReqSaveChar, ParseAuthOk,
     ParseReqChangeMapServ, ParseSetCharOffline, ParseSetCharOnline, ParseReqAuth, ParseSetAllOffline,
     CharMapInv
<1>2. CASE ParseReqSaveChar(m)
  <2> DEFINE p == Msg(m)
  <2>1. p.cmd = "save" /\ p.cid \in Char /\ p.rec \in Record
    BY <1>1, <1>2, SaveMsgFields DEF ParseReqSaveChar, Receive, Msg
  <2>2. sql \in [Char -> Record]
    BY DEF CharMapInv, CharInv, TypeRest
  <2>3. CASE Accepted(p)
    <3>1. sql' = [sql EXCEPT ![p.cid] = p.rec] \/ (sql' = sql /\ cache[p.cid] = p.rec)
      BY <1>2, <2>3 DEF ParseReqSaveChar, ToSql
    <3>2. sql'[p.cid].ver = p.rec.ver
      <4>1. NoUser \notin Record
        BY NoUserAssumption
      <4> QED
        BY <2>1, <2>2, <3>1, <4>1 DEF CharMapInv, CharInv, CacheIsCurrent
    <3>3. c # p.cid => sql'[c] = sql[c]
      BY <2>1, <2>2, <3>1
    <3> QED
      BY <1>1, <2>1, <3>2, <3>3 DEF Saves, Outs, ToMapMsg
  <2>4. CASE ~Accepted(p)
    <3>1. sql' = sql /\ ~p.quit
      BY <1>2, <2>4 DEF ParseReqSaveChar, Accepted
    <3> QED
      BY <1>1, <2>1, <3>1 DEF Outs, Saves, ToMapMsg
  <2> QED
    BY <2>3, <2>4
<1>3. CASE ~ParseReqSaveChar(m)
  <2>1. sql' = sql
    BY <1>3 DEF ParseMap, ParseGetMapName, ParseRegMapUser, ParseAuthOk, ParseReqChangeMapServ,
                ParseSetCharOffline, ParseSetCharOnline, ParseReqAuth, ParseSetAllOffline
  <2>2. Msg(m).cmd # "save"
    BY <1>3 DEF ParseMap, ParseGetMapName, ParseRegMapUser, ParseAuthOk, ParseReqChangeMapServ,
                ParseSetCharOffline, ParseSetCharOnline, ParseReqAuth, ParseSetAllOffline, Receive, Msg
  <2> QED
    BY <1>1, <2>1, <2>2 DEF Outs, Saves, ToMapMsg, FromMapMsg
<1> QED
  BY <1>2, <1>3

LEMMA AnsweredSettled ==
  ASSUME CharMapInv, NEW m \in MapServer, Settled(m), ParseMap(m), UNCHANGED mapVars,
         Appends(Answers(m), toMap', toMap)
  PROVE  Settled(m)'
<1>1. PICK cmd : Receive(m, cmd)
  BY DEF ParseMap, ParseGetMapName, ParseRegMapUser, ParseReqSaveChar, ParseAuthOk,
         ParseReqChangeMapServ, ParseSetCharOffline, ParseSetCharOnline, ParseReqAuth,
         ParseSetAllOffline
<1>2. /\ Msg(m) \in FromMapMsg /\ fromMap[m] # <<>>
      /\ fromMap'[m] = Tail(fromMap[m])
  BY <1>1, ReceiveRest DEF Receive, CharMapInv, CharInv, TypeRest
<1>3. PICK ms \in Seq(Answers(m)) : toMap'[m] = toMap[m] \o ms
  BY DEF Appends
<1>4. fromMap[m] \in Seq(FromMapMsg) /\ toMap[m] \in Seq(ToMapMsg)
  BY Queues
<1>5. Owned(m)'
  BY DEF Settled, Owned, RowOwned, mapVars
<1>6. ms \in Seq(ToMapMsg) /\ Lacks(ms, MapsPackets)
  BY AnswersType
<1>7. ASSUME NEW c \in Char PROVE KeptAt(m, c)'
  <2> DEFINE p == pc[m][AccountOf[c]]
             n == auth_node[m][AccountOf[c]]
  <2>1. Kept(c, fromMap[m], toMap[m], sql[c].ver, latest[c], p, n)
    BY DEF Settled, KeptAt
  <2>2. /\ Msg(m) \notin Ins(c) => Lacks(ms, Ins(c))
        /\ Msg(m) \notin Outs(c) => Lacks(ms, Outs(c))
        /\ sql[c].ver = latest[c] => Lacks(ms, Old(c, latest[c]))
    BY <1>2, AnswersFit
  <2>3. /\ \/ sql'[c].ver = sql[c].ver
           \/ Msg(m) \in Saves(c) /\ sql'[c].ver = Msg(m).rec.ver
        /\ Msg(m) \in Outs(c) => sql'[c].ver = Msg(m).rec.ver
    BY SavedVersion
  <2> HIDE DEF p, n
  <2>4. Kept(c, Tail(fromMap[m]), toMap[m] \o ms, sql'[c].ver, latest[c], p, n)
    BY <1>2, <1>4, <1>6, <2>1, <2>2, <2>3, KeptMoved DEF Msg
  <2> QED
    BY <1>2, <1>3, <2>4 DEF KeptAt, mapVars, p, n
<1> QED
  BY <1>3, <1>4, <1>5, <1>6, <1>7, LacksJoined DEF Settled, Alone, mapVars

LEMMA MapNameAnswered ==
  ASSUME CharMapInv, NEW m \in MapServer, MapServer = {m}, ParseGetMapName(m)
  PROVE  Appends(Answers(m), toMap', toMap)
<1>1. KnownMaps(m) = {}
  BY DEF KnownMaps, CharMapInv, CharInv, TypeRest
<1>2. PICK order \in Orders({}) :
        toMap'[m] = toMap[m] \o <<[cmd |-> "mapack"]>>
                      \o [i \in DOMAIN order |-> [cmd |-> "maps", of |-> order[i]]]
  BY <1>1 DEF ParseGetMapName
<1>3. DOMAIN order = {}
  <2>1. order \in Seq({}) /\ DOMAIN order = 1 .. Len(order)
    BY FS_EmptySet, OrdersType
  <2> QED
    BY <2>1
<1>4. PICK ack \in Seq(Answers(m)) : ack = <<[cmd |-> "mapack"]>>
  <2>1. MapAck \in Answers(m)
    BY DEF Answers
  <2>2. <<MapAck>> \in Seq(Answers(m))
    BY <2>1
  <2> QED
    BY <2>2 DEF MapAck
<1>5. [i \in DOMAIN order |-> [cmd |-> "maps", of |-> order[i]]] = <<>>
  BY <1>3
<1>6. ack \in Seq(ToMapMsg) /\ toMap[m] \in Seq(ToMapMsg)
  BY <1>4, AnswersType, Queues
<1>7. toMap[m] \o ack \in Seq(ToMapMsg)
  BY <1>6, ConcatProperties
<1>8. (toMap[m] \o ack) \o <<>> = toMap[m] \o ack
  BY <1>7, ConcatEmptySeq
<1> QED
  BY <1>2, <1>4, <1>5, <1>8 DEF Appends

\* The char server, when m is its only map server.
LEMMA CharSettled ==
  ASSUME CharMapInv, NEW m \in MapServer, MapServer = {m}, Settled(m), CharStep
  PROVE  Settled(m)'
<1>1. UNCHANGED mapVars
  BY DEF CharStep, ByChar
<1>2. ASSUME NEW f \in Fd, Connects(f) \/ Selects(f) PROVE Settled(m)'
  <2>1. UNCHANGED <<fromMap, sql>>
    BY <1>2 DEF Connects, ParseReqToConnect, ClientHangsUp, ClientClosed, Selects,
                ParseCharSelect, ParseSelectAccessibleMap, Selected, linkVars
  <2> QED
    BY <1>1, <1>2, <2>1, ClientAppends, SentSettled DEF CharMapInv
<1>3. CASE ParseLogin \/ Timers
  <2>1. UNCHANGED <<fromMap, sql>>
    BY <1>3 DEF ParseLogin, ParseAckAccReq, ParseAskKick, LoginLinkLost, CheckConnectLogServer,
                Timers, WaitingDisconnect, OnlineDataCleanup, linkVars
  <2> QED
    BY <1>1, <1>3, <2>1, LoginAppends, SentSettled DEF CharMapInv
<1>4. CASE ParseMap(m)
  <2>1. Appends(Answers(m), toMap', toMap)
    <3>1. ASSUME NEW S, S \subseteq Answers(m), Appends(S, toMap', toMap)
          PROVE  Appends(Answers(m), toMap', toMap)
      BY <3>1, SeqMonotonic DEF Appends
    <3>2. /\ Plain \subseteq Answers(m)
          /\ Plain \cup AuthOks(m) \subseteq Answers(m) /\ Plain \cup SaveAcks(m) \subseteq Answers(m)
      BY DEF Answers
    <3>3. CASE ParseReqAuth(m)
      BY <3>1, <3>2, <3>3, ReqAuthAppends DEF CharMapInv
    <3>4. CASE ParseReqSaveChar(m)
      BY <3>1, <3>2, <3>4, SaveAppends DEF CharMapInv
    <3>5. CASE ~ParseReqAuth(m) /\ ~ParseReqSaveChar(m) /\ ~ParseGetMapName(m)
      <4>1. Appends(Plain, toMap', toMap)
        BY <1>4, <3>5, PlainPacketAppends DEF ParseMap, CharMapInv
      <4> QED
        BY <3>1, <3>2, <4>1
    <3> QED
      BY <3>3, <3>4, <3>5, MapNameAnswered
  <2> QED
    BY <1>1, <1>4, <2>1, AnsweredSettled
<1> QED
  BY <1>2, <1>3, <1>4 DEF CharStep, Timers

\* Map server m: what it takes, tk, and writes, ms, when nobody is moved.
Wrote(m, ms) == fromMap'[m] \in {fromMap[m], fromMap[m] \o ms}
Took(m)      == toMap'[m] = toMap[m] \/ (toMap[m] # <<>> /\ toMap'[m] = Tail(toMap[m]))
Stays(m, a)  == Same(pc[m][a], auth_node[m][a], pc'[m][a], auth_node'[m][a])

\* x lets nobody in who is going, frees nobody who is not, and carries no older record.
Fits(m, x) ==
  \A c \in Char :
    /\ x \notin Old(c, latest[c])
    /\ OnWayOut(auth_node[m][AccountOf[c]], c) => x \notin Ins(c)
    /\ ~OnWayOut(auth_node[m][AccountOf[c]], c) => x \notin Outs(c)
AllFit(m, ms) == \A i \in DOMAIN ms : Fits(m, ms[i])

LEMMA TookKeeps ==
  ASSUME CharMapInv, NEW m \in MapServer, Took(m), NEW c \in Char, NEW v, NEW l, NEW p, NEW n,
         Kept(c, fromMap[m], toMap[m], v, l, p, n)
  PROVE  Kept(c, fromMap[m], toMap'[m], v, l, p, n)
<1>1. fromMap[m] \in Seq(FromMapMsg) /\ toMap[m] \in Seq(ToMapMsg)
  BY Queues
<1> QED
  BY <1>1, KeptTaken DEF Took

LEMMA TookAlone ==
  ASSUME CharMapInv, NEW m \in MapServer, Took(m), Alone(m), ipport'[m] \in {ipport[m], {}}
  PROVE  Alone(m)'
<1>1. toMap[m] \in Seq(ToMapMsg)
  BY Queues
<1>2. Lacks(toMap'[m], MapsPackets)
  BY <1>1, LacksTail DEF Took, Alone
<1> QED
  BY <1>2 DEF Alone

LEMMA WrittenSettled ==
  ASSUME CharMapInv, NEW m \in MapServer, Settled(m), UNCHANGED <<sql, latest>>,
         ipport'[m] \in {ipport[m], {}},
         NEW ms \in Seq(FromMapMsg), Wrote(m, ms), AllFit(m, ms), Took(m),
         \A a \in Account : Stays(m, a), Owned(m)'
  PROVE  Settled(m)'
<1>1. Alone(m)'
  BY TookAlone DEF Settled
<1>2. fromMap[m] \in Seq(FromMapMsg) /\ toMap'[m] \in Seq(ToMapMsg)
  <2>1. PICK r \in Seq(ToMapMsg) : r = toMap[m] /\ fromMap[m] \in Seq(FromMapMsg)
    BY Queues
  <2>2. r # <<>> => Tail(r) \in Seq(ToMapMsg)
    BY HeadTailProperties
  <2> QED
    BY <2>1, <2>2 DEF Took
<1>3. ASSUME NEW c \in Char PROVE KeptAt(m, c)'
  <2> DEFINE p == pc[m][AccountOf[c]]
             n == auth_node[m][AccountOf[c]]
             p2 == pc'[m][AccountOf[c]]
             n2 == auth_node'[m][AccountOf[c]]
  <2>1. Kept(c, fromMap[m], toMap'[m], sql[c].ver, latest[c], p, n)
    BY TookKeeps DEF Settled, KeptAt
  <2>2. Harmless(ms, c, latest[c], n) /\ Same(p, n, p2, n2) /\ (InWorld(p, c) => n = NoUser)
    <3>1. Harmless(ms, c, latest[c], n)
      BY DEF AllFit, Fits, Harmless, Lacks
    <3> QED
      BY <3>1 DEF Stays, InWorld, Settled, Owned, RowOwned
  <2> HIDE DEF p, n, p2, n2
  <2>3. PICK q \in Seq(FromMapMsg), r \in Seq(ToMapMsg) : q = fromMap[m] /\ r = toMap'[m]
    BY <1>2
  <2>4. fromMap'[m] \in {q, q \o ms}
    BY <2>3 DEF Wrote
  <2>5. Kept(c, q, r, sql[c].ver, latest[c], p, n)
    BY <2>1, <2>3
  <2>6. Kept(c, q, r, sql[c].ver, latest[c], p2, n2) /\ Kept(c, q \o ms, r, sql[c].ver, latest[c], p2, n2)
    BY <2>2, <2>5, KeptWritten
  <2> QED
    BY <2>3, <2>4, <2>6 DEF KeptAt, p2, n2
<1> QED
  BY <1>1, <1>3 DEF Settled

LEMMA QuietSettled ==
  ASSUME CharMapInv, NEW m \in MapServer, Settled(m), UNCHANGED <<sql, latest>>,
         ipport'[m] \in {ipport[m], {}}, fromMap'[m] = fromMap[m], Took(m),
         \A a \in Account : Stays(m, a), Owned(m)'
  PROVE  Settled(m)'
<1>0. <<>> \in Seq(FromMapMsg)
  OBVIOUS
<1>1. PICK ms \in Seq(FromMapMsg) : ms = <<>>
  BY <1>0
<1>2. AllFit(m, ms) /\ Wrote(m, ms)
  BY <1>1 DEF AllFit, Wrote
<1> QED
  BY <1>2, WrittenSettled

\* Map server m changes at most the player and the node of account a, and writes at most x.
RowBecomes(m, a, p, n) ==
  /\ pc'[m] = [pc[m] EXCEPT ![a] = p]
  /\ auth_node'[m] = [auth_node[m] EXCEPT ![a] = n]

LEMMA RowStays ==
  ASSUME CharMapInv, NEW m \in MapServer, Settled(m), NEW a \in Account, NEW p, NEW n,
         RowBecomes(m, a, p, n), Same(pc[m][a], auth_node[m][a], p, n), RowOwned(a, p, n)
  PROVE  (\A b \in Account : Stays(m, b)) /\ Owned(m)'
<1>1. pc[m] \in [Account -> Players] /\ auth_node[m] \in [Account -> Nodes]
  BY DEF CharMapInv, WorldType
<1>2. /\ pc'[m][a] = p /\ auth_node'[m][a] = n
      /\ \A b \in Account \ {a} : pc'[m][b] = pc[m][b] /\ auth_node'[m][b] = auth_node[m][b]
  BY <1>1 DEF RowBecomes
<1>3. \A b \in Account : Stays(m, b)
  BY <1>2 DEF Stays, Same
<1>4. ASSUME NEW b \in Account PROVE RowOwned(b, pc'[m][b], auth_node'[m][b])
  BY <1>2 DEF Settled, Owned
<1> QED
  BY <1>3, <1>4 DEF Owned

LEMMA RowQuiet ==
  ASSUME CharMapInv, NEW m \in MapServer, Settled(m), UNCHANGED <<sql, latest>>,
         ipport'[m] \in {ipport[m], {}}, fromMap'[m] = fromMap[m], Took(m),
         NEW a \in Account, NEW p, NEW n, RowBecomes(m, a, p, n),
         Same(pc[m][a], auth_node[m][a], p, n), RowOwned(a, p, n)
  PROVE  Settled(m)'
BY RowStays, QuietSettled

LEMMA RowWrites ==
  ASSUME CharMapInv, NEW m \in MapServer, Settled(m), UNCHANGED <<sql, latest>>,
         ipport'[m] \in {ipport[m], {}}, Took(m),
         NEW a \in Account, NEW p, NEW n, RowBecomes(m, a, p, n),
         Same(pc[m][a], auth_node[m][a], p, n), RowOwned(a, p, n),
         NEW x \in FromMapMsg, Fits(m, x),
         fromMap' = fromMap \/ fromMap' \in {Written(m, <<x>>), IfConnected(m, <<x>>)}
  PROVE  Settled(m)'
<1>1. (\A b \in Account : Stays(m, b)) /\ Owned(m)'
  BY RowStays
<1>0. <<x>> \in Seq(FromMapMsg)
  OBVIOUS
<1>2. PICK ms \in Seq(FromMapMsg) : ms = <<x>>
  BY <1>0
<1>3. AllFit(m, ms)
  BY <1>2 DEF AllFit
<1>4. Wrote(m, ms)
  BY <1>2 DEF Wrote, Written, IfConnected, CharMapInv, CharInv, TypeRest
<1> QED
  BY <1>1, <1>3, <1>4, WrittenSettled

\* What most packets are, and a save.
LEMMA OtherFits ==
  ASSUME NEW m, NEW x \in FromMapMsg, x.cmd \notin {"save", "reqauth"}
  PROVE  Fits(m, x)
BY DEF Fits, Old, Ins, Outs, Saves, FromMapMsg, ToMapMsg

LEMMA SaveFits ==
  ASSUME NEW m, NEW a \in Account, NEW y, y.cid \in Char, y.rec \in Record, AccountOf[y.cid] = a,
         y.rec.ver = latest[y.cid], NEW quit \in BOOLEAN, quit => OnWayOut(auth_node[m][a], y.cid)
  PROVE  SaveMsg(a, y, quit) \in FromMapMsg /\ Fits(m, SaveMsg(a, y, quit))
<1> DEFINE x == SaveMsg(a, y, quit)
<1>1. x \in FromMapMsg
  BY DEF SaveMsg, FromMapMsg
<1>2. x.cmd = "save" /\ x.cid = y.cid /\ x.rec = y.rec /\ x.quit = quit
  BY DEF SaveMsg
<1> HIDE DEF x
<1>3. Fits(m, x)
  BY <1>1, <1>2 DEF Fits, Old, Ins, Outs, Saves, ToMapMsg
<1> QED
  BY <1>1, <1>3 DEF x

\* The player, the node, or both of one account are replaced.
LEMMA RowIs ==
  ASSUME CharMapInv, NEW m \in MapServer, NEW a \in Account, NEW p, NEW n
  PROVE  /\ pc' = pc /\ auth_node' = [auth_node EXCEPT ![m][a] = n] =>
              RowBecomes(m, a, pc[m][a], n)
         /\ pc' = [pc EXCEPT ![m][a] = p] /\ auth_node' = auth_node =>
              RowBecomes(m, a, p, auth_node[m][a])
         /\ pc' = [pc EXCEPT ![m][a] = p] /\ auth_node' = [auth_node EXCEPT ![m][a] = n] =>
              RowBecomes(m, a, p, n)
         /\ pc' = pc /\ auth_node' = auth_node => RowBecomes(m, a, pc[m][a], auth_node[m][a])
<1>1. pc \in [MapServer -> [Account -> Players]] /\ auth_node \in [MapServer -> [Account -> Nodes]]
  BY DEF CharMapInv, WorldType
<1> QED
  BY <1>1 DEF RowBecomes

RowKept(m, a, p, n) ==
  \A c \in Char : AccountOf[c] = a =>
    Kept(c, fromMap'[m], toMap'[m], sql[c].ver, latest'[c], p, n)
OthersFit(m, a, ms) ==
  \A c \in Char : AccountOf[c] # a =>
    Harmless(ms, c, latest[c], auth_node[m][AccountOf[c]]) /\ latest'[c] = latest[c]

LEMMA RowMoves ==
  ASSUME CharMapInv, NEW m \in MapServer, Settled(m), UNCHANGED sql, ipport'[m] \in {ipport[m], {}},
         Took(m), NEW a \in Account, NEW p, NEW n, RowBecomes(m, a, p, n), RowOwned(a, p, n),
         RowKept(m, a, p, n),
         NEW ms \in Seq(FromMapMsg), Wrote(m, ms), OthersFit(m, a, ms)
  PROVE  Settled(m)'
<1>1. pc[m] \in [Account -> Players] /\ auth_node[m] \in [Account -> Nodes]
  BY DEF CharMapInv, WorldType
<1>2. /\ pc'[m][a] = p /\ auth_node'[m][a] = n
      /\ \A b \in Account \ {a} : pc'[m][b] = pc[m][b] /\ auth_node'[m][b] = auth_node[m][b]
  BY <1>1 DEF RowBecomes
<1>3. Owned(m)'
  <2>1. ASSUME NEW b \in Account PROVE RowOwned(b, pc'[m][b], auth_node'[m][b])
    BY <1>2 DEF Settled, Owned
  <2> QED
    BY <2>1 DEF Owned
<1>4. Alone(m)'
  BY TookAlone DEF Settled
<1>5. ASSUME NEW c \in Char, AccountOf[c] = a PROVE KeptAt(m, c)'
  BY <1>2, <1>5 DEF RowKept, KeptAt
<1>6. ASSUME NEW c \in Char, AccountOf[c] # a PROVE KeptAt(m, c)'
  <2> DEFINE b == AccountOf[c]
             p2 == pc[m][b]
             n2 == auth_node[m][b]
  <2>1. /\ pc'[m][b] = p2 /\ auth_node'[m][b] = n2
        /\ latest'[c] = latest[c] /\ Harmless(ms, c, latest[c], n2)
    BY <1>2, <1>6 DEF OthersFit
  <2>2. Kept(c, fromMap[m], toMap'[m], sql[c].ver, latest[c], p2, n2)
    BY TookKeeps DEF Settled, KeptAt
  <2>3. Same(p2, n2, p2, n2) /\ (InWorld(p2, c) => n2 = NoUser)
    BY DEF Same, InWorld, Settled, Owned, RowOwned
  <2>4. toMap'[m] \in Seq(ToMapMsg) /\ fromMap[m] \in Seq(FromMapMsg)
    <3>1. PICK r \in Seq(ToMapMsg) : r = toMap[m] /\ fromMap[m] \in Seq(FromMapMsg)
      BY Queues
    <3>2. r # <<>> => Tail(r) \in Seq(ToMapMsg)
      BY HeadTailProperties
    <3> QED
      BY <3>1, <3>2 DEF Took
  <2> HIDE DEF p2, n2
  <2>5. PICK q \in Seq(FromMapMsg), r \in Seq(ToMapMsg) : q = fromMap[m] /\ r = toMap'[m]
    BY <2>4
  <2>6. Kept(c, q, r, sql[c].ver, latest[c], p2, n2)
    BY <2>2, <2>5
  <2>7. Kept(c, q \o ms, r, sql[c].ver, latest[c], p2, n2)
    BY <2>1, <2>3, <2>6, KeptWritten
  <2>8. fromMap'[m] \in {q, q \o ms}
    BY <2>5 DEF Wrote
  <2> QED
    BY <2>1, <2>5, <2>6, <2>7, <2>8 DEF KeptAt
<1> QED
  BY <1>3, <1>4, <1>5, <1>6 DEF Settled

LEMMA NothingFits ==
  ASSUME NEW m, NEW a, \A c \in Char : AccountOf[c] # a => latest'[c] = latest[c]
  PROVE  <<>> \in Seq(FromMapMsg) /\ OthersFit(m, a, <<>>)
<1>1. <<>> \in Seq(FromMapMsg) /\ \A A : Lacks(<<>>, A)
  BY DEF Lacks
<1> QED
  BY <1>1 DEF OthersFit, Harmless

\* clif_parse_WantToConnection: the account has no node, so nobody is on his way out.
LEMMA EnterSettled ==
  ASSUME CharMapInv, NEW m \in MapServer, Settled(m), NEW c \in Char, NEW l \in Login,
         WantToConnection(m, c, l), ByMap
  PROVE  Settled(m)'
<1> DEFINE a == AccountOf[c]
           n == [state |-> "ST_LOGIN", cid |-> c, login |-> l, rec |-> NoUser]
           x == [cmd |-> "reqauth", aid |-> a, cid |-> c, login |-> l]
<1>1. /\ a \in Account /\ x \in FromMapMsg /\ x.cmd = "reqauth" /\ x.cid = c
      /\ n.state = "ST_LOGIN" /\ n.cid = c /\ n.rec = NoUser
  BY DEF FromMapMsg
<1>2. /\ pc[m][a] = NoUser /\ auth_node[m][a] = NoUser /\ pc' = pc
      /\ auth_node' = [auth_node EXCEPT ![m][a] = n]
      /\ fromMap' = Written(m, <<x>>) /\ toMap' = toMap /\ ipport' = ipport
      /\ UNCHANGED <<sql, latest>>
  BY DEF WantToConnection, ByMap, charVars
<1>3. n # NoUser
  BY DEF Node
<1> HIDE DEF x, n, a
<1>4. RowBecomes(m, a, pc[m][a], n)
  BY <1>1, <1>2, RowIs
<1>5. Same(pc[m][a], auth_node[m][a], pc[m][a], n) /\ RowOwned(a, pc[m][a], n)
  BY <1>1, <1>2 DEF Same, RowOwned, a
<1>6. Fits(m, x)
  BY <1>1, <1>2 DEF Fits, Old, Ins, Outs, Saves, ToMapMsg, OnWayOut, a
<1> QED
  BY <1>1, <1>2, <1>4, <1>5, <1>6, RowWrites DEF Took

\* chrif_save, chrif_charselectreq
LEMMA AskSettled ==
  ASSUME CharMapInv, NEW m \in MapServer, Settled(m), NEW a \in Account,
         Autosave(m, a) \/ CharSelectReq(m, a), ByMap
  PROVE  Settled(m)'
<1> DEFINE p == pc[m][a]
           n == auth_node[m][a]
<1>1. /\ pc' = pc /\ auth_node' = auth_node /\ toMap' = toMap /\ ipport' = ipport
      /\ UNCHANGED <<sql, latest>> /\ p # NoUser
  BY DEF Autosave, CharSelectReq, ByMap, charVars, mapVars
<1>2. /\ p.cid \in Char /\ p.rec \in Record /\ p.login \in Login
      /\ AccountOf[p.cid] = a /\ RowOwned(a, p, n)
  BY <1>1, PlayerFields DEF CharMapInv, Settled, Owned, RowOwned
<1>3. Same(p, n, p, n)
  BY DEF Same
<1>4. RowBecomes(m, a, p, n)
  BY <1>1, RowIs
<1>5. CASE Autosave(m, a)
  <2>1. p.rec.ver = latest[p.cid]
    BY <1>1, <1>2 DEF Settled, KeptAt, Kept, Inside, InWorld
  <2>2. PICK x \in FromMapMsg : x = SaveMsg(a, p, FALSE) /\ Fits(m, x)
    BY <1>2, <2>1, SaveFits
  <2>3. fromMap' = Written(m, <<x>>)
    BY <1>5, <2>2 DEF Autosave
  <2> HIDE DEF p, n
  <2> QED
    BY <1>1, <1>2, <1>3, <1>4, <2>2, <2>3, RowWrites DEF Took, p, n
<1>6. CASE CharSelectReq(m, a)
  <2> DEFINE y == [cmd |-> "charselect", aid |-> a, login |-> p.login]
  <2>0. y \in FromMapMsg /\ y.cmd = "charselect"
    BY <1>2 DEF FromMapMsg
  <2>1. PICK x \in FromMapMsg : x = y /\ x.cmd = "charselect"
    BY <2>0
  <2>2. Fits(m, x)
    BY <2>1, OtherFits
  <2>3. fromMap' = Written(m, <<x>>)
    BY <1>6, <2>1 DEF CharSelectReq
  <2> HIDE DEF p, n
  <2> QED
    BY <1>1, <1>2, <1>3, <1>4, <2>2, <2>3, RowWrites DEF Took, p, n
<1> QED
  BY <1>5, <1>6

\* pc_reg_received: the record of the node is the player's.
LEMMA ReceivedSettled ==
  ASSUME CharMapInv, NEW m \in MapServer, Settled(m), NEW a \in Account, RegReceived(m, a), ByMap
  PROVE  Settled(m)'
<1> DEFINE n == auth_node[m][a]
           p == [cid |-> n.cid, login |-> n.login, rec |-> n.rec, conn |-> "open"]
<1>1. /\ n # NoUser /\ n.state = "ST_LOGIN" /\ n.rec # NoUser
      /\ pc' = [pc EXCEPT ![m][a] = p] /\ auth_node' = [auth_node EXCEPT ![m][a] = NoUser]
      /\ fromMap' = fromMap /\ toMap' = toMap /\ ipport' = ipport /\ UNCHANGED <<sql, latest>>
  BY DEF RegReceived, NodeIs, ByMap, charVars, linkVars
<1>2. AccountOf[n.cid] = a /\ pc[m][a] = NoUser
  BY <1>1 DEF Settled, Owned, RowOwned
<1>3. p # NoUser /\ p.cid = n.cid /\ p.rec = n.rec
  <2>1. p \in Player
    BY <1>1, NodeFields DEF CharMapInv, Player
  <2> QED
    BY <2>1
<1> HIDE DEF p
<1>4. RowBecomes(m, a, p, NoUser)
  BY <1>1, RowIs
<1>5. RowOwned(a, p, NoUser)
  BY <1>2, <1>3 DEF RowOwned
<1>6. ASSUME NEW c \in Char, AccountOf[c] = a
      PROVE  Kept(c, fromMap[m], toMap[m], sql[c].ver, latest[c], p, NoUser)
  <2>1. Kept(c, fromMap[m], toMap[m], sql[c].ver, latest[c], NoUser, n)
    BY <1>2, <1>6 DEF Settled, KeptAt
  <2> HIDE DEF n
  <2> QED
    BY <1>1, <1>3, <2>1, KeptReceived
<1>7. RowKept(m, a, p, NoUser)
  BY <1>1, <1>6 DEF RowKept
<1>8. <<>> \in Seq(FromMapMsg) /\ OthersFit(m, a, <<>>)
  BY <1>1, NothingFits
<1> QED
  BY <1>1, <1>4, <1>5, <1>7, <1>8, RowMoves DEF Took, Wrote

\* What is played is new, and only the player has it.
LEMMA PlaySettled ==
  ASSUME CharMapInv, NEW m \in MapServer, Settled(m), NEW a \in Account, Play(m, a), ByMap
  PROVE  Settled(m)'
<1> DEFINE o == pc[m][a]
           p == [o EXCEPT !.rec.ver = @ + 1]
<1>1. /\ o # NoUser
      /\ pc' = [pc EXCEPT ![m][a] = p] /\ auth_node' = auth_node
      /\ fromMap' = fromMap /\ toMap' = toMap /\ ipport' = ipport /\ sql' = sql
      /\ latest' = [latest EXCEPT ![o.cid] = o.rec.ver + 1]
  BY DEF Play, ByMap, charVars, linkVars
<1>2. /\ o \in Player /\ o.cid \in Char /\ o.rec \in Record
      /\ AccountOf[o.cid] = a /\ auth_node[m][a] = NoUser
  BY <1>1, PlayerFields DEF CharMapInv, Settled, Owned, RowOwned
<1>3. p.cid = o.cid /\ p.rec.ver = o.rec.ver + 1 /\ p # NoUser
  <2>1. p.cid = o.cid /\ p.rec.ver = o.rec.ver + 1
    BY <1>2 DEF Player, Record
  <2>2. p \in [cid : Char, login : Login, rec : [ver : Nat, at : MapServer],
               conn : {"open", "eof", "none"}]
    BY <1>2 DEF Player, Record
  <2>3. p # NoUser
    <3>1. o.rec.ver < MaxVersion
      BY DEF Play
    <3>2. p \in Player
      BY <1>2, <3>1 DEF Player, Record
    <3> QED
      BY <3>2
  <2> QED
    BY <2>1, <2>3
<1> HIDE DEF p
<1>4. RowBecomes(m, a, p, NoUser) /\ RowOwned(a, p, NoUser)
  BY <1>1, <1>2, <1>3, RowIs DEF RowOwned
<1>5. /\ \A c \in Char : c # o.cid => latest'[c] = latest[c]
      /\ latest'[o.cid] = p.rec.ver
  BY <1>1, <1>2, <1>3 DEF CharMapInv, WorldType
<1>6. ASSUME NEW c \in Char, AccountOf[c] = a
      PROVE  Kept(c, fromMap[m], toMap[m], sql[c].ver, latest'[c], p, NoUser)
  <2>1. Kept(c, fromMap[m], toMap[m], sql[c].ver, latest[c], o, NoUser)
    BY <1>2, <1>6 DEF Settled, KeptAt
  <2> HIDE DEF o
  <2>2. CASE c = o.cid
    <3>1. Kept(c, fromMap[m], toMap[m], sql[c].ver, p.rec.ver, p, NoUser)
      BY <1>1, <1>3, <2>1, <2>2, KeptPlayed
    <3> QED
      BY <1>5, <2>2, <3>1
  <2>3. CASE c # o.cid
    <3>1. latest'[c] = latest[c] /\ ~InWorld(o, c) /\ ~InWorld(p, c)
      BY <1>3, <1>5, <2>3 DEF InWorld
    <3> QED
      BY <2>1, <3>1 DEF Kept, Inside, Outside, Parting, Entering
  <2> QED
    BY <2>2, <2>3
<1>7. RowKept(m, a, p, NoUser)
  BY <1>1, <1>6 DEF RowKept
<1>8. <<>> \in Seq(FromMapMsg) /\ OthersFit(m, a, <<>>)
  <2>1. \A c \in Char : AccountOf[c] # a => latest'[c] = latest[c]
    BY <1>2, <1>5
  <2> QED
    BY <2>1, NothingFits
<1> QED
  BY <1>1, <1>4, <1>7, <1>8, RowMoves DEF Took, Wrote

\* map_quit: the final save goes ahead of whatever lets the account in again.
LEMMA QuitSettled ==
  ASSUME CharMapInv, NEW m \in MapServer, Settled(m), NEW a \in Account, pc[m][a] # NoUser,
         MapQuit(m, a), ByMap
  PROVE  Settled(m)'
<1> DEFINE o == pc[m][a]
           n == QuitNode(m, a)
           x == SaveMsg(a, o, TRUE)
<1>1. /\ pc' = [pc EXCEPT ![m][a] = NoUser] /\ auth_node' = [auth_node EXCEPT ![m][a] = n]
      /\ fromMap' = IfConnected(m, <<x>>) /\ toMap' = toMap /\ ipport' = ipport
      /\ UNCHANGED <<sql, latest>>
  BY DEF MapQuit, ByMap, charVars
<1>2. /\ o \in Player /\ o.cid \in Char /\ o.rec \in Record /\ o.login \in Login
      /\ AccountOf[o.cid] = a /\ auth_node[m][a] = NoUser
  BY PlayerFields DEF CharMapInv, Settled, Owned, RowOwned
<1>3. /\ n.state = "ST_LOGOUT" /\ n.cid = o.cid /\ n.rec = o.rec
      /\ x \in FromMapMsg /\ x.cmd = "save" /\ x.cid = o.cid /\ x.rec = o.rec
  BY <1>2 DEF QuitNode, NodeFor, SaveMsg, FromMapMsg
<1>4. n # NoUser
  <2>1. n \in Node
    BY <1>2 DEF QuitNode, NodeFor, Node
  <2> QED
    BY <2>1
<1> HIDE DEF n, x
<1>5. RowBecomes(m, a, NoUser, n) /\ RowOwned(a, NoUser, n)
  BY <1>1, <1>2, <1>3, <1>4, RowIs DEF RowOwned
<1>6. fromMap'[m] \in {fromMap[m], fromMap[m] \o <<x>>}
  BY <1>1 DEF IfConnected, Written, CharMapInv, CharInv, TypeRest
<1>7. ASSUME NEW c \in Char, AccountOf[c] = a
      PROVE  Kept(c, fromMap'[m], toMap[m], sql[c].ver, latest[c], NoUser, n)
  <2>1. Kept(c, fromMap[m], toMap[m], sql[c].ver, latest[c], o, NoUser)
    BY <1>2, <1>7 DEF Settled, KeptAt
  <2>2. PICK q \in Seq(FromMapMsg), r \in Seq(ToMapMsg) : q = fromMap[m] /\ r = toMap[m]
    BY Queues
  <2> HIDE DEF o
  <2>3. o # NoUser
    BY DEF o
  <2>4. Kept(c, q, r, sql[c].ver, latest[c], NoUser, n) /\ Kept(c, q \o <<x>>, r, sql[c].ver, latest[c], NoUser, n)
    BY <1>3, <1>4, <2>1, <2>2, <2>3, KeptQuit
  <2> QED
    BY <1>6, <2>2, <2>4
<1>8. RowKept(m, a, NoUser, n)
  BY <1>1, <1>7 DEF RowKept
<1>9. PICK ms \in Seq(FromMapMsg) : ms = <<x>> /\ \A A : Lacks(ms, A) <=> x \notin A
  BY <1>3, OneLacks
<1>10. OthersFit(m, a, ms)
  <2>1. \A c \in Char : AccountOf[c] # a => x \notin Saves(c) /\ x \notin Ins(c)
    BY <1>2, <1>3 DEF Saves, Ins
  <2>2. \A c \in Char : AccountOf[c] # a => x \notin Old(c, latest[c]) /\ x \notin Outs(c)
    BY <1>3, <2>1, PacketKinds DEF Old, Outs, ToMapMsg
  <2> QED
    BY <1>1, <1>9, <2>1, <2>2 DEF OthersFit, Harmless
<1>11. Wrote(m, ms)
  BY <1>6, <1>9 DEF Wrote
<1> QED
  BY <1>1, <1>5, <1>8, <1>10, <1>11, RowMoves DEF Took

LEMMA GoneSettled ==
  ASSUME CharMapInv, NEW m \in MapServer, Settled(m), NEW a \in Account,
         ClientGone(m, a) \/ DelayQuit(m, a), ByMap
  PROVE  Settled(m)'
<1> DEFINE o == pc[m][a]
           n == auth_node[m][a]
<1>1. CASE pc[m][a] # NoUser /\ MapQuit(m, a)
  BY <1>1, QuitSettled
<1>2. CASE pc[m][a] # NoUser /\ pc' = [pc EXCEPT ![m][a].conn = "none"]
           /\ UNCHANGED <<chrif_state, auth_node, ipport, others, latest, linkVars>>
  <2> DEFINE p == [o EXCEPT !.conn = "none"]
  <2>1. o \in Player /\ RowOwned(a, o, n)
    BY <1>2, PlayerFields DEF CharMapInv, Settled, Owned
  <2>2. p \in Player /\ p.cid = o.cid /\ p.rec = o.rec
    BY <2>1 DEF Player
  <2>3. pc' = [pc EXCEPT ![m][a] = p] /\ auth_node' = auth_node
    BY <1>2
  <2>4. p # NoUser
    BY <2>2
  <2> HIDE DEF p
  <2>5. Same(o, n, p, n) /\ RowOwned(a, p, n)
    BY <1>2, <2>1, <2>2, <2>4 DEF Same, RowOwned
  <2>6. RowBecomes(m, a, p, n)
    BY <2>3, RowIs
  <2> QED
    BY <1>2, <2>5, <2>6, RowQuiet DEF Took, ByMap, linkVars
<1>3. CASE /\ NodeIs(m, a, "ST_LOGIN") \/ NodeIs(m, a, "ST_MAPCHANGE")
           /\ auth_node' = [auth_node EXCEPT ![m][a] = NoUser]
           /\ UNCHANGED <<chrif_state, pc, ipport, others, latest, linkVars>>
  <2>1. n # NoUser /\ n.state # "ST_LOGOUT" /\ RowOwned(a, o, n)
    BY <1>3 DEF NodeIs, Settled, Owned
  <2>2. Same(o, n, o, NoUser) /\ RowOwned(a, o, NoUser)
    BY <2>1 DEF Same, RowOwned
  <2>3. RowBecomes(m, a, o, NoUser)
    BY <1>3, RowIs
  <2> QED
    BY <1>3, <2>2, <2>3, RowQuiet DEF Took, ByMap, linkVars
<1> QED
  BY <1>1, <1>2, <1>3 DEF ClientGone, DelayQuit

\* m has an address of no other map server.
LEMMA NobodyMoves ==
  ASSUME NEW m \in MapServer, Settled(m), NEW a \in Account, NEW to \in MapServer
  PROVE  ~SetPos(m, a, to)
BY DEF Settled, Alone, SetPos

\* What is written of an account that is not in the world and not on its way out.
LEMMA OfflineSettled ==
  ASSUME CharMapInv, NEW m \in MapServer, Settled(m), NEW a \in Account, NEW c \in Char,
         auth_node[m][a] # NoUser, auth_node[m][a].state = "ST_LOGIN",
         NEW n, n \in {NoUser, auth_node[m][a]},
         pc' = pc, auth_node' = [auth_node EXCEPT ![m][a] = n],
         fromMap' \in {Written(m, <<OfflineMsg(a, c)>>), IfConnected(m, <<OfflineMsg(a, c)>>)},
         Took(m), ipport' = ipport, UNCHANGED <<sql, latest>>
  PROVE  Settled(m)'
<1> DEFINE o == pc[m][a]
           old == auth_node[m][a]
           x == OfflineMsg(a, c)
<1>1. x \in FromMapMsg /\ x.cmd = "setcharoffline"
  BY DEF OfflineMsg, FromMapMsg
<1> HIDE DEF x
<1>2. Fits(m, x)
  BY <1>1, OtherFits
<1>3. RowBecomes(m, a, o, n)
  BY RowIs
<1>4. Same(o, old, o, n) /\ RowOwned(a, o, n)
  BY DEF Same, Settled, Owned, RowOwned
<1>5. fromMap' \in {Written(m, <<x>>), IfConnected(m, <<x>>)}
  BY DEF x
<1> QED
  BY <1>1, <1>2, <1>3, <1>4, <1>5, RowWrites

\* auth_db_cleanup
LEMMA CleanupSettled ==
  ASSUME CharMapInv, NEW m \in MapServer, Settled(m), NEW a \in Account, AuthDbCleanup(m, a), ByMap
  PROVE  Settled(m)'
<1> DEFINE n == auth_node[m][a]
<1>1. /\ n # NoUser /\ n \in Node /\ n.cid \in Char /\ n.state # "ST_MAPCHANGE"
      /\ n.state # "ST_LOGIN" => n.rec \in Record
      /\ AccountOf[n.cid] = a
  BY NodeFields DEF AuthDbCleanup, CharMapInv, Settled, Owned, RowOwned
<1>2. n.state = "ST_LOGIN" \/ n.state = "ST_LOGOUT"
  BY <1>1 DEF Node
<1>3. pc' = pc /\ toMap' = toMap /\ ipport' = ipport /\ UNCHANGED <<sql, latest>>
  BY DEF AuthDbCleanup, ByMap, charVars
<1>4. CASE n.state = "ST_LOGIN"
  <2>1. /\ auth_node' = [auth_node EXCEPT ![m][a] = NoUser]
        /\ fromMap' = Written(m, <<OfflineMsg(a, n.cid)>>)
    BY <1>4 DEF AuthDbCleanup
  <2> QED
    BY <1>1, <1>3, <1>4, <2>1, OfflineSettled DEF Took
<1>5. CASE n.state = "ST_LOGOUT"
  <2>1. auth_node' = auth_node /\ fromMap' = Written(m, <<SaveMsg(a, n, TRUE)>>)
    BY <1>5 DEF AuthDbCleanup
  <2>2. OnWayOut(n, n.cid) /\ n.rec.ver = latest[n.cid]
    BY <1>1, <1>5 DEF OnWayOut, Settled, KeptAt, Kept, Parting
  <2>3. PICK x \in FromMapMsg : x = SaveMsg(a, n, TRUE) /\ Fits(m, x)
    BY <1>1, <1>5, <2>2, SaveFits
  <2>4. RowBecomes(m, a, pc[m][a], n) /\ Same(pc[m][a], n, pc[m][a], n) /\ RowOwned(a, pc[m][a], n)
    BY <1>3, <2>1, RowIs DEF Same, Settled, Owned
  <2>5. fromMap' = Written(m, <<x>>)
    BY <2>1, <2>3
  <2> HIDE DEF n
  <2> QED
    BY <1>3, <2>3, <2>4, <2>5, RowWrites DEF Took, n
<1> QED
  BY <1>2, <1>4, <1>5

\* Packets of the char server: chrif_parse.

LEMMA TakeTook ==
  ASSUME CharMapInv, NEW m \in MapServer, NEW cmd, Take(m, cmd)
  PROVE  /\ Took(m)
         /\ toMap[m] # <<>> /\ toMap'[m] = Tail(toMap[m])
         /\ Head(toMap[m]) \in ToMapMsg /\ Head(toMap[m]).cmd = cmd
<1>1. toMap[m] # <<>> /\ toMap'[m] = Tail(toMap[m])
  BY DEF Take, CharMapInv, CharInv, TypeRest, ToMapQueues
<1>2. Head(toMap[m]) \in ToGranted /\ Head(toMap[m]).cmd = cmd
  BY TakeTakes DEF CharMapInv
<1> QED
  BY <1>1, <1>2 DEF Took, ToGranted

\* The players and nodes are left as they are.
LEMMA RowsStay ==
  ASSUME NEW m \in MapServer, Settled(m), UNCHANGED <<pc, auth_node>>
  PROVE  (\A a \in Account : Stays(m, a)) /\ Owned(m)'
BY DEF Stays, Same, Settled, Owned, RowOwned

LEMMA ConnectAckSettled ==
  ASSUME CharMapInv, NEW m \in MapServer, Settled(m), ConnectAck(m), ByMap
  PROVE  Settled(m)'
<1>1. Took(m) /\ UNCHANGED <<sql, latest, pc, auth_node, ipport>>
  BY TakeTook DEF ConnectAck, ByMap
<1> DEFINE y == [cmd |-> "sendmap"]
<1>2. y \in FromMapMsg /\ y.cmd = "sendmap"
  BY DEF FromMapMsg
<1>3. fromMap' = Written(m, <<y>>)
  BY DEF ConnectAck
<1> HIDE DEF y
<1>4. Fits(m, y)
  BY <1>2, OtherFits
<1>5. <<y>> \in Seq(FromMapMsg)
  BY <1>2
<1>6. PICK ms \in Seq(FromMapMsg) : ms = <<y>>
  BY <1>5
<1>7. AllFit(m, ms) /\ Wrote(m, ms)
  BY <1>3, <1>4, <1>6 DEF AllFit, Wrote, Written, CharMapInv, CharInv, TypeRest
<1> QED
  BY <1>1, <1>7, RowsStay, WrittenSettled

\* What m sends again for a node it kept through a lost link.
LEMMA ResentFits ==
  ASSUME CharMapInv, NEW m \in MapServer, Settled(m), NEW a \in Account, auth_node[m][a] # NoUser
  PROVE  \E x \in FromMapMsg : Resent(m, a) = <<x>> /\ Fits(m, x)
<1> DEFINE n == auth_node[m][a]
<1>1. /\ n \in Node /\ n.cid \in Char /\ n.state # "ST_MAPCHANGE"
      /\ n.state # "ST_LOGIN" => n.rec \in Record
      /\ AccountOf[n.cid] = a
  BY NodeFields DEF CharMapInv, Settled, Owned, RowOwned
<1>2. n.state = "ST_LOGIN" \/ n.state = "ST_LOGOUT"
  BY <1>1 DEF Node
<1>3. CASE n.state = "ST_LOGIN"
  <2>1. OfflineMsg(a, n.cid) \in FromMapMsg /\ OfflineMsg(a, n.cid).cmd = "setcharoffline"
    BY <1>1 DEF OfflineMsg, FromMapMsg
  <2>2. Fits(m, OfflineMsg(a, n.cid))
    BY <2>1, OtherFits
  <2> QED
    BY <1>3, <2>1, <2>2 DEF Resent
<1>4. CASE n.state = "ST_LOGOUT"
  <2>1. OnWayOut(n, n.cid) /\ n.rec.ver = latest[n.cid]
    BY <1>1, <1>4 DEF OnWayOut, Settled, KeptAt, Kept, Parting
  <2>2. PICK x \in FromMapMsg : x = SaveMsg(a, n, TRUE) /\ Fits(m, x)
    BY <1>1, <1>4, <2>1, SaveFits
  <2>3. Resent(m, a) = <<x>>
    BY <1>4, <2>2 DEF Resent
  <2> QED
    BY <2>2, <2>3
<1> QED
  BY <1>2, <1>3, <1>4

LEMMA SendMapAckSettled ==
  ASSUME CharMapInv, NEW m \in MapServer, Settled(m), SendMapAck(m), ByMap
  PROVE  Settled(m)'
<1> DEFINE users  == [a \in Account |-> IF pc[m][a] = NoUser THEN NoUser ELSE pc[m][a].cid]
           resend == {a \in Account : auth_node[m][a] # NoUser /\ Resent(m, a) # <<>>}
           y      == [cmd |-> "regmapuser", users |-> users]
<1>1. Took(m) /\ UNCHANGED <<sql, latest, pc, ipport>>
  BY TakeTook DEF SendMapAck, ByMap
<1>2. PICK order \in Orders(resend) :
        fromMap' = Written(m, <<y>> \o [i \in DOMAIN order |-> Resent(m, order[i])[1]])
  BY DEF SendMapAck
<1> DEFINE rest == [i \in DOMAIN order |-> Resent(m, order[i])[1]]
<1>3. y \in FromMapMsg /\ y.cmd = "regmapuser"
  <2>1. users \in [Account -> Char \cup {NoUser}]
    BY PlayerFields DEF CharMapInv
  <2> HIDE DEF users
  <2> QED
    BY <2>1 DEF FromMapMsg
<1> HIDE DEF y
<1>4. Fits(m, y)
  BY <1>3, OtherFits
<1>5. order \in Seq(resend) /\ DOMAIN order = 1 .. Len(order)
  <2>1. IsFiniteSet(resend)
    BY FS_Subset
  <2> QED
    BY <2>1, OrdersType
<1>6. \A i \in DOMAIN order : Resent(m, order[i])[1] \in FromMapMsg /\ Fits(m, Resent(m, order[i])[1])
  <2>1. ASSUME NEW a \in resend PROVE Resent(m, a)[1] \in FromMapMsg /\ Fits(m, Resent(m, a)[1])
    <3>1. PICK x \in FromMapMsg : Resent(m, a) = <<x>> /\ Fits(m, x)
      BY ResentFits
    <3> QED
      BY <3>1
  <2>2. \A i \in DOMAIN order : order[i] \in resend
    BY <1>5
  <2> QED
    BY <2>1, <2>2
<1>7. rest \in Seq(FromMapMsg) /\ AllFit(m, rest)
  BY <1>5, <1>6 DEF AllFit
<1>8. <<y>> \in Seq(FromMapMsg)
  BY <1>3
<1>9. PICK first \in Seq(FromMapMsg) : first = <<y>>
  BY <1>8
<1>10. AllFit(m, first)
  BY <1>4, <1>9 DEF AllFit
<1> HIDE DEF rest
<1>11. fromMap' = Written(m, first \o rest)
  BY <1>2, <1>9 DEF rest
<1>12. PICK ms \in Seq(FromMapMsg) : ms = first \o rest
  BY <1>7, ConcatProperties
<1>13. AllFit(m, ms)
  <2>1. \A A : Lacks(ms, A) <=> Lacks(first, A) /\ Lacks(rest, A)
    BY <1>7, <1>12, LacksJoined
  <2> DEFINE A == {x \in FromMapMsg : ~Fits(m, x)}
  <2>2. Lacks(ms, A)
    BY <1>7, <1>10, <2>1 DEF AllFit, Lacks
  <2> QED
    BY <2>2 DEF AllFit, Lacks
<1>14. Wrote(m, ms)
  BY <1>11, <1>12 DEF Wrote, Written, CharMapInv, CharInv, TypeRest
<1>15. \A a \in Account : auth_node'[m][a] = IF NodeIs(m, a, "ST_LOGIN") THEN NoUser ELSE auth_node[m][a]
  BY DEF SendMapAck, CharMapInv, WorldType
<1>16. (\A a \in Account : Stays(m, a)) /\ Owned(m)'
  BY <1>1, <1>15 DEF Stays, Same, NodeIs, Settled, Owned, RowOwned
<1> QED
  BY <1>1, <1>13, <1>14, <1>16, WrittenSettled

\* chrif_authok: the record comes to a node that waits for it, before anything that
\* frees the character.
LEMMA AuthOkSettled ==
  ASSUME CharMapInv, NEW m \in MapServer, Settled(m), AuthOkTaken(m), ByMap
  PROVE  Settled(m)'
<1>1. /\ Took(m) /\ toMap[m] # <<>> /\ toMap'[m] = Tail(toMap[m])
      /\ Head(toMap[m]) \in ToMapMsg /\ Head(toMap[m]).cmd = "authok"
      /\ UNCHANGED <<sql, latest, pc, ipport>>
  BY TakeTook DEF AuthOkTaken, ByMap
<1>2. PICK p \in ToMapMsg : p = Head(toMap[m]) /\ p.cmd = "authok"
  BY <1>1
<1>3. p.aid \in Account /\ p.cid \in Char /\ p.rec \in Record
  BY <1>2 DEF ToMapMsg
<1> DEFINE a == p.aid
           old == auth_node[m][a]
           n == [old EXCEPT !.rec = [p.rec EXCEPT !.at = m]]
<1>4. CASE /\ pc[m][a] = NoUser /\ NodeIs(m, a, "ST_LOGIN")
           /\ old.cid = p.cid /\ old.login = p.login /\ m \in {p.rec.at, DefaultMapAt}
  <2>1. /\ auth_node' = [auth_node EXCEPT ![m][a] = n] /\ fromMap' = fromMap
        /\ pc' = [pc EXCEPT ![m][a] = NoUser]
    <3>1. auth_node' = [auth_node EXCEPT ![m][a] = n] /\ fromMap' = fromMap /\ pc' = pc
      BY <1>2, <1>4 DEF AuthOkTaken
    <3>2. pc = [pc EXCEPT ![m][a] = NoUser]
      BY <1>3, <1>4 DEF CharMapInv, WorldType
    <3> QED
      BY <3>1, <3>2
  <2>2. /\ old # NoUser /\ old \in Node /\ old.state = "ST_LOGIN" /\ AccountOf[old.cid] = a
    BY <1>3, <1>4, NodeFields DEF NodeIs, CharMapInv, Settled, Owned, RowOwned
  <2>3. /\ n \in Node /\ n.state = "ST_LOGIN" /\ n.cid = old.cid
        /\ n.rec.ver = p.rec.ver
    BY <1>3, <2>2 DEF Node, Record
  <2>4. n # NoUser
    BY <2>3
  <2> HIDE DEF n
  <2>5. RowBecomes(m, a, NoUser, n)
    BY <1>3, <2>1, RowIs
  <2>6. RowOwned(a, NoUser, n)
    BY <2>2, <2>3 DEF RowOwned
  <2>7. ASSUME NEW c \in Char, AccountOf[c] = a
        PROVE  Kept(c, fromMap[m], Tail(toMap[m]), sql[c].ver, latest[c], NoUser, n)
    <3>1. Kept(c, fromMap[m], toMap[m], sql[c].ver, latest[c], NoUser, old)
      BY <1>4, <2>7 DEF Settled, KeptAt
    <3>2. PICK q \in Seq(FromMapMsg), r \in Seq(ToMapMsg) : q = fromMap[m] /\ r = toMap[m]
      BY Queues
    <3>3. Head(r) = p /\ r # <<>> /\ p.cid = old.cid
      BY <1>1, <1>2, <1>4, <3>2
    <3> HIDE DEF old
    <3>4. Kept(c, q, Tail(r), sql[c].ver, latest[c], NoUser, n)
      BY <1>2, <2>2, <2>3, <2>4, <3>1, <3>2, <3>3, KeptEntering
    <3> QED
      BY <3>2, <3>4
  <2>8. RowKept(m, a, NoUser, n)
    BY <1>1, <2>1, <2>7 DEF RowKept
  <2>9. <<>> \in Seq(FromMapMsg) /\ OthersFit(m, a, <<>>)
    BY <1>1, NothingFits
  <2>10. Wrote(m, <<>>)
    BY <2>1 DEF Wrote
  <2> HIDE DEF old
  <2> QED
    BY <1>1, <1>3, <2>5, <2>6, <2>8, <2>9, <2>10, RowMoves
<1>5. CASE /\ pc[m][a] = NoUser /\ NodeIs(m, a, "ST_LOGIN")
           /\ ~(old.cid = p.cid /\ old.login = p.login /\ m \in {p.rec.at, DefaultMapAt})
  <2>1. old # NoUser /\ old.state = "ST_LOGIN" /\ old.cid \in Char
    BY <1>3, <1>5, NodeFields DEF NodeIs, CharMapInv
  <2> DEFINE left == IF old.cid = p.cid THEN NoUser ELSE old
  <2>2. /\ auth_node' = [auth_node EXCEPT ![m][a] = left]
        /\ fromMap' = IfConnected(m, <<OfflineMsg(a, old.cid)>>)
    BY <1>2, <1>5 DEF AuthOkTaken
  <2>3. left \in {NoUser, old}
    OBVIOUS
  <2> HIDE DEF left
  <2> QED
    BY <1>1, <1>3, <2>1, <2>2, <2>3, OfflineSettled
<1>6. CASE ~(pc[m][a] = NoUser /\ NodeIs(m, a, "ST_LOGIN"))
  <2>1. auth_node' = auth_node /\ fromMap' = fromMap
    BY <1>2, <1>6 DEF AuthOkTaken
  <2> QED
    BY <1>1, <2>1, RowsStay, QuietSettled
<1> QED
  BY <1>4, <1>5, <1>6

\* chrif_save_ack: SQL has what the node keeps, and nothing older is on its way.
LEMMA SaveAckSettled ==
  ASSUME CharMapInv, NEW m \in MapServer, Settled(m), SaveAck(m), ByMap
  PROVE  Settled(m)'
<1>1. /\ Took(m) /\ toMap[m] # <<>> /\ toMap'[m] = Tail(toMap[m])
      /\ Head(toMap[m]) \in ToMapMsg /\ Head(toMap[m]).cmd = "saveack"
      /\ UNCHANGED <<sql, latest, pc, ipport, fromMap>>
  BY TakeTook DEF SaveAck, ByMap
<1>2. PICK p \in ToMapMsg : p = Head(toMap[m]) /\ p.cmd = "saveack"
  BY <1>1
<1>3. p.aid \in Account /\ p.cid \in Char
  BY <1>2 DEF ToMapMsg
<1> DEFINE a == p.aid
           n == auth_node[m][a]
<1>4. CASE NodeIs(m, a, "ST_LOGOUT") /\ n.cid = p.cid
  <2>1. n # NoUser /\ n.state = "ST_LOGOUT" /\ pc[m][a] = NoUser
    BY <1>3, <1>4 DEF NodeIs, Settled, Owned, RowOwned
  <2>2. auth_node' = [auth_node EXCEPT ![m][a] = NoUser]
    BY <1>2, <1>4 DEF SaveAck
  <2>3. pc' = [pc EXCEPT ![m][a] = NoUser]
    BY <1>1, <2>1 DEF CharMapInv, WorldType
  <2>4. RowBecomes(m, a, NoUser, NoUser) /\ RowOwned(a, NoUser, NoUser)
    BY <1>3, <2>2, <2>3, RowIs DEF RowOwned
  <2>5. ASSUME NEW c \in Char, AccountOf[c] = a
        PROVE  Kept(c, fromMap[m], Tail(toMap[m]), sql[c].ver, latest[c], NoUser, NoUser)
    <3>1. Kept(c, fromMap[m], toMap[m], sql[c].ver, latest[c], NoUser, n)
      BY <2>1, <2>5 DEF Settled, KeptAt
    <3>2. PICK q \in Seq(FromMapMsg), r \in Seq(ToMapMsg) : q = fromMap[m] /\ r = toMap[m]
      BY Queues
    <3>3. Head(r) = p /\ r # <<>> /\ p.cid = n.cid
      BY <1>1, <1>2, <1>4, <3>2
    <3> HIDE DEF n
    <3>4. Kept(c, q, Tail(r), sql[c].ver, latest[c], NoUser, NoUser)
      BY <1>2, <2>1, <3>1, <3>2, <3>3, KeptAcked
    <3> QED
      BY <3>2, <3>4
  <2>6. RowKept(m, a, NoUser, NoUser)
    BY <1>1, <2>5 DEF RowKept
  <2>7. <<>> \in Seq(FromMapMsg) /\ OthersFit(m, a, <<>>)
    BY <1>1, NothingFits
  <2>8. Wrote(m, <<>>)
    BY <1>1 DEF Wrote
  <2> QED
    BY <1>1, <1>3, <2>4, <2>6, <2>7, <2>8, RowMoves
<1>5. CASE ~(NodeIs(m, a, "ST_LOGOUT") /\ n.cid = p.cid)
  <2>1. auth_node' = auth_node
    BY <1>2, <1>5 DEF SaveAck, CharMapInv, WorldType
  <2> QED
    BY <1>1, <2>1, RowsStay, QuietSettled
<1> QED
  BY <1>4, <1>5

\* chrif_authfail
LEMMA AuthFailSettled ==
  ASSUME CharMapInv, NEW m \in MapServer, Settled(m), AuthFail(m), ByMap
  PROVE  Settled(m)'
<1>1. /\ Took(m) /\ Head(toMap[m]) \in ToMapMsg /\ Head(toMap[m]).cmd = "authfail"
      /\ UNCHANGED <<sql, latest, pc, ipport, fromMap>>
  BY TakeTook DEF AuthFail, ByMap
<1>2. PICK a \in Account : a = Head(toMap[m]).aid
  BY <1>1 DEF ToMapMsg
<1> DEFINE n == auth_node[m][a]
<1>3. PICK l \in {n, NoUser} : /\ auth_node' = [auth_node EXCEPT ![m][a] = l]
                               /\ l # n => n # NoUser /\ n.state = "ST_LOGIN"
  BY <1>2 DEF AuthFail, NodeIs
<1>4. RowBecomes(m, a, pc[m][a], l)
  BY <1>1, <1>3, RowIs
<1>5. Same(pc[m][a], n, pc[m][a], l) /\ RowOwned(a, pc[m][a], l)
  BY <1>3 DEF Same, Settled, Owned, RowOwned
<1> QED
  BY <1>1, <1>4, <1>5, RowQuiet

\* chrif_disconnectplayer
LEMMA KickSettled ==
  ASSUME CharMapInv, NEW m \in MapServer, Settled(m), DisconnectPlayer(m), ByMap
  PROVE  Settled(m)'
<1>1. /\ Took(m) /\ Head(toMap[m]) \in ToMapMsg /\ Head(toMap[m]).cmd = "kick"
      /\ UNCHANGED <<sql, latest, ipport, fromMap>>
  BY TakeTook DEF DisconnectPlayer, ByMap
<1>2. PICK a \in Account : a = Head(toMap[m]).aid
  BY <1>1 DEF ToMapMsg
<1> DEFINE o == pc[m][a]
           old == auth_node[m][a]
           p == IF o # NoUser /\ o.conn = "open" THEN [o EXCEPT !.conn = "eof"] ELSE o
           n == IF o = NoUser /\ NodeIs(m, a, "ST_LOGIN") THEN NoUser ELSE old
<1>3. pc' = [pc EXCEPT ![m][a] = p] /\ auth_node' = [auth_node EXCEPT ![m][a] = n]
  BY <1>2 DEF DisconnectPlayer, CharMapInv, WorldType
<1>4. o # NoUser => p # NoUser /\ p.cid = o.cid /\ p.rec = o.rec
  <2> SUFFICES ASSUME o # NoUser PROVE p # NoUser /\ p.cid = o.cid /\ p.rec = o.rec
    OBVIOUS
  <2>1. o \in Player
    BY PlayerFields DEF CharMapInv
  <2>2. p \in Player /\ p.cid = o.cid /\ p.rec = o.rec
    BY <2>1 DEF Player
  <2> QED
    BY <2>2
<1>5. (o = NoUser => p = NoUser) /\ (n = old \/ (n = NoUser /\ old # NoUser /\ old.state = "ST_LOGIN"))
  BY DEF NodeIs
<1> HIDE DEF p, n
<1>6. RowBecomes(m, a, p, n)
  BY <1>3, RowIs
<1>7. RowOwned(a, o, old)
  BY DEF Settled, Owned
<1>8. Same(o, old, p, n) /\ RowOwned(a, p, n)
  BY <1>4, <1>5, <1>7 DEF Same, RowOwned
<1> QED
  BY <1>1, <1>6, <1>8, RowQuiet

\* chrif_changemapserverack and chrif_recvmap find nobody, chrif_removemap only counts.
LEMMA ElsewhereSettled ==
  ASSUME CharMapInv, NEW m \in MapServer, Settled(m),
         ChangeMapServerAck(m) \/ RecvMap(m) \/ RemoveMap(m), ByMap
  PROVE  Settled(m)'
<1>1. CASE ChangeMapServerAck(m)
  <2>1. /\ Took(m) /\ Head(toMap[m]) \in ToMapMsg /\ Head(toMap[m]).cmd = "changeack"
        /\ UNCHANGED <<sql, latest, pc, ipport>>
    BY <1>1, TakeTook DEF ChangeMapServerAck, ByMap
  <2>2. Head(toMap[m]).aid \in Account
    BY <2>1 DEF ToMapMsg
  <2>3. ~NodeIs(m, Head(toMap[m]).aid, "ST_MAPCHANGE")
    BY <2>2 DEF NodeIs, Settled, Owned, RowOwned
  <2>4. UNCHANGED <<auth_node, fromMap>>
    BY <1>1, <2>3 DEF ChangeMapServerAck
  <2> QED
    BY <2>1, <2>4, RowsStay, QuietSettled
<1>2. ~RecvMap(m)
  <2>1. ASSUME RecvMap(m) PROVE FALSE
    <3>1. toMap[m] # <<>> /\ Head(toMap[m]) \in ToMapMsg /\ Head(toMap[m]).cmd = "maps"
      BY <2>1, TakeTook DEF RecvMap
    <3>2. toMap[m] \in Seq(ToMapMsg)
      BY Queues
    <3>3. Head(toMap[m]) \notin MapsPackets
      BY <3>1, <3>2, LacksTail DEF Settled, Alone
    <3> QED
      BY <3>1, <3>3 DEF MapsPackets
  <2> QED
    BY <2>1
<1>3. CASE RemoveMap(m)
  <2>1. Took(m) /\ UNCHANGED <<sql, latest, pc, auth_node, ipport, fromMap>>
    BY <1>3, TakeTook DEF RemoveMap, ByMap
  <2> QED
    BY <2>1, RowsStay, QuietSettled
<1> QED
  BY <1>1, <1>2, <1>3

LEMMA MapSettled ==
  ASSUME CharMapInv, NEW m \in MapServer, MapServer = {m}, Settled(m), MapStep
  PROVE  Settled(m)'
<1>1. ChrifParse(m) /\ ByMap => Settled(m)'
  BY ConnectAckSettled, SendMapAckSettled, AuthOkSettled, AuthFailSettled, KickSettled,
     SaveAckSettled, ElsewhereSettled DEF ChrifParse
<1>2. ASSUME NEW a \in Account, ByMap
      PROVE  /\ RegReceived(m, a) \/ Play(m, a) \/ Autosave(m, a) \/ CharSelectReq(m, a) => Settled(m)'
             /\ ClientGone(m, a) \/ DelayQuit(m, a) \/ AuthDbCleanup(m, a) => Settled(m)'
             /\ ~SetPos(m, a, m)
  BY <1>2, ReceivedSettled, PlaySettled, AskSettled, GoneSettled, CleanupSettled, NobodyMoves
<1> QED
  BY <1>1, <1>2, EnterSettled DEF MapStep

\* Links that break or are made, and restarts: what was in flight is lost.
LEMMA CutSettled ==
  ASSUME CharMapInv, NEW m \in MapServer, Settled(m), UNCHANGED <<pc, auth_node, latest, sql>>,
         ipport'[m] \in {ipport[m], {}}, fromMap'[m] \in {fromMap[m], <<>>},
         toMap'[m] \in {<<>>, <<[cmd |-> "connectack"]>>}
  PROVE  Settled(m)'
<1>1. Owned(m)'
  BY DEF Settled, Owned, RowOwned
<1>2. ASSUME NEW c \in Char, NEW l
      PROVE  /\ Lacks(toMap'[m], Ins(c)) /\ Lacks(toMap'[m], Outs(c)) /\ Lacks(toMap'[m], Old(c, l))
             /\ Lacks(toMap'[m], MapsPackets)
  <2>1. CASE toMap'[m] = <<>>
    BY <2>1 DEF Lacks
  <2>2. CASE toMap'[m] = <<[cmd |-> "connectack"]>>
    <3> DEFINE y == [cmd |-> "connectack"]
    <3>1. y \in ToMapMsg /\ y.cmd = "connectack"
      BY DEF ToMapMsg
    <3> HIDE DEF y
    <3>2. y \notin Ins(c) /\ y \notin Outs(c) /\ y \notin Old(c, l) /\ y \notin MapsPackets
      BY <3>1 DEF Ins, Outs, Old, Saves, MapsPackets
    <3>3. toMap'[m] = <<y>>
      BY <2>2 DEF y
    <3> QED
      BY <3>1, <3>2, <3>3, OneLacks
  <2> QED
    BY <2>1, <2>2
<1>3. Alone(m)'
  <2>1. Lacks(toMap'[m], MapsPackets)
    <3>1. CASE toMap'[m] = <<>>
      BY <3>1 DEF Lacks
    <3>2. CASE toMap'[m] = <<[cmd |-> "connectack"]>>
      BY <3>2 DEF Lacks, MapsPackets
    <3> QED
      BY <3>1, <3>2
  <2> QED
    BY <2>1 DEF Settled, Alone
<1>4. ASSUME NEW c \in Char PROVE KeptAt(m, c)'
  <2>1. Kept(c, fromMap[m], toMap[m], sql[c].ver, latest[c], pc[m][AccountOf[c]], auth_node[m][AccountOf[c]])
    BY DEF Settled, KeptAt
  <2>2. Kept(c, fromMap'[m], toMap'[m], sql[c].ver, latest[c], pc[m][AccountOf[c]], auth_node[m][AccountOf[c]])
    BY <1>2, <2>1, KeptCut
  <2> QED
    BY <2>2 DEF KeptAt
<1> QED
  BY <1>1, <1>3, <1>4 DEF Settled

LEMMA LinksSettled ==
  ASSUME CharMapInv, NEW m \in MapServer, Settled(m),
         CharNotices(m) \/ MapNotices(m) \/ Connect(m) \/ LinkBreaks(m) \/ Restarts
  PROVE  Settled(m)'
<1>1. CASE CharNotices(m)
  <2>1. UNCHANGED <<mapVars, fromMap, sql>>
    BY <1>1 DEF CharNotices, MapDisconnected, ByChar
  <2> QED
    BY <1>1, <2>1, DisconnectAppends, SentSettled DEF CharNotices, CharMapInv
<1>2. CASE MapNotices(m)
  <2>1. /\ UNCHANGED <<sql, latest, pc, auth_node, fromMap>> /\ toMap' = toMap
        /\ ipport'[m] = {}
    BY <1>2 DEF MapNotices, OnDisconnect, ByMap, CharMapInv, WorldType
  <2> QED
    BY <2>1, RowsStay, QuietSettled DEF Took
<1>3. CASE Connect(m)
  <2>1. /\ UNCHANGED <<pc, auth_node, latest, sql, ipport, fromMap>>
        /\ toMap'[m] = <<[cmd |-> "connectack"]>>
    BY <1>3 DEF Connect, ParseMapLogin, charVars, CharMapInv, CharInv, TypeRest, ToMapQueues
  <2> QED
    BY <2>1, CutSettled
<1>4. CASE LinkBreaks(m)
  <2>1. /\ UNCHANGED <<pc, auth_node, latest, sql, ipport>>
        /\ fromMap'[m] = <<>> /\ toMap'[m] = <<>>
    BY <1>4 DEF LinkBreaks, Break, mapVars, CharMapInv, CharInv, TypeRest, ToMapQueues
  <2> QED
    BY <2>1, CutSettled
<1>5. CASE Restarts
  <2>1. /\ UNCHANGED <<pc, auth_node, latest, sql, ipport>>
        /\ fromMap'[m] = <<>> /\ toMap'[m] = <<>>
    BY <1>5 DEF Restarts, CharRestart, Restarted, ByChar, mapVars
  <2> QED
    BY <2>1, CutSettled
<1> QED
  BY <1>1, <1>2, <1>3, <1>4, <1>5

LEMMA SettledStart ==
  ASSUME Init, NEW m \in MapServer
  PROVE  Settled(m)
<1>1. /\ fromMap[m] = <<>> /\ toMap[m] = <<>> /\ ipport[m] = {}
      /\ \A a \in Account : pc[m][a] = NoUser /\ auth_node[m][a] = NoUser
  BY DEF Init, InitLinks, InitMap
<1>2. \A c \in Char : sql[c].ver = latest[c]
  BY DEF Init, InitChar, InitMap
<1>3. \A A : Lacks(<<>>, A)
  BY DEF Lacks
<1>4. ASSUME NEW c \in Char PROVE KeptAt(m, c)
  <2>1. Kept(c, <<>>, <<>>, latest[c], latest[c], NoUser, NoUser)
    BY <1>3, BeforeLacks DEF Kept, Inside, Parting, Outside, Entering, InWorld, OnWayOut, OnWayIn
  <2> QED
    BY <1>1, <1>2, <2>1 DEF KeptAt
<1> QED
  BY <1>1, <1>3, <1>4 DEF Settled, Owned, RowOwned, Alone

LEMMA SettledStep ==
  ASSUME CharMapInv, NEW m \in MapServer, MapServer = {m}, Settled(m), [Next]_vars
  PROVE  Settled(m)'
<1>1. CASE UNCHANGED vars
  BY <1>1, RowsStay, QuietSettled DEF vars, mapVars, linkVars, Took
<1>2. CASE CharStep
  BY <1>2, CharSettled
<1>3. CASE MapStep
  BY <1>3, MapSettled
<1>4. CASE ~CharStep /\ ~MapStep /\ Next
  BY <1>4, LinksSettled DEF Next
<1> QED
  BY <1>1, <1>2, <1>3, <1>4

\* The newest progress is where the invariant says, so it is nowhere lost.
LEMMA SettledKeeps ==
  ASSUME CharMapInv, NEW m \in MapServer, MapServer = {m}, Settled(m)
  PROVE  NothingLost
<1> SUFFICES ASSUME NEW c \in Char PROVE \E r \in Copies(c) : r.ver = latest[c]
  BY DEF NothingLost
<1> DEFINE a == AccountOf[c]
           p == pc[m][a]
           n == auth_node[m][a]
<1>1. Kept(c, fromMap[m], toMap[m], sql[c].ver, latest[c], p, n)
  BY DEF Settled, KeptAt
<1>2. CASE InWorld(p, c)
  <2>1. p.rec.ver = latest[c]
    BY <1>1, <1>2 DEF Kept, Inside
  <2>2. p.rec \in Copies(c)
    BY <1>2 DEF Copies, InWorld, Holds
  <2> QED
    BY <2>1, <2>2
<1>3. CASE OnWayOut(n, c)
  <2>1. n.rec.ver = latest[c]
    BY <1>1, <1>3 DEF Kept, Parting
  <2>2. n.rec \in Copies(c)
    BY <1>3 DEF Copies, OnWayOut
  <2> QED
    BY <2>1, <2>2
<1>4. CASE ~InWorld(p, c) /\ ~OnWayOut(n, c)
  <2>1. sql[c].ver = latest[c]
    BY <1>1, <1>4 DEF Kept, Outside
  <2>2. sql[c] \in Copies(c)
    BY DEF Copies
  <2> QED
    BY <2>1, <2>2
<1> QED
  BY <1>2, <1>3, <1>4

\* With one map server, whatever breaks, restarts and is kicked, and however long packets
\* and clients take, the newest progress of a character is in SQL, with its player, in a
\* node or in a save on its way (chrif_save, chrif_save_ack, chrif_reconnect).
THEOREM NothingLostAlone ==
  ASSUME NEW m, MapServer = {m}
  PROVE  Spec => []NothingLost
<1>1. m \in MapServer
  OBVIOUS
<1>2. Init => Settled(m)
  BY <1>1, SettledStart
<1>3. CharMapInv /\ Settled(m) /\ [Next]_vars => Settled(m)'
  BY <1>1, SettledStep
<1>4. CharMapInv /\ Settled(m) => NothingLost
  BY <1>1, SettledKeeps
<1> QED
  BY <1>2, <1>3, <1>4, CharMapInvariant, PTL DEF Spec

\* Where each character is played, with one map server.
Plays(m) == [c \in Char |-> IF InWorld(pc[m][AccountOf[c]], c) THEN {m} ELSE {}]

LEMMA PlaysIs ==
  ASSUME CharMapInv, NEW m \in MapServer, MapServer = {m}, Settled(m)
  PROVE  Holders = Plays(m) /\ Progress = latest
<1>1. ASSUME NEW c \in Char
      PROVE  /\ {n \in MapServer : Holds(n, AccountOf[c], c)} = Plays(m)[c]
             /\ Holds(m, AccountOf[c], c) <=> InWorld(pc[m][AccountOf[c]], c)
  BY DEF Plays, Holds, InWorld
<1>2. Holders = Plays(m)
  BY <1>1 DEF Holders, Plays
<1>3. ASSUME NEW c \in Char, Holders[c] # {}
      PROVE  pc[CHOOSE n \in Holders[c] : TRUE][AccountOf[c]].rec.ver = latest[c]
  <2>1. Holders[c] = {m} /\ InWorld(pc[m][AccountOf[c]], c)
    BY <1>2, <1>3 DEF Plays
  <2>2. (CHOOSE n \in Holders[c] : TRUE) = m
    BY <2>1
  <2>3. pc[m][AccountOf[c]].rec.ver = latest[c]
    BY <2>1 DEF Settled, KeptAt, Kept, Inside
  <2> QED
    BY <2>2, <2>3
<1>4. Progress = [c \in Char |-> latest[c]]
  BY <1>3 DEF Progress
<1>5. latest = [c \in Char |-> latest[c]]
  BY DEF CharMapInv, WorldType
<1> QED
  BY <1>2, <1>4, <1>5

\* What most steps leave: who is in the world, and what has been played.
Seats(m) ==
  /\ latest' = latest
  /\ \A a \in Account, c \in Char : InWorld(pc'[m][a], c) <=> InWorld(pc[m][a], c)

LEMMA SameSeats ==
  ASSUME NEW m \in MapServer, Seats(m)
  PROVE  Plays(m)' = Plays(m)
BY DEF Plays, Seats

LEMMA SeatsKept ==
  ASSUME NEW m \in MapServer, UNCHANGED <<pc, latest>>
  PROVE  Seats(m)
BY DEF Seats

LEMMA KickSeats ==
  ASSUME CharMapInv, NEW m \in MapServer, NEW a \in Account, NEW conn \in {"eof", "none"},
         pc[m][a] # NoUser, pc' = [pc EXCEPT ![m][a].conn = conn], latest' = latest
  PROVE  Seats(m)
<1> DEFINE p == [pc[m][a] EXCEPT !.conn = conn]
<1>1. pc[m][a] \in Player
  BY PlayerFields DEF CharMapInv
<1>2. p \in Player /\ p.cid = pc[m][a].cid
  BY <1>1 DEF Player
<1>3. p # NoUser
  BY <1>2
<1>4. pc'[m][a] = p /\ \A b \in Account : b # a => pc'[m][b] = pc[m][b]
  BY DEF CharMapInv, WorldType
<1> HIDE DEF p
<1> QED
  BY <1>2, <1>3, <1>4 DEF Seats, InWorld

LEMMA ParseSeats ==
  ASSUME CharMapInv, NEW m \in MapServer, ChrifParse(m)
  PROVE  Seats(m)
<1>1. CASE DisconnectPlayer(m)
  <2>1. Head(toMap[m]) \in ToMapMsg /\ Head(toMap[m]).cmd = "kick" /\ latest' = latest
    BY <1>1, TakeTook DEF DisconnectPlayer
  <2>2. PICK a \in Account : a = Head(toMap[m]).aid
    BY <2>1 DEF ToMapMsg
  <2>3. CASE pc[m][a] # NoUser /\ pc[m][a].conn = "open"
    <3>1. pc' = [pc EXCEPT ![m][a].conn = "eof"]
      BY <1>1, <2>2, <2>3, SMTT(30) DEF DisconnectPlayer, CharMapInv, WorldType
    <3> QED
      BY <2>1, <2>3, <3>1, KickSeats
  <2>4. CASE ~(pc[m][a] # NoUser /\ pc[m][a].conn = "open")
    <3>1. pc' = pc
      BY <1>1, <2>2, <2>4 DEF DisconnectPlayer, CharMapInv, WorldType
    <3> QED
      BY <2>1, <3>1, SeatsKept
  <2> QED
    BY <2>3, <2>4
<1>2. CASE ~DisconnectPlayer(m)
  <2>1. UNCHANGED <<pc, latest>>
    BY <1>2 DEF ChrifParse, ConnectAck, SendMapAck, AuthOkTaken, AuthFail, ChangeMapServerAck,
                SaveAck, RecvMap, RemoveMap
  <2> QED
    BY <2>1, SeatsKept
<1> QED
  BY <1>1, <1>2

\* pc_reg_received is Enter, Play is Advance, map_quit is Leave.
EnterStep(m)   == \E c \in Char : /\ \A d \in Char : AccountOf[d] = AccountOf[c] => Plays(m)[d] = {}
                                  /\ Plays(m)' = [Plays(m) EXCEPT ![c] = {m}]
                                  /\ latest' = latest
AdvanceStep(m) == \E c \in Char : /\ Plays(m)[c] # {}
                                  /\ Plays(m)' = Plays(m)
                                  /\ latest' = [latest EXCEPT ![c] = @ + 1]
LeaveStep(m)   == \E c \in Char : /\ Plays(m)' = [Plays(m) EXCEPT ![c] = {}]
                                  /\ latest' = latest

LEMMA ReceivedEnters ==
  ASSUME CharMapInv, NEW m \in MapServer, Settled(m), NEW a \in Account, RegReceived(m, a)
  PROVE  EnterStep(m)
<1> DEFINE n == auth_node[m][a]
           p == [cid |-> n.cid, login |-> n.login, rec |-> n.rec, conn |-> "open"]
<1>1. n # NoUser /\ n.cid \in Char /\ AccountOf[n.cid] = a /\ pc[m][a] = NoUser
  BY NodeFields DEF RegReceived, NodeIs, CharMapInv, Settled, Owned, RowOwned
<1>2. p # NoUser /\ p.cid = n.cid
  <2>1. p \in Player
    BY NodeFields DEF RegReceived, NodeIs, CharMapInv, Player
  <2> QED
    BY <2>1
<1>3. /\ pc'[m][a] = p /\ latest' = latest
      /\ \A b \in Account : b # a => pc'[m][b] = pc[m][b]
  BY DEF RegReceived, CharMapInv, WorldType
<1> HIDE DEF p, n
<1>4. \A d \in Char : AccountOf[d] = a => Plays(m)[d] = {}
  BY <1>1 DEF Plays, InWorld
<1>5. \A d \in Char : InWorld(pc'[m][AccountOf[d]], d) <=>
        d = n.cid \/ InWorld(pc[m][AccountOf[d]], d)
  BY <1>1, <1>2, <1>3 DEF InWorld
<1>6. Plays(m)' = [Plays(m) EXCEPT ![n.cid] = {m}]
  BY <1>1, <1>5 DEF Plays
<1> QED
  BY <1>1, <1>3, <1>4, <1>6 DEF EnterStep

LEMMA PlayAdvances ==
  ASSUME CharMapInv, NEW m \in MapServer, Settled(m), NEW a \in Account, Play(m, a)
  PROVE  AdvanceStep(m)
<1> DEFINE o == pc[m][a]
           p == [o EXCEPT !.rec.ver = @ + 1]
<1>1. /\ o # NoUser /\ o \in Player /\ o.cid \in Char /\ o.rec \in Record /\ AccountOf[o.cid] = a
      /\ latest' = [latest EXCEPT ![o.cid] = o.rec.ver + 1]
      /\ o.rec.ver < MaxVersion
  BY PlayerFields DEF Play, CharMapInv, Settled, Owned, RowOwned
<1>2. o.rec.ver = latest[o.cid]
  BY <1>1 DEF Settled, KeptAt, Kept, Inside, InWorld
<1>3. p \in Player /\ p.cid = o.cid
  BY <1>1 DEF Player, Record
<1>4. p # NoUser
  BY <1>3
<1>5. pc'[m][a] = p /\ \A b \in Account : b # a => pc'[m][b] = pc[m][b]
  BY DEF Play, CharMapInv, WorldType
<1> HIDE DEF p
<1>6. \A b \in Account, c \in Char : InWorld(pc'[m][b], c) <=> InWorld(pc[m][b], c)
  BY <1>1, <1>3, <1>4, <1>5 DEF InWorld
<1>7. Plays(m)' = Plays(m)
  BY <1>6 DEF Plays
<1>8. Plays(m)[o.cid] # {}
  BY <1>1 DEF Plays, InWorld
<1>9. latest' = [latest EXCEPT ![o.cid] = @ + 1]
  BY <1>1, <1>2
<1> QED
  BY <1>1, <1>7, <1>8, <1>9 DEF AdvanceStep

LEMMA QuitLeaves ==
  ASSUME CharMapInv, NEW m \in MapServer, Settled(m), NEW a \in Account, pc[m][a] # NoUser,
         MapQuit(m, a)
  PROVE  LeaveStep(m)
<1> DEFINE o == pc[m][a]
<1>1. o.cid \in Char /\ AccountOf[o.cid] = a /\ latest' = latest
  BY PlayerFields DEF MapQuit, CharMapInv, Settled, Owned, RowOwned
<1>2. pc'[m][a] = NoUser /\ \A b \in Account : b # a => pc'[m][b] = pc[m][b]
  BY DEF MapQuit, CharMapInv, WorldType
<1>3. \A d \in Char : InWorld(pc'[m][AccountOf[d]], d) <=>
        d # o.cid /\ InWorld(pc[m][AccountOf[d]], d)
  BY <1>1, <1>2 DEF InWorld
<1>4. Plays(m)' = [Plays(m) EXCEPT ![o.cid] = {}]
  BY <1>1, <1>3 DEF Plays
<1> QED
  BY <1>1, <1>4 DEF LeaveStep

LEMMA WorldSteps ==
  ASSUME CharMapInv, NEW m \in MapServer, MapServer = {m}, Settled(m), [Next]_vars
  PROVE  EnterStep(m) \/ AdvanceStep(m) \/ LeaveStep(m) \/ (Plays(m)' = Plays(m) /\ latest' = latest)
<1>1. CASE MapStep
  <2>1. ASSUME NEW a \in Account, ClientGone(m, a) \/ DelayQuit(m, a)
        PROVE  LeaveStep(m) \/ Seats(m)
    <3>1. CASE pc[m][a] # NoUser /\ MapQuit(m, a)
      BY <3>1, QuitLeaves
    <3>2. CASE ~(pc[m][a] # NoUser /\ MapQuit(m, a))
      <4>1. \/ UNCHANGED <<pc, latest>>
            \/ pc[m][a] # NoUser /\ pc' = [pc EXCEPT ![m][a].conn = "none"] /\ latest' = latest
        BY <2>1, <3>2 DEF ClientGone, DelayQuit
      <4> QED
        BY <4>1, SeatsKept, KickSeats
    <3> QED
      BY <3>1, <3>2
  <2>2. ASSUME NEW a \in Account, Autosave(m, a) \/ CharSelectReq(m, a) \/ AuthDbCleanup(m, a)
        PROVE  Seats(m)
    BY <2>2, SeatsKept DEF Autosave, CharSelectReq, AuthDbCleanup, mapVars
  <2>3. ASSUME NEW c \in Char, NEW l \in Login, WantToConnection(m, c, l) PROVE Seats(m)
    BY <2>3, SeatsKept DEF WantToConnection
  <2>4. \A a \in Account : ~SetPos(m, a, m)
    BY NobodyMoves
  <2>5. EnterStep(m) \/ AdvanceStep(m) \/ LeaveStep(m) \/ Seats(m)
    BY <1>1, <2>1, <2>2, <2>3, <2>4, ReceivedEnters, PlayAdvances, ParseSeats DEF MapStep
  <2> QED
    BY <2>5, SameSeats DEF Seats
<1>2. CASE ~MapStep
  <2>1. UNCHANGED <<pc, latest>>
    <3>1. CharStep \/ Restarts \/ UNCHANGED vars => UNCHANGED <<pc, latest>>
      BY DEF CharStep, Restarts, ByChar, vars, mapVars
    <3>2. CharNotices(m) \/ MapNotices(m) \/ Connect(m) \/ LinkBreaks(m) => UNCHANGED <<pc, latest>>
      BY DEF CharNotices, ByChar, MapNotices, OnDisconnect, Connect, LinkBreaks, mapVars
    <3> QED
      BY <1>2, <3>1, <3>2 DEF Next
  <2> QED
    BY <2>1, SeatsKept, SameSeats
<1> QED
  BY <1>1, <1>2

\* With one map server the servers implement SingleWriter: nobody enters while the account
\* still plays, or from an older record than the newest.
THEOREM PlayedOnceAlone ==
  ASSUME NEW m, MapServer = {m}
  PROVE  Spec => PlayedOnce
<1>1. m \in MapServer
  OBVIOUS
<1>2. Init => Settled(m) /\ CharMapInv
  BY <1>1, SettledStart, CharMapStart
<1>3. CharMapInv /\ Settled(m) /\ [Next]_vars => Settled(m)' /\ CharMapInv'
  BY <1>1, SettledStep, CharMapStep
<1>4. CharMapInv /\ Settled(m) => Holders = Plays(m) /\ Progress = latest
  BY <1>1, PlaysIs
<1> DEFINE AsPlayed == Holders = Plays(m) /\ Progress = latest
<1>5. CharMapInv' /\ Settled(m)' => Holders' = Plays(m)' /\ Progress' = latest'
  <2>1. CharMapInv /\ Settled(m) => AsPlayed
    BY <1>4
  <2> HIDE DEF AsPlayed
  <2>2. CharMapInv' /\ Settled(m)' => AsPlayed'
    BY <2>1, PTL
  <2> QED
    BY <2>2 DEF AsPlayed
<1>6. Init => World!Init
  <2> SUFFICES ASSUME Init PROVE World!Init
    OBVIOUS
  <2>1. Holders = Plays(m) /\ Progress = latest
    BY <1>2, <1>4
  <2>2. Plays(m) = [c \in Char |-> {}] /\ latest = [c \in Char |-> 0]
    BY <1>1 DEF Init, InitMap, Plays, InWorld
  <2> QED
    BY <2>1, <2>2 DEF World!Init
<1>7. ASSUME CharMapInv, Settled(m), [Next]_vars PROVE [World!Next]_(World!vars)
  <2>1. /\ Holders = Plays(m) /\ Progress = latest
        /\ Holders' = Plays(m)' /\ Progress' = latest'
    BY <1>3, <1>4, <1>5, <1>7
  <2>2. EnterStep(m) => World!Next
    BY <1>1, <2>1 DEF EnterStep, World!Next, World!Enter
  <2>3. AdvanceStep(m) => World!Next
    BY <2>1 DEF AdvanceStep, World!Next, World!Advance
  <2>4. LeaveStep(m) => World!Next
    BY <2>1 DEF LeaveStep, World!Next, World!Leave
  <2>5. Plays(m)' = Plays(m) /\ latest' = latest => UNCHANGED World!vars
    BY <2>1 DEF World!vars
  <2> QED
    BY <1>1, <1>7, <2>2, <2>3, <2>4, <2>5, WorldSteps
<1> QED
  BY <1>2, <1>3, <1>6, <1>7, PTL DEF Spec, PlayedOnce, World!Spec

=============================================================================
