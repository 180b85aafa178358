----------------------------- MODULE MapServer ------------------------------
(***************************************************************************)
(* The map servers' side of their link to the char server (src/src/map):      *)
(* the players in the world (map_id2sd), the auth nodes of players that are    *)
(* on their way in (ST_LOGIN), out (ST_LOGOUT) or to another map server        *)
(* (ST_MAPCHANGE), and the handshake that has to be repeated after the link    *)
(* was lost.  What a player does is one step of progress, Play.                *)
(***************************************************************************)
EXTENDS InterLinks

CONSTANT DefaultMapAt  \* the map server that has MAP_PRONTERA

ASSUME DefaultMapAssumption == DefaultMapAt \in MapServer

Player == [cid : Char, login : Login, rec : Record, conn : {"open", "eof", "none"}]
Node   == [state : {"ST_LOGIN", "ST_LOGOUT", "ST_MAPCHANGE"}, cid : Char, login : Login,
           rec : Record \cup {NoUser}]

ASSUME NobodyAssumption == NoUser \notin Player \cup Node

VARIABLES
  chrif_state,  \* map server -> 0 (connecting), 1 (accepted) or 2 (ready)
  pc,           \* map server -> account -> its player in the world, or NoUser
  auth_node,    \* map server -> account -> its auth_node, or NoUser
  ipport,       \* map server -> the map servers whose maps it has an address for
  others,       \* map server -> other_mapserver_count
  latest        \* history: character -> progress it was played to last

mapVars == <<chrif_state, pc, auth_node, ipport, others, latest>>

InitMap ==
  /\ chrif_state = [m \in MapServer |-> 0]
  /\ pc = [m \in MapServer |-> [a \in Account |-> NoUser]]
  /\ auth_node = [m \in MapServer |-> [a \in Account |-> NoUser]]
  /\ ipport = [m \in MapServer |-> {}]
  /\ others = [m \in MapServer |-> 0]
  /\ latest = [c \in Char |-> 0]

\* chrif_isconnected: true of a closed socket too, until chrif_parse sees it
Connected(m) == char_fd[m] # "none" /\ chrif_state[m] = 2

\* The packets of map servers after m has written ms: lost once it is closed.
Written(m, ms) ==
  IF char_fd[m] = "open" THEN [fromMap EXCEPT ![m] = @ \o ms] ELSE fromMap
IfConnected(m, ms) == IF Connected(m) THEN Written(m, ms) ELSE fromMap

SaveMsg(a, p, q)   == [cmd |-> "save", aid |-> a, cid |-> p.cid, rec |-> p.rec, quit |-> q]
OfflineMsg(a, c)   == [cmd |-> "setcharoffline", aid |-> a, cid |-> c]
ChangeMsg(a, p)    == [cmd |-> "changemap", aid |-> a, cid |-> p.cid, login |-> p.login,
                       to |-> p.rec.at]

NodeFor(s, p) == [state |-> s, cid |-> p.cid, login |-> p.login, rec |-> p.rec]
NodeIs(m, a, s) == auth_node[m][a] # NoUser /\ auth_node[m][a].state = s

----------------------------------------------------------------------------
(* Clients.                                                                 *)

\* clif_parse_WantToConnection and chrif_authreq, when nothing is known of the
\* account.  A client that comes while its own node waits has it deleted: ClientGone.
WantToConnection(m, c, l) ==
  LET a == AccountOf[c]
  IN  /\ LoginAccount[l] = a
      /\ Quiet(m)
      /\ pc[m][a] = NoUser /\ auth_node[m][a] = NoUser
      /\ Connected(m)
      /\ fromMap' = Written(m, <<[cmd |-> "reqauth", aid |-> a, cid |-> c, login |-> l]>>)
      /\ auth_node' = [auth_node EXCEPT ![m][a] =
           [state |-> "ST_LOGIN", cid |-> c, login |-> l, rec |-> NoUser]]
      /\ UNCHANGED <<chrif_state, pc, ipport, others, latest, map_fd, char_fd, toMap>>

\* pc_reg_received: the registry, requested by pc_authok, completes the player.
RegReceived(m, a) ==
  /\ char_fd[m] = "open" /\ chrif_state[m] = 2
  /\ NodeIs(m, a, "ST_LOGIN")
  /\ auth_node[m][a].rec # NoUser
  /\ LET n == auth_node[m][a]
     IN  pc' = [pc EXCEPT ![m][a] =
                  [cid |-> n.cid, login |-> n.login, rec |-> n.rec, conn |-> "open"]]
  /\ auth_node' = [auth_node EXCEPT ![m][a] = NoUser]
  /\ UNCHANGED <<chrif_state, ipport, others, latest, linkVars>>

Play(m, a) ==
  /\ pc[m][a] # NoUser /\ pc[m][a].conn = "open"
  /\ pc[m][a].rec.ver < MaxVersion
  /\ pc' = [pc EXCEPT ![m][a].rec.ver = @ + 1]
  /\ latest' = [latest EXCEPT ![pc[m][a].cid] = pc[m][a].rec.ver + 1]
  /\ UNCHANGED <<chrif_state, auth_node, ipport, others, linkVars>>

\* chrif_save(CSAVE_NORMAL), every few minutes
Autosave(m, a) ==
  /\ pc[m][a] # NoUser
  /\ Quiet(m)
  /\ Connected(m)
  /\ fromMap' = Written(m, <<SaveMsg(a, pc[m][a], FALSE)>>)
  /\ UNCHANGED <<mapVars, map_fd, char_fd, toMap>>

\* A fault to tell from the code: the player is freed at once.
FaultQuitNode(m, a) == NoUser

\* chrif_auth_logout: the player is kept until the save is acked
QuitNode(m, a) == NodeFor("ST_LOGOUT", pc[m][a])

\* map_quit of a player in the world: chrif_save(CSAVE_QUIT)
MapQuit(m, a) ==
  /\ pc' = [pc EXCEPT ![m][a] = NoUser]
  /\ auth_node' = [auth_node EXCEPT ![m][a] = QuitNode(m, a)]
  /\ fromMap' = IfConnected(m, <<SaveMsg(a, pc[m][a], TRUE)>>)
  /\ UNCHANGED <<chrif_state, ipport, others, latest, map_fd, char_fd, toMap>>

\* clif_parse on eof: an active player quits, or stays 10 seconds longer if he
\* fought (clif_quitsave); a waiting node is deleted and the char server not told.
ClientGone(m, a) ==
  /\ Quiet(m)
  /\ \/ pc[m][a] # NoUser /\ pc[m][a].conn # "none" /\ MapQuit(m, a)
     \/ /\ pc[m][a] # NoUser /\ pc[m][a].conn # "none"
        /\ pc' = [pc EXCEPT ![m][a].conn = "none"]
        /\ UNCHANGED <<chrif_state, auth_node, ipport, others, latest, linkVars>>
     \/ /\ NodeIs(m, a, "ST_LOGIN") \/ NodeIs(m, a, "ST_MAPCHANGE")
        /\ auth_node' = [auth_node EXCEPT ![m][a] = NoUser]
        /\ UNCHANGED <<chrif_state, pc, ipport, others, latest, linkVars>>

\* clif_delayquit
DelayQuit(m, a) == pc[m][a] # NoUser /\ pc[m][a].conn = "none" /\ MapQuit(m, a)

\* clif_parse_Restart, chrif_charselectreq: the client asks to choose again.
CharSelectReq(m, a) ==
  /\ pc[m][a] # NoUser /\ pc[m][a].conn = "open"
  /\ Quiet(m)
  /\ Connected(m)
  /\ fromMap' = Written(m, <<[cmd |-> "charselect", aid |-> a, login |-> pc[m][a].login]>>)
  /\ UNCHANGED <<mapVars, map_fd, char_fd, toMap>>

\* pc_setpos to a map of another server: chrif_save(CSAVE_CHANGE_MAPSERV), then
\* chrif_changemapserver.
SetPos(m, a, to) ==
  /\ pc[m][a] # NoUser /\ pc[m][a].conn = "open"
  /\ Quiet(m)
  /\ to \in ipport[m]
  /\ LET p == [pc[m][a] EXCEPT !.rec.at = to]
     IN  /\ auth_node' = [auth_node EXCEPT ![m][a] = NodeFor("ST_MAPCHANGE", p)]
         /\ fromMap' = IfConnected(m, <<SaveMsg(a, p, FALSE)>> \o
                         (IF others[m] < 1 THEN <<>> ELSE <<ChangeMsg(a, p)>>))
  /\ pc' = [pc EXCEPT ![m][a] = NoUser]
  /\ UNCHANGED <<chrif_state, ipport, others, latest, map_fd, char_fd, toMap>>

----------------------------------------------------------------------------
(* Packets of the char server: chrif_parse.                                 *)

Take(m, cmd) ==
  /\ char_fd[m] = "open"
  /\ toMap[m] # <<>>
  /\ Head(toMap[m]).cmd = cmd
  /\ toMap' = [toMap EXCEPT ![m] = Tail(@)]

\* chrif_connectack (0x2af9): the maps are sent.
ConnectAck(m) ==
  /\ Take(m, "connectack")
  /\ chrif_state' = [chrif_state EXCEPT ![m] = 1]
  /\ fromMap' = Written(m, <<[cmd |-> "sendmap"]>>)
  /\ UNCHANGED <<pc, auth_node, ipport, others, latest, map_fd, char_fd>>

\* A fault to tell from the code: pending final saves wait for the next timeout.
FaultResent(m, a) == <<>>

\* chrif_reconnect, what it sends for the node of account a
Resent(m, a) ==
  LET n == auth_node[m][a]
  IN  CASE n.state = "ST_LOGIN"  -> <<OfflineMsg(a, n.cid)>>
        [] n.state = "ST_LOGOUT" -> <<SaveMsg(a, n, TRUE)>>
        [] n.state = "ST_MAPCHANGE" ->
             IF n.rec.at \in ipport[m] /\ others[m] >= 1 THEN <<ChangeMsg(a, n)>> ELSE <<>>

\* chrif_sendmapack (0x2afb), chrif_on_ready: the players of m, then its nodes
SendMapAck(m) ==
  /\ Take(m, "mapack")
  /\ chrif_state' = [chrif_state EXCEPT ![m] = 2]
  /\ LET users  == [a \in Account |-> IF pc[m][a] = NoUser THEN NoUser ELSE pc[m][a].cid]
         resend == {a \in Account : auth_node[m][a] # NoUser /\ Resent(m, a) # <<>>}
     IN  \E order \in Orders(resend) :
           fromMap' = Written(m, <<[cmd |-> "regmapuser", users |-> users]>>
                                   \o [i \in DOMAIN order |-> Resent(m, order[i])[1]])
  /\ auth_node' = [auth_node EXCEPT ![m] =
       [a \in Account |-> IF NodeIs(m, a, "ST_LOGIN") THEN NoUser ELSE @[a]]]
  /\ UNCHANGED <<pc, ipport, others, latest, map_fd, char_fd>>

\* chrif_authok (0x2afd): ignored unless the node waits; pc_authok puts a player
\* whose map is not here on the default map, and fails if that is not here either.
AuthOkTaken(m) ==
  /\ Take(m, "authok")
  /\ LET p == Head(toMap[m])
         a == p.aid
     IN  IF pc[m][a] = NoUser /\ NodeIs(m, a, "ST_LOGIN")
         THEN IF /\ auth_node[m][a].cid = p.cid
                 /\ auth_node[m][a].login = p.login
                 /\ m \in {p.rec.at, DefaultMapAt}
              THEN /\ auth_node' = [auth_node EXCEPT ![m][a].rec = [p.rec EXCEPT !.at = m]]
                   /\ UNCHANGED fromMap
              ELSE /\ auth_node' = [auth_node EXCEPT ![m][a] =
                        IF @.cid = p.cid THEN NoUser ELSE @]
                   /\ fromMap' = IfConnected(m, <<OfflineMsg(a, auth_node[m][a].cid)>>)
         ELSE UNCHANGED <<auth_node, fromMap>>
  /\ UNCHANGED <<chrif_state, pc, ipport, others, latest, map_fd, char_fd>>

\* chrif_authfail (0x2b27)
AuthFail(m) ==
  /\ Take(m, "authfail")
  /\ LET p == Head(toMap[m])
     IN  auth_node' = [auth_node EXCEPT ![m][p.aid] =
           IF NodeIs(m, p.aid, "ST_LOGIN") /\ @.cid = p.cid /\ @.login = p.login
           THEN NoUser ELSE @]
  /\ UNCHANGED <<chrif_state, pc, ipport, others, latest, map_fd, char_fd, fromMap>>

\* chrif_disconnectplayer (0x2b1f): an entering player is dropped, one that has
\* already hung up stays.
DisconnectPlayer(m) ==
  /\ Take(m, "kick")
  /\ LET a == Head(toMap[m]).aid
     IN  /\ auth_node' = [auth_node EXCEPT ![m][a] =
              IF pc[m][a] = NoUser /\ NodeIs(m, a, "ST_LOGIN") THEN NoUser ELSE @]
         /\ pc' = [pc EXCEPT ![m][a] =
              IF @ # NoUser /\ @.conn = "open" THEN [@ EXCEPT !.conn = "eof"] ELSE @]
  /\ UNCHANGED <<chrif_state, ipport, others, latest, map_fd, char_fd, fromMap>>

\* chrif_changemapserverack (0x2b06): sent away, or set offline if it failed
ChangeMapServerAck(m) ==
  /\ Take(m, "changeack")
  /\ LET p == Head(toMap[m])
     IN  IF NodeIs(m, p.aid, "ST_MAPCHANGE") /\ auth_node[m][p.aid].cid = p.cid
         THEN /\ auth_node' = [auth_node EXCEPT ![m][p.aid] = NoUser]
              /\ fromMap' = IF p.ok THEN fromMap
                            ELSE IfConnected(m, <<OfflineMsg(p.aid, p.cid)>>)
         ELSE UNCHANGED <<auth_node, fromMap>>
  /\ UNCHANGED <<chrif_state, pc, ipport, others, latest, map_fd, char_fd>>

\* chrif_save_ack (0x2b21)
SaveAck(m) ==
  /\ Take(m, "saveack")
  /\ LET p == Head(toMap[m])
     IN  auth_node' = [auth_node EXCEPT ![m][p.aid] =
           IF NodeIs(m, p.aid, "ST_LOGOUT") /\ @.cid = p.cid THEN NoUser ELSE @]
  /\ UNCHANGED <<chrif_state, pc, ipport, others, latest, map_fd, char_fd, fromMap>>

\* chrif_recvmap (0x2b04)
RecvMap(m) ==
  /\ Take(m, "maps")
  /\ ipport' = [ipport EXCEPT ![m] = @ \cup {Head(toMap[m]).of}]
  /\ others' = [others EXCEPT ![m] = @ + 1]
  /\ UNCHANGED <<chrif_state, pc, auth_node, latest, map_fd, char_fd, fromMap>>

\* chrif_removemap (0x2b20): the address is in network order where map_eraseipport
\* compares it, so only the counter changes.
RemoveMap(m) ==
  /\ Take(m, "removemap")
  /\ others' = [others EXCEPT ![m] = @ - 1]
  /\ UNCHANGED <<chrif_state, pc, auth_node, ipport, latest, map_fd, char_fd, fromMap>>

----------------------------------------------------------------------------
(* Timers and the link.                                                     *)

\* auth_db_cleanup: after a minute a final save is sent again, other nodes are
\* dropped and their character set offline.
AuthDbCleanup(m, a) ==
  /\ Quiet(m)
  /\ Connected(m)
  /\ auth_node[m][a] # NoUser
  /\ LET n == auth_node[m][a]
     IN  IF n.state = "ST_LOGOUT"
         THEN /\ fromMap' = Written(m, <<SaveMsg(a, n, TRUE)>>)
              /\ UNCHANGED auth_node
         ELSE /\ fromMap' = Written(m, <<OfflineMsg(a, n.cid)>>)
              /\ auth_node' = [auth_node EXCEPT ![m][a] = NoUser]
  /\ UNCHANGED <<chrif_state, pc, ipport, others, latest, map_fd, char_fd, toMap>>

\* chrif_parse on eof: chrif_on_disconnect
OnDisconnect(m) ==
  /\ char_fd[m] = "eof"
  /\ char_fd' = [char_fd EXCEPT ![m] = "none"]
  /\ ipport' = [ipport EXCEPT ![m] = {}]
  /\ others' = [others EXCEPT ![m] = 0]
  /\ UNCHANGED <<chrif_state, pc, auth_node, latest, map_fd, fromMap, toMap>>

\* check_connect_char_server: the handshake starts over.
Reconnecting(m) == chrif_state' = [chrif_state EXCEPT ![m] = 0]

ChrifParse(m) ==
  \/ ConnectAck(m)
  \/ SendMapAck(m)
  \/ AuthOkTaken(m)
  \/ AuthFail(m)
  \/ DisconnectPlayer(m)
  \/ ChangeMapServerAck(m)
  \/ SaveAck(m)
  \/ RecvMap(m)
  \/ RemoveMap(m)

=============================================================================
