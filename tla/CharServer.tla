----------------------------- MODULE CharServer -----------------------------
(***************************************************************************)
(* The char server (src/src/char): the sessions of clients that choose a      *)
(* character, the table of online accounts (online_char_db), the AUTH_TIMEOUT *)
(* timers of accounts it asked a map server to kick, the one-use auth nodes   *)
(* that hand a client over to a map server and back, and the characters: the   *)
(* cached records (char_db) over the rows in SQL.                              *)
(*                                                                            *)
(* One thread: a handler is an action.  The login server is an environment     *)
(* that grants a login at most once (what LoginServer guarantees) and may ask  *)
(* for a kick at any time.  SQL statements do not fail here.                   *)
(***************************************************************************)
EXTENDS InterLinks

CONSTANTS
  LoginLinkFails,  \* whether the link to the login server can break
  CharRestarts     \* bound: how often the process is restarted

ASSUME CharAssumption ==
  /\ LoginLinkFails \in BOOLEAN
  /\ CharRestarts \in Nat

INVALID_TIMER == -1
NONE    == -1    \* online_char_data: no char_id / no server / no fd
UNKNOWN == -2    \* online_char_data.server: moving, or on a map server that is gone

OnlineEntry == [char_id : Char \cup {NONE}, server : MapServer \cup {NONE, UNKNOWN},
                fd : Fd \cup {NONE}, waiting_disconnect : Tid \cup {INVALID_TIMER}]
Session     == [login : Login, auth : BOOLEAN, eof : BOOLEAN]
AuthNode    == [char_id : Char \cup {0}, login : Login]

ASSUME NoUserAssumption == NoUser \notin OnlineEntry \cup Session \cup AuthNode \cup Record

VARIABLES
  session,     \* client socket -> its char_session_data, or NoUser
  asked,       \* 0x2712 requests at the login server: <<socket, login>>
  login_fd,    \* "up", "lost" (-1) or "none" (0: a reconnect failed)
  online_db,   \* account -> its online_char_data, or NoUser
  timer,       \* timer id -> the account it will set offline, or NoUser
  auth_db,     \* account -> its auth_node, or NoUser
  cache,       \* character -> its record in char_db, or NoUser
  sql,         \* character -> its record in SQL
  maps,        \* the map servers whose map list is known
  restarts,    \* restarts so far
  spent        \* history: logins the login server has granted

charVars == <<session, asked, login_fd, online_db, timer, auth_db, cache, maps>>

InitChar ==
  /\ session = [f \in Fd |-> NoUser]
  /\ asked = {}
  /\ login_fd = IF LoginLinkFails THEN "lost" ELSE "up"
  /\ online_db = [a \in Account |-> NoUser]
  /\ timer = [t \in Tid |-> NoUser]
  /\ auth_db = [a \in Account |-> NoUser]
  /\ cache = [c \in Char |-> NoUser]
  /\ sql \in [Char -> [ver : {0}, at : MapServer]]
  /\ maps = {}
  /\ restarts = 0
  /\ spent = {}

TypeChar ==
  /\ session \in [Fd -> Session \cup {NoUser}]
  /\ asked \subseteq Fd \X Login
  /\ login_fd \in {"up", "lost", "none"}
  /\ online_db \in [Account -> OnlineEntry \cup {NoUser}]
  /\ timer \in [Tid -> Account \cup {NoUser}]
  /\ auth_db \in [Account -> AuthNode \cup {NoUser}]
  /\ cache \in [Char -> Record \cup {NoUser}]
  /\ sql \in [Char -> Record]
  /\ maps \subseteq MapServer
  /\ restarts \in 0 .. CharRestarts
  /\ spent \subseteq Login

Valid(m)  == map_fd[m] # "free"      \* session_isValid(map_server[m].fd)
Active(m) == map_fd[m] = "open"      \* session_isActive
Hosts(m)  == Valid(m) /\ m \in maps  \* char_search_mapserver finds m for its maps

\* The packets q of map servers, after sending ms to m: lost once it is closed.
Sent(q, m, ms) == IF map_fd[m] = "open" THEN [q EXCEPT ![m] = @ \o ms] ELSE q

Kicks(order) == [i \in DOMAIN order |-> [cmd |-> "kick", aid |-> order[i]]]

\* mapif_disconnectplayer for account a at server s, when s is a map server
Kicked(q, s, a) ==
  IF s \in MapServer THEN Sent(q, s, <<[cmd |-> "kick", aid |-> a]>>) ELSE q

----------------------------------------------------------------------------
(* The helpers of char.cpp, as the entry they leave for the account.        *)

\* A fault to tell from the code: the timer id of a new entry is not initialised.
FaultNewEntry == [char_id |-> NONE, server |-> NONE, fd |-> NONE, waiting_disconnect |-> 0]

\* online_char_data::online_char_data
NewEntry == [char_id |-> NONE, server |-> NONE, fd |-> NONE,
             waiting_disconnect |-> INVALID_TIMER]
Entry(a) == IF online_db[a] = NoUser THEN NewEntry ELSE online_db[a]

TimersOf(as) ==
  {online_db[a].waiting_disconnect : a \in {b \in as : online_db[b] # NoUser}}
Without(ts)  == [t \in Tid |-> IF t \in ts THEN NoUser ELSE timer[t]]

\* A fault to tell from the code: the entry forgets its timer, which runs on.
FaultStopTimers(as) == timer' = timer

\* delete_timer on what the entries of as wait for
StopTimers(as) == timer' = Without(TimersOf(as))

\* char_set_charselect
SelectEntry(a) == [NewEntry EXCEPT !.fd = Entry(a).fd]

\* char_set_char_online: the kick goes to another map server that has the account
OnlineEntryAt(s, c, a) ==
  [char_id |-> c, server |-> s, fd |-> Entry(a).fd, waiting_disconnect |-> INVALID_TIMER]
KickElsewhere(q, s, a) ==
  IF Entry(a).char_id # NONE /\ Entry(a).server # s THEN Kicked(q, Entry(a).server, a) ELSE q

\* char_set_char_offline: the entry is reset if it is for that character, and a
\* character that went offline leaves char_db.
OfflineEntry(c, a) ==
  IF online_db[a] = NoUser THEN NoUser
  ELSE IF online_db[a].char_id = c THEN SelectEntry(a)
  ELSE [online_db[a] EXCEPT !.waiting_disconnect = INVALID_TIMER]
OfflineCache(db, c) ==
  IF c \in Char THEN [db EXCEPT ![c] = NoUser] ELSE db

SetOffline(db, c, a) ==
  /\ online_db' = [online_db EXCEPT ![a] = OfflineEntry(c, a)]
  /\ cache' = OfflineCache(db, c)
  /\ StopTimers({a})

\* char_db_setoffline over the table, for a map server that is gone
LostEntries(m) ==
  [a \in Account |->
     IF online_db[a] # NoUser /\ online_db[a].server = m
     THEN [online_db[a] EXCEPT !.server = UNKNOWN] ELSE online_db[a]]

\* The kick of an account at server s, and the AUTH_TIMEOUT timer unless one runs.
KickWithTimer(a) ==
  /\ toMap' = Kicked(toMap, online_db[a].server, a)
  /\ IF online_db[a].waiting_disconnect = INVALID_TIMER
     THEN \E t \in Tid :
            /\ timer[t] = NoUser
            /\ timer' = [timer EXCEPT ![t] = a]
            /\ online_db' = [online_db EXCEPT ![a].waiting_disconnect = t]
     ELSE UNCHANGED <<timer, online_db>>

\* The record a handler works on: the cached one, else the row in SQL, which
\* char_mmo_char_fromsql caches.
Loaded(c) == IF cache[c] # NoUser THEN cache[c] ELSE sql[c]

----------------------------------------------------------------------------
(* Clients.                                                                 *)

\* "There's already a connection from this account that hasn't picked a char yet"
ConnectionTaken(f, a) ==
  /\ Entry(a).fd \in Fd
  /\ session[Entry(a).fd] # NoUser
  /\ Entry(a).fd # f

\* char_auth_ok on socket f; the session is known by its login l.
AuthOk(f, l) ==
  LET a == LoginAccount[l]
  IN  \/ /\ Entry(a).server \in MapServer
         /\ KickWithTimer(a)
         /\ session' = [session EXCEPT ![f] = [login |-> l, auth |-> FALSE, eof |-> FALSE]]
      \/ /\ Entry(a).server \notin MapServer
         /\ ConnectionTaken(f, a)
         /\ session' = [session EXCEPT ![f] = [login |-> l, auth |-> FALSE, eof |-> FALSE]]
         /\ UNCHANGED <<online_db, timer, toMap>>
      \/ /\ Entry(a).server \notin MapServer
         /\ ~ConnectionTaken(f, a)
         /\ session' = [session EXCEPT ![f] = [login |-> l, auth |-> TRUE, eof |-> FALSE]]
         /\ online_db' = [online_db EXCEPT ![a] =
              IF online_db[a] = NoUser THEN NewEntry ELSE [SelectEntry(a) EXCEPT !.fd = f]]
         /\ StopTimers({a})
         /\ UNCHANGED toMap

HasNode(a, l) == IF auth_db[a] = NoUser THEN FALSE ELSE auth_db[a].login = l

\* chclif_parse_reqtoconnect (0x65): a node from a map server lets the client in,
\* else the login server is asked.
ParseReqToConnect(f, l) ==
  LET a == LoginAccount[l]
  IN  /\ session[f] = NoUser /\ login_fd # "lost"
      /\ \/ /\ HasNode(a, l)
            /\ auth_db' = [auth_db EXCEPT ![a] = NoUser]
            /\ AuthOk(f, l)
            /\ UNCHANGED asked
         \/ /\ ~HasNode(a, l)
            /\ session' = [session EXCEPT ![f] = [login |-> l, auth |-> FALSE, eof |-> FALSE]]
            /\ asked' = IF login_fd = "up" THEN asked \cup {<<f, l>>} ELSE asked
            /\ UNCHANGED <<auth_db, online_db, timer, toMap>>
      /\ UNCHANGED <<login_fd, cache, sql, maps, restarts, spent,
                     map_fd, char_fd, fromMap>>

\* The login server grants a login once, and none older than one it has granted
\* (LoginServer!GrantedNotLive and NewestLoginWins).
Grantable(l) == \A n \in spent : LoginAccount[n] = LoginAccount[l] => n < l

\* chlogif_parse_ackaccreq (0x2713): the session may have changed since.
ParseAckAccReq(f, l, ok) ==
  /\ <<f, l>> \in asked
  /\ ok => Grantable(l)
  /\ asked' = asked \ {<<f, l>>}
  /\ spent' = IF ok THEN spent \cup {l} ELSE spent
  /\ IF ok /\ session[f] = [login |-> l, auth |-> FALSE, eof |-> FALSE]
     THEN AuthOk(f, l)
     ELSE UNCHANGED <<session, online_db, timer, toMap>>
  /\ UNCHANGED <<login_fd, auth_db, cache, sql, maps, restarts,
                 map_fd, char_fd, fromMap>>

\* What chclif_parse and FIFOSD_CHECK let through to the handlers.
Authed(f, c) ==
  /\ session[f] # NoUser /\ login_fd # "lost"
  /\ session[f].auth /\ ~session[f].eof
  /\ LoginAccount[session[f].login] = AccountOf[c]

\* What a character selection does first: the account is "moving" (-2) and the
\* record is read from SQL.
Selected(f, c, rec) ==
  LET a == AccountOf[c]
  IN  /\ online_db' = [online_db EXCEPT ![a] = OnlineEntryAt(UNKNOWN, c, a)]
      /\ StopTimers({a})
      /\ toMap' = KickElsewhere(toMap, UNKNOWN, a)
      /\ cache' = [cache EXCEPT ![c] = rec]
      /\ UNCHANGED <<session, asked, login_fd, sql, maps, restarts, spent,
                     map_fd, char_fd, fromMap>>

HandOver(f, c) ==
  auth_db' = [auth_db EXCEPT ![AccountOf[c]] = [char_id |-> c, login |-> session[f].login]]

\* chclif_parse_charselect (0x66)
ParseCharSelect(f, c) ==
  /\ Authed(f, c)
  /\ \E m \in MapServer : Hosts(m)
  /\ Selected(f, c, sql[c])
  /\ IF Hosts(sql[c].at) THEN HandOver(f, c) ELSE UNCHANGED auth_db

\* chclif_parse_select_accessible_map: only if the map of the last point is gone.
ParseSelectAccessibleMap(f, c, m) ==
  /\ Authed(f, c)
  /\ IF ~Hosts(sql[c].at) /\ Hosts(m)
     THEN /\ Selected(f, c, [sql[c] EXCEPT !.at = m])
          /\ HandOver(f, c)
     ELSE /\ Selected(f, c, [sql[c] EXCEPT !.at = IF Hosts(sql[c].at) THEN @ ELSE m])
          /\ UNCHANGED auth_db

\* The client hangs up.
ClientHangsUp(f) ==
  /\ session[f] # NoUser /\ ~session[f].eof
  /\ session' = [session EXCEPT ![f].eof = TRUE]
  /\ UNCHANGED <<asked, login_fd, online_db, timer, auth_db, cache, sql, maps,
                 restarts, spent, linkVars>>

\* A fault to tell from the code: the entry keeps the number of the closed socket.
FaultFreed(db, f, a) == db

\* The entry no longer points at socket f.
Freed(db, f, a) ==
  IF db[a] # NoUser /\ db[a].fd = f THEN [db EXCEPT ![a].fd = NONE] ELSE db

\* chclif_parse on eof, or without a login server: the socket is closed, and the
\* account set offline if it is not in any server.
ClientClosed(f) ==
  /\ session[f] # NoUser
  /\ session[f].eof \/ login_fd = "lost"
  /\ session' = [session EXCEPT ![f] = NoUser]
  /\ IF session[f].auth
     THEN LET a  == LoginAccount[session[f].login]
              db == Freed(online_db, f, a)
          IN  IF db[a] = NoUser \/ db[a].server = NONE
              THEN /\ online_db' = [db EXCEPT ![a] =
                        IF db[a] = NoUser THEN NoUser
                        ELSE IF db[a].char_id = NONE THEN [NewEntry EXCEPT !.fd = db[a].fd]
                        ELSE [db[a] EXCEPT !.waiting_disconnect = INVALID_TIMER]]
                   /\ StopTimers({a})
              ELSE online_db' = db /\ UNCHANGED timer
     ELSE UNCHANGED <<online_db, timer>>
  /\ UNCHANGED <<asked, login_fd, auth_db, cache, sql, maps, restarts, spent, linkVars>>

----------------------------------------------------------------------------
(* The login server.                                                        *)

SessionsOf(a) == {f \in Fd : session[f] # NoUser /\ LoginAccount[session[f].login] = a}

\* chlogif_parse_askkick (0x2734)
ParseAskKick(a) ==
  /\ login_fd = "up"
  /\ auth_db' = [auth_db EXCEPT ![a] = NoUser]
  /\ \/ /\ online_db[a] # NoUser
        /\ online_db[a].server \in MapServer
        /\ KickWithTimer(a)
        /\ UNCHANGED <<session, cache>>
     \/ /\ online_db[a] # NoUser
        /\ online_db[a].server \notin MapServer
        /\ SessionsOf(a) # {}
        /\ \E f \in SessionsOf(a) :
             /\ \A g \in SessionsOf(a) : f <= g
             /\ session' = [session EXCEPT ![f].eof = TRUE]
        /\ UNCHANGED <<online_db, timer, cache, toMap>>
     \/ /\ online_db[a] # NoUser
        /\ online_db[a].server \notin MapServer
        /\ SessionsOf(a) = {}
        /\ SetOffline(cache, NONE, a)
        /\ UNCHANGED <<session, toMap>>
     \/ /\ online_db[a] = NoUser
        /\ UNCHANGED <<session, online_db, timer, cache, toMap>>
  /\ UNCHANGED <<asked, login_fd, sql, maps, restarts, spent, map_fd, char_fd, fromMap>>

\* The link to the login server breaks (chlogif_parse on eof), and
\* chlogif_check_connect_logserver tries again: -1 becomes 0 when it fails.
LoginLinkLost ==
  /\ LoginLinkFails /\ login_fd = "up"
  /\ login_fd' = "lost"
  /\ asked' = {}
  /\ UNCHANGED <<session, online_db, timer, auth_db, cache, sql, maps, restarts,
                 spent, linkVars>>

CheckConnectLogServer ==
  /\ login_fd # "up"
  /\ login_fd' \in {"up", "none"}
  /\ UNCHANGED <<session, asked, online_db, timer, auth_db, cache, sql, maps,
                 restarts, spent, linkVars>>

----------------------------------------------------------------------------
(* Timers.                                                                  *)

TimerIsCurrent(a, t) == online_db[a] # NoUser /\ online_db[a].waiting_disconnect = t

\* char_chardb_waiting_disconnect: the map server did not answer the kick.
WaitingDisconnect(t) ==
  /\ timer[t] # NoUser
  /\ LET a == timer[t]
     IN  IF TimerIsCurrent(a, t)
         THEN /\ online_db' = [online_db EXCEPT ![a] = OfflineEntry(@.char_id, a)]
              /\ cache' = OfflineCache(cache, online_db[a].char_id)
         ELSE UNCHANGED <<online_db, cache>>
  /\ timer' = [timer EXCEPT ![t] = NoUser]
  /\ UNCHANGED <<session, asked, login_fd, auth_db, sql, maps, restarts, spent, linkVars>>

\* char_online_data_cleanup: the walk over the table stops ("return 0") at the
\* first account whose client is still connected; the table is unordered, so
\* any set of accounts without a client may come before it.
OnlineDataCleanup ==
  LET connected == {a \in Account : online_db[a] # NoUser /\ online_db[a].fd # NONE}
      idle      == {a \in Account : online_db[a] # NoUser /\ online_db[a].fd = NONE}
  IN  \E walked \in SUBSET idle :
        /\ connected = {} => walked = idle
        /\ LET lost == {a \in walked : online_db[a].server = UNKNOWN}
           IN  /\ cache' = [c \in Char |->
                     IF \E a \in lost : online_db[a].char_id = c THEN NoUser ELSE cache[c]]
               /\ StopTimers(lost)
        /\ online_db' = [a \in Account |->
             IF a \in walked /\ online_db[a].server < 0 THEN NoUser ELSE online_db[a]]
        /\ UNCHANGED <<session, asked, login_fd, auth_db, sql, maps, restarts, spent, linkVars>>

----------------------------------------------------------------------------
(* Packets of a map server: chmapif_parse and its handlers.                 *)

Receive(m, cmd) ==
  /\ Active(m)
  /\ fromMap[m] # <<>>
  /\ Head(fromMap[m]).cmd = cmd
  /\ fromMap' = [fromMap EXCEPT ![m] = Tail(@)]

Msg(m) == Head(fromMap[m])

\* A fault to tell from the code: the new map server is told of no other.
FaultKnownMaps(m) == {}

\* chmapif_send_maps: whose maps a new map server is told
KnownMaps(m) == {x \in maps \ {m} : Valid(x)}

\* chmapif_parse_getmapname (0x2afa): the maps of m become known to all, and m
\* learns those of the others, after the ack.
ParseGetMapName(m) ==
  /\ Receive(m, "sendmap")
  /\ maps' = maps \cup {m}
  /\ \E order \in Orders(KnownMaps(m)) :
       /\ \A i, j \in DOMAIN order : i < j => order[i] < order[j]
       /\ toMap' = [n \in MapServer |->
            IF n = m
            THEN toMap[n] \o <<[cmd |-> "mapack"]>>
                          \o [i \in DOMAIN order |-> [cmd |-> "maps", of |-> order[i]]]
            ELSE IF Active(n) THEN Append(toMap[n], [cmd |-> "maps", of |-> m]) ELSE toMap[n]]
  /\ UNCHANGED <<session, asked, login_fd, online_db, timer, auth_db, cache, sql,
                 restarts, spent, map_fd, char_fd>>

\* chmapif_parse_regmapuser (0x2aff): what m had becomes unknown, then the users
\* it lists are put on m.  Their timers go on.
ParseRegMapUser(m) ==
  /\ Receive(m, "regmapuser")
  /\ LET users  == Msg(m).users
         listed == {a \in Account : users[a] # NoUser}
         moved(n) == {a \in listed : n # m /\ Entry(a).server = n}
     IN  /\ online_db' = [a \in Account |->
              IF a \in listed
              THEN [Entry(a) EXCEPT !.server = m, !.char_id = users[a]]
              ELSE LostEntries(m)[a]]
         /\ \E order \in [MapServer -> UNION {Orders(moved(n)) : n \in MapServer}] :
              /\ \A n \in MapServer : order[n] \in Orders(moved(n))
              /\ toMap' = [n \in MapServer |->
                   IF Active(n) THEN toMap[n] \o Kicks(order[n]) ELSE toMap[n]]
  /\ UNCHANGED <<session, asked, login_fd, timer, auth_db, cache, sql, maps,
                 restarts, spent, map_fd, char_fd>>

\* A fault to tell from the code: saves of characters that are not online are
\* dropped, final ones too.
FaultAccepted(p) == Entry(p.aid).char_id = p.cid
\* The copy to char_db is made only for a character that had no entry there.
FaultCachedToo(db, c, r) == IF db[c] = NoUser THEN [db EXCEPT ![c] = r] ELSE db

\* char_mmo_char_tosql: the rows are updated if the record differs from the one in
\* char_db, of which a Record shows only a part: one that looks the same may differ.
\* In the end it becomes the entry of char_db.
ToSql(c, r) == {[sql EXCEPT ![c] = r]} \cup (IF cache[c] = r THEN {sql} ELSE {})
CachedToo(db, c, r) == [db EXCEPT ![c] = r]

\* The test of 0x2b01.  Byte 12 is the "final save" flag; byte 13, which the test
\* reads as well, is the low byte of the character id.
Accepted(p) ==
  \/ p.quit
  \/ p.cid \notin LowByteZero
  \/ Entry(p.aid).char_id = p.cid

\* chmapif_parse_reqsavechar (0x2b01): store the record; a final save sets the
\* character offline and is acked.
ParseReqSaveChar(m) ==
  /\ Receive(m, "save")
  /\ LET p == Msg(m)
     IN  IF Accepted(p)
         THEN /\ sql' \in ToSql(p.cid, p.rec)
              /\ IF p.quit
                 THEN /\ SetOffline(CachedToo(cache, p.cid, p.rec), p.cid, p.aid)
                      /\ toMap' = Sent(toMap, m, <<[cmd |-> "saveack", aid |-> p.aid,
                                                    cid |-> p.cid]>>)
                 ELSE /\ cache' = CachedToo(cache, p.cid, p.rec)
                      /\ UNCHANGED <<online_db, timer, toMap>>
         ELSE /\ online_db' = [online_db EXCEPT ![p.aid] = OnlineEntryAt(m, p.cid, p.aid)]
              /\ StopTimers({p.aid})
              /\ toMap' = KickElsewhere(toMap, m, p.aid)
              /\ UNCHANGED <<sql, cache>>
  /\ UNCHANGED <<session, asked, login_fd, auth_db, maps, restarts, spent, map_fd, char_fd>>

\* chmapif_parse_authok (0x2b02): the player goes back to choosing a character.
ParseAuthOk(m) ==
  /\ Receive(m, "charselect")
  /\ LET p == Msg(m)
     IN  /\ auth_db' = [auth_db EXCEPT ![p.aid] = [char_id |-> 0, login |-> p.login]]
         /\ online_db' = [online_db EXCEPT ![p.aid] = SelectEntry(p.aid)]
         /\ StopTimers({p.aid})
  /\ UNCHANGED <<session, asked, login_fd, cache, sql, maps, restarts, spent,
                 map_fd, char_fd, toMap>>

\* chmapif_parse_reqchangemapserv (0x2b05)
ParseReqChangeMapServ(m) ==
  /\ Receive(m, "changemap")
  /\ LET p  == Msg(m)
         ok == Hosts(p.to) /\ Active(p.to)
     IN  /\ cache' = [cache EXCEPT ![p.cid] =
                        IF ok THEN [Loaded(p.cid) EXCEPT !.at = p.to] ELSE Loaded(p.cid)]
         /\ auth_db' = IF ok THEN [auth_db EXCEPT ![p.aid] = [char_id |-> p.cid, login |-> p.login]]
                       ELSE auth_db
         /\ online_db' = IF ok THEN [online_db EXCEPT ![p.aid] =
                                       [Entry(p.aid) EXCEPT !.char_id = p.cid, !.server = p.to]]
                         ELSE online_db
         /\ toMap' = Sent(toMap, m, <<[cmd |-> "changeack", aid |-> p.aid, cid |-> p.cid, ok |-> ok]>>)
  /\ UNCHANGED <<session, asked, login_fd, timer, sql, maps, restarts, spent, map_fd, char_fd>>

\* chmapif_parse_setcharoffline (0x2b17)
ParseSetCharOffline(m) ==
  /\ Receive(m, "setcharoffline")
  /\ SetOffline(cache, Msg(m).cid, Msg(m).aid)
  /\ UNCHANGED <<session, asked, login_fd, auth_db, sql, maps, restarts, spent,
                 map_fd, char_fd, toMap>>

\* chmapif_parse_setcharonline (0x2b19)
ParseSetCharOnline(m) ==
  /\ Receive(m, "setcharonline")
  /\ LET p == Msg(m)
     IN  /\ online_db' = [online_db EXCEPT ![p.aid] = OnlineEntryAt(m, p.cid, p.aid)]
         /\ StopTimers({p.aid})
         /\ toMap' = KickElsewhere(toMap, m, p.aid)
  /\ UNCHANGED <<session, asked, login_fd, auth_db, cache, sql, maps, restarts, spent,
                 map_fd, char_fd>>

\* A fault to tell from the code: any node of the account will do.
FaultNodeMatches(p) == auth_db[p.aid] # NoUser

NodeUsed(a)    == [auth_db EXCEPT ![a] = NoUser]
NodeMatches(p) == auth_db[p.aid] = [char_id |-> p.cid, login |-> p.login]

\* chmapif_parse_reqauth (0x2b26): "only use the auth once and mark user online"
ParseReqAuth(m) ==
  /\ Receive(m, "reqauth")
  /\ LET p == Msg(m)
     IN  /\ cache' = [cache EXCEPT ![p.cid] = Loaded(p.cid)]
         /\ IF NodeMatches(p)
            THEN /\ auth_db' = NodeUsed(p.aid)
                 /\ online_db' = [online_db EXCEPT ![p.aid] = OnlineEntryAt(m, p.cid, p.aid)]
                 /\ StopTimers({p.aid})
                 /\ toMap' = KickElsewhere(Sent(toMap, m,
                      <<[cmd |-> "authok", aid |-> p.aid, cid |-> p.cid,
                         login |-> p.login, rec |-> Loaded(p.cid)]>>), m, p.aid)
            ELSE /\ toMap' = Sent(toMap, m, <<[cmd |-> "authfail", aid |-> p.aid,
                                               cid |-> p.cid, login |-> p.login]>>)
                 /\ UNCHANGED <<auth_db, online_db, timer>>
  /\ UNCHANGED <<session, asked, login_fd, sql, maps, restarts, spent, map_fd, char_fd>>

\* chmapif_parse_setalloffline (0x2b18): char_db_kickoffline for what is on m,
\* which is kicked there.
ParseSetAllOffline(m) ==
  /\ Receive(m, "setalloffline")
  /\ LET here == {a \in Account : Entry(a).server = m}
     IN  \E order \in Orders(here) :
           toMap' = Sent(toMap, m, Kicks(order))
  /\ UNCHANGED <<charVars, sql, restarts, spent, map_fd, char_fd>>

----------------------------------------------------------------------------
(* Links and restarts.                                                      *)

\* chclif_parse_maplogin (0x2af8), once the map server has connected
ParseMapLogin(m) ==
  /\ map_fd[m] = "free" /\ char_fd[m] = "none"
  /\ map_fd' = [map_fd EXCEPT ![m] = "open"]
  /\ char_fd' = [char_fd EXCEPT ![m] = "open"]
  /\ toMap' = [toMap EXCEPT ![m] = <<[cmd |-> "connectack"]>>]
  /\ UNCHANGED <<charVars, sql, restarts, spent, fromMap>>

\* chmapif_parse on eof: chmapif_on_disconnect, chmapif_server_reset.  The other
\* map servers are told, if m had sent its maps.
MapDisconnected(m) ==
  /\ map_fd[m] = "eof"
  /\ map_fd' = [map_fd EXCEPT ![m] = "free"]
  /\ maps' = maps \ {m}
  /\ online_db' = LostEntries(m)
  /\ toMap' = [n \in MapServer |->
       IF n # m /\ Active(n) /\ m \in maps
       THEN Append(toMap[n], [cmd |-> "removemap", of |-> m]) ELSE toMap[n]]
  /\ UNCHANGED <<session, asked, login_fd, timer, auth_db, cache, sql, restarts,
                 spent, char_fd, fromMap>>

\* The process stops (or crashes) and starts again: only SQL remains.
Restarted ==
  /\ session' = [f \in Fd |-> NoUser]
  /\ asked' = {}
  /\ login_fd' = IF LoginLinkFails THEN "lost" ELSE "up"
  /\ online_db' = [a \in Account |-> NoUser]
  /\ timer' = [t \in Tid |-> NoUser]
  /\ auth_db' = [a \in Account |-> NoUser]
  /\ cache' = [c \in Char |-> NoUser]
  /\ maps' = {}
  /\ map_fd' = [m \in MapServer |-> "free"]
  /\ char_fd' = [m \in MapServer |-> IF char_fd[m] = "open" THEN "eof" ELSE char_fd[m]]
  /\ fromMap' = [m \in MapServer |-> <<>>]
  /\ toMap' = [m \in MapServer |-> <<>>]
  /\ UNCHANGED <<sql, spent>>

CharRestart ==
  /\ restarts < CharRestarts
  /\ restarts' = restarts + 1
  /\ Restarted

----------------------------------------------------------------------------
ParseMap(m) ==
  \/ ParseGetMapName(m)
  \/ ParseRegMapUser(m)
  \/ ParseReqSaveChar(m)
  \/ ParseAuthOk(m)
  \/ ParseReqChangeMapServ(m)
  \/ ParseSetCharOffline(m)
  \/ ParseSetCharOnline(m)
  \/ ParseReqAuth(m)
  \/ ParseSetAllOffline(m)

\* Bound: clients and the login server wait while packets pile up to a map server.
Unhurried == \A m \in MapServer : Len(toMap[m]) < MaxQueue

\* Bound: a client whose login is sure to be refused does not show it.
Hopeful(l) == HasNode(LoginAccount[l], l) \/ Grantable(l)

Selects(f) ==
  /\ Unhurried
  /\ \/ \E c \in Char : ParseCharSelect(f, c)
     \/ \E c \in Char, m \in MapServer : ParseSelectAccessibleMap(f, c, m)

Connects(f) ==
  /\ Unhurried
  /\ \/ \E l \in Login : Hopeful(l) /\ ParseReqToConnect(f, l)
     \/ ClientHangsUp(f)
     \/ ClientClosed(f)

ParseLogin ==
  /\ Unhurried
  /\ \/ \E f \in Fd, l \in Login, ok \in BOOLEAN : ParseAckAccReq(f, l, ok)
     \/ \E a \in Account : ParseAskKick(a)
     \/ LoginLinkLost
     \/ CheckConnectLogServer

Timers ==
  \/ \E t \in Tid : WaitingDisconnect(t)
  \/ OnlineDataCleanup

Links == \E m \in MapServer : ParseMapLogin(m) \/ MapDisconnected(m)

CharNext == (\E f \in Fd : Connects(f) \/ Selects(f)) \/ ParseLogin \/ Timers \/ Links
            \/ \E m \in MapServer : ParseMap(m)

----------------------------------------------------------------------------
\* A pending AUTH_TIMEOUT timer is the one its account's entry waits for, and an
\* entry waits for no timer that is not pending: however kicks, logins, saves and
\* regmapuser follow each other, no timer of an earlier kick takes a player who
\* is online again off line (char_chardb_waiting_disconnect).
TimersMatchEntries ==
  \A a \in Account, t \in Tid :
    timer[t] = a <=> online_db[a] # NoUser /\ online_db[a].waiting_disconnect = t

\* The socket an entry names is open, authenticated and of its account, although
\* sockets are reused: char_auth_ok refuses clients by it and the cleanup spares
\* accounts by it.
EntryFdIsItsSession ==
  \A a \in Account :
    online_db[a] # NoUser /\ online_db[a].fd # NONE =>
      /\ session[online_db[a].fd] # NoUser
      /\ session[online_db[a].fd].auth
      /\ LoginAccount[session[online_db[a].fd].login] = a

\* A record in char_db carries the progress SQL has, whatever order saves, kicks,
\* map changes and lookups come in: chmapif_parse_reqauth hands out the cached record
\* without looking at SQL, and char_mmo_char_tosql skips the rows of a record that is
\* as the cached one.
CacheIsCurrent ==
  \A c \in Char : cache[c] # NoUser => cache[c].ver = sql[c].ver

=============================================================================
