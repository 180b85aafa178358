------------------------------- MODULE CharMap ------------------------------
(***************************************************************************)
(* The char server and its map servers together: a character is loaded from   *)
(* the char server, played on one map server at a time, and its progress goes  *)
(* back in saves, while links break, the char server restarts, players are     *)
(* kicked by a second login and final saves are sent again.                    *)
(***************************************************************************)
EXTENDS CharServer, MapServer

CONSTANTS
  Breaks,  \* bound: how often links break
  Timely   \* whether packets and players beat the minute-long timers

ASSUME CharMapAssumption == Breaks \in Nat /\ Timely \in BOOLEAN

VARIABLE broken  \* history: how often links broke

vars == <<charVars, sql, restarts, spent, mapVars, linkVars, broken>>

Init == InitLinks /\ InitChar /\ InitMap /\ broken = 0

ByChar == UNCHANGED <<mapVars, broken>>
ByMap  == UNCHANGED <<charVars, sql, restarts, spent, broken>>

----------------------------------------------------------------------------
(* Timing.  AUTH_TIMEOUT is 30 seconds, a delayed quit 10 seconds, the sweep of *)
(* auth nodes a minute.  If Timely, what takes milliseconds on a working link   *)
(* is over before they end, and a client that left one map server has been      *)
(* noticed there before it has found its way to another.                        *)

InFlight(q, m, cmds, a) ==
  \E i \in DOMAIN q[m] : q[m][i].cmd \in cmds /\ q[m][i].aid = a

\* Map server m still has to let go of account a.
Leaving(m, a) ==
  \/ InFlight(toMap, m, {"kick", "saveack", "changeack", "authok", "authfail"}, a)
  \/ InFlight(fromMap, m, {"save", "reqauth", "changemap"}, a)
  \/ IF pc[m][a] = NoUser THEN FALSE ELSE pc[m][a].conn # "open"

InTime(a) == Timely => \A m \in MapServer : ~Leaving(m, a)

\* Login l is in, or on its way into or out of, a map server of ms.
Busy(l, ms) ==
  LET a == LoginAccount[l]
  IN  \E m \in ms :
        \/ Leaving(m, a)
        \/ IF pc[m][a] = NoUser THEN FALSE ELSE pc[m][a].login = l
        \/ IF auth_node[m][a] = NoUser THEN FALSE ELSE auth_node[m][a].login = l

\* A client talks to one server at a time.
ClientAtSelect(f) == Timely /\ session[f] # NoUser => ~Busy(session[f].login, MapServer)
ClientMoved(m, l) == Timely => ~Busy(l, MapServer \ {m})

----------------------------------------------------------------------------
CharStep ==
  \/ \E f \in Fd : Connects(f) /\ ByChar
  \/ \E f \in Fd : ClientAtSelect(f) /\ Selects(f) /\ ByChar
  \/ ParseLogin /\ ByChar
  \/ \E t \in Tid : timer[t] # NoUser /\ InTime(timer[t]) /\ WaitingDisconnect(t) /\ ByChar
  \/ OnlineDataCleanup /\ ByChar
  \/ \E m \in MapServer : ParseMap(m) /\ ByChar

MapStep ==
  \E m \in MapServer :
    \/ \E c \in Char, l \in Login : ClientMoved(m, l) /\ WantToConnection(m, c, l) /\ ByMap
    \/ \E a \in Account :
         \/ RegReceived(m, a) /\ ByMap
         \/ Play(m, a) /\ ByMap
         \/ Autosave(m, a) /\ ByMap
         \/ ClientGone(m, a) /\ ByMap
         \/ DelayQuit(m, a) /\ ByMap
         \/ CharSelectReq(m, a) /\ ByMap
         \/ \E to \in MapServer : SetPos(m, a, to) /\ ByMap
         \/ InTime(a) /\ AuthDbCleanup(m, a) /\ ByMap
    \/ ChrifParse(m) /\ ByMap

\* chmapif_parse on eof, and a new connection of m, on both sides
CharNotices(m) == MapDisconnected(m) /\ ByChar
MapNotices(m)  == OnDisconnect(m) /\ ByMap
Connect(m) ==
  /\ ParseMapLogin(m)
  /\ Reconnecting(m)
  /\ UNCHANGED <<pc, auth_node, ipport, others, latest, broken>>

LinkBreaks(m) ==
  /\ broken < Breaks
  /\ Break(m)
  /\ broken' = broken + 1
  /\ UNCHANGED <<charVars, sql, restarts, spent, mapVars>>

Restarts == CharRestart /\ ByChar

Next ==
  \/ CharStep
  \/ MapStep
  \/ \E m \in MapServer : CharNotices(m) \/ MapNotices(m) \/ Connect(m) \/ LinkBreaks(m)
  \/ Restarts

Spec == Init /\ [][Next]_vars

\* Links deliver, servers run and reconnect; nobody has to play or to leave.
Fairness ==
  \A m \in MapServer :
    /\ WF_vars(ParseMap(m) /\ ByChar)
    /\ WF_vars(ChrifParse(m) /\ ByMap)
    /\ WF_vars(CharNotices(m))
    /\ WF_vars(MapNotices(m))
    /\ WF_vars(Connect(m))
    /\ \A a \in Account : WF_vars(RegReceived(m, a) /\ ByMap)

FairSpec == Spec /\ Fairness

----------------------------------------------------------------------------
\* Every variable is a set, table or queue of the values it is declared with.
TypeOK ==
  /\ TypeLinks
  /\ TypeChar
  /\ chrif_state \in [MapServer -> 0 .. 2]
  /\ pc \in [MapServer -> [Account -> Player \cup {NoUser}]]
  /\ auth_node \in [MapServer -> [Account -> Node \cup {NoUser}]]
  /\ ipport \in [MapServer -> SUBSET MapServer]
  /\ others \in [MapServer -> Int]
  /\ latest \in [Char -> 0 .. MaxVersion]
  /\ broken \in 0 .. Breaks

Ready(m) == map_fd[m] = "open" /\ char_fd[m] = "open" /\ chrif_state[m] = 2

Holds(m, a, c) == pc[m][a] # NoUser /\ pc[m][a].cid = c

\* The records of character c: in SQL, with a player in the world, with a node on
\* its way out, and in saves that are on their way.
Copies(c) ==
  LET a == AccountOf[c]
      leaving == {m \in MapServer :
                    /\ auth_node[m][a] # NoUser
                    /\ auth_node[m][a].state # "ST_LOGIN"
                    /\ auth_node[m][a].cid = c}
      saves(m) == {i \in DOMAIN fromMap[m] : fromMap[m][i].cmd = "save" /\ fromMap[m][i].cid = c}
  IN  {sql[c]}
      \cup {pc[m][a].rec : m \in {n \in MapServer : Holds(n, a, c)}}
      \cup {auth_node[m][a].rec : m \in leaving}
      \cup UNION {{fromMap[m][i].rec : i \in saves(m)} : m \in MapServer}

\* Whatever breaks and restarts, the progress a character was last played to is in
\* SQL, on its way there or still held by a map server: "Character is saved on
\* reconnect." (chrif_save).
NothingLost == \A c \in Char : \E r \in Copies(c) : r.ver = latest[c]

\* Where a character is played, and the progress it is played on from.
Holders == [c \in Char |-> {m \in MapServer : Holds(m, AccountOf[c], c)}]
Progress ==
  [c \in Char |-> IF Holders[c] = {} THEN latest[c]
                  ELSE pc[CHOOSE m \in Holders[c] : TRUE][AccountOf[c]].rec.ver]

World == INSTANCE SingleWriter WITH holders <- Holders, progress <- Progress

\* The servers implement SingleWriter: nobody enters while the account still
\* plays somewhere, and nobody enters with an older record (chmapif_parse_reqauth
\* hands out what char_db has, chrif_authok takes it).
PlayedOnce == World!Spec

\* A node of a player on his way in or out does not stay: the character is loaded,
\* refused or saved although the link broke meanwhile (chrif_reconnect).
NodesResolve ==
  \A m \in MapServer, a \in Account : auth_node[m][a] # NoUser ~> auth_node[m][a] = NoUser

\* Whoever is in the world, or about to be, shows a login that the login server
\* granted to the account, however often nodes were overwritten, dropped and left
\* over on the way (chmapif_parse_reqauth, chrif_authok).
OnlyGranted ==
  \A m \in MapServer, a \in Account :
    /\ pc[m][a] # NoUser => pc[m][a].login \in spent
    /\ auth_node[m][a] # NoUser /\ auth_node[m][a].rec # NoUser => auth_node[m][a].login \in spent

\* Once every packet has arrived, each map server that is ready has an address for
\* the maps of every other one, in whatever order they connected, broke and came
\* back (chmapif_send_maps, chrif_on_disconnect): players can move between them.
MapsShared ==
  (\A m \in MapServer : fromMap[m] = <<>> /\ toMap[m] = <<>>) =>
    \A m, n \in MapServer :
      m # n /\ Ready(m) /\ Ready(n) => n \in ipport[m]

=============================================================================
