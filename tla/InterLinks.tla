----------------------------- MODULE InterLinks -----------------------------
(***************************************************************************)
(* What the char server and the map servers share: the accounts, their        *)
(* characters, the login ids a client shows on both sides, and one TCP link   *)
(* per map server.  A link is FIFO in both directions; when it breaks,         *)
(* everything in flight is lost and each side notices on its own, so that      *)
(* what is sent meanwhile is lost too.                                         *)
(***************************************************************************)
EXTENDS Integers, Sequences, FiniteSets

CONSTANTS
  Account,      \* account ids
  Char,         \* character ids, all of them > 0
  AccountOf,    \* character -> its account
  MapServer,    \* indices of map_server[]
  Login,        \* logins: the pairs (login_id1, login_id2) clients hold, numbered
                \* in the order they were made
  LoginAccount, \* login -> the account it was issued for
  Fd,           \* client sockets of the char server
  Tid,          \* timer ids of the char server
  LowByteZero,  \* the characters whose id has 0 as its low byte
  MaxVersion,   \* bound: progress of a character
  MaxQueue,     \* bound: packets in flight on a link when a client acts
  NoUser        \* no entry, no node, no session, no cached record

ASSUME LinksAssumption ==
  /\ Char \subseteq Nat \ {0}
  /\ AccountOf \in [Char -> Account]
  /\ MapServer \subseteq Nat
  /\ Login \subseteq Nat
  /\ LoginAccount \in [Login -> Account]
  /\ Fd \subseteq Nat \ {0}
  /\ Tid \subseteq Nat
  /\ LowByteZero \subseteq Char
  /\ MaxVersion \in Nat
  /\ MaxQueue \in Nat
  /\ IsFiniteSet(Account) /\ IsFiniteSet(MapServer)
  /\ NoUser \notin Account \cup Int

\* A character record (mmo_charstatus): how much progress is in it, and the map
\* server that has the map of its last_point.
Record == [ver : 0 .. MaxVersion, at : MapServer]

\* The packets of map servers and those of the char server.
FromMapMsg ==
       [cmd : {"sendmap", "setalloffline"}]
  \cup [cmd : {"regmapuser"}, users : [Account -> Char \cup {NoUser}]]
  \cup [cmd : {"save"}, aid : Account, cid : Char, rec : Record, quit : BOOLEAN]
  \cup [cmd : {"charselect"}, aid : Account, login : Login]
  \cup [cmd : {"changemap"}, aid : Account, cid : Char, login : Login, to : MapServer]
  \cup [cmd : {"setcharoffline", "setcharonline"}, aid : Account, cid : Char \cup {-1}]
  \cup [cmd : {"reqauth"}, aid : Account, cid : Char, login : Login]
ToMapMsg ==
       [cmd : {"connectack", "mapack"}]
  \cup [cmd : {"maps", "removemap"}, of : MapServer]
  \cup [cmd : {"kick"}, aid : Account]
  \cup [cmd : {"authok"}, aid : Account, cid : Char, login : Login, rec : Record]
  \cup [cmd : {"authfail"}, aid : Account, cid : Char, login : Login]
  \cup [cmd : {"changeack"}, aid : Account, cid : Char, ok : BOOLEAN]
  \cup [cmd : {"saveack"}, aid : Account, cid : Char]

VARIABLES
  map_fd,   \* map server -> "free", "open" or "eof": map_server[m].fd of the char server
  char_fd,  \* map server -> "none", "open" or "eof": its connection to the char server
  fromMap,  \* map server -> packets on their way to the char server
  toMap     \* map server -> packets on their way to the map server

linkVars == <<map_fd, char_fd, fromMap, toMap>>

InitLinks ==
  /\ map_fd = [m \in MapServer |-> "free"]
  /\ char_fd = [m \in MapServer |-> "none"]
  /\ fromMap = [m \in MapServer |-> <<>>]
  /\ toMap = [m \in MapServer |-> <<>>]

TypeLinks ==
  /\ map_fd \in [MapServer -> {"free", "open", "eof"}]
  /\ char_fd \in [MapServer -> {"none", "open", "eof"}]
  /\ fromMap \in [MapServer -> Seq(FromMapMsg)]
  /\ toMap \in [MapServer -> Seq(ToMapMsg)]

Quiet(m) == Len(fromMap[m]) < MaxQueue /\ Len(toMap[m]) < MaxQueue

\* The orders in which a table can be walked: what is in S, each once
Orders(S) == {o \in [1 .. Cardinality(S) -> S] : \A i, j \in DOMAIN o : o[i] = o[j] => i = j}

\* The link of m breaks: neither side knows yet.
Break(m) ==
  /\ map_fd[m] = "open" /\ char_fd[m] = "open"
  /\ map_fd' = [map_fd EXCEPT ![m] = "eof"]
  /\ char_fd' = [char_fd EXCEPT ![m] = "eof"]
  /\ fromMap' = [fromMap EXCEPT ![m] = <<>>]
  /\ toMap' = [toMap EXCEPT ![m] = <<>>]

=============================================================================
