------------------------------ MODULE CharOpen ------------------------------
(***************************************************************************)
(* The char server among map servers that may send it anything, in any order: *)
(* what it promises here it owes to its own code alone.                       *)
(***************************************************************************)
EXTENDS CharServer

CONSTANT Cmds    \* bound: the packets map servers send

vars == <<charVars, sql, restarts, spent, linkVars>>

\* A packet names an account, a character of it and a login of it.
OfOneAccount(p) ==
  /\ "users" \in DOMAIN p =>
       \A a \in Account : p.users[a] \in {c \in Char : AccountOf[c] = a} \cup {NoUser}
  /\ "cid" \in DOMAIN p /\ p.cid \in Char => AccountOf[p.cid] = p.aid
  /\ "login" \in DOMAIN p => LoginAccount[p.login] = p.aid

MapSends(m) ==
  /\ char_fd[m] = "open"
  /\ Quiet(m)
  /\ \E p \in FromMapMsg :
       p.cmd \in Cmds /\ OfOneAccount(p) /\ fromMap' = [fromMap EXCEPT ![m] = Append(@, p)]
  /\ UNCHANGED <<charVars, sql, restarts, spent, map_fd, char_fd, toMap>>

\* What m makes of the packets is any packet it may send.
MapTakes(m) ==
  /\ char_fd[m] = "open"
  /\ toMap[m] # <<>>
  /\ toMap' = [toMap EXCEPT ![m] = <<>>]
  /\ UNCHANGED <<charVars, sql, restarts, spent, map_fd, char_fd, fromMap>>

\* The map server notices that the link is broken.
MapNotices(m) ==
  /\ char_fd[m] = "eof"
  /\ char_fd' = [char_fd EXCEPT ![m] = "none"]
  /\ UNCHANGED <<charVars, sql, restarts, spent, map_fd, fromMap, toMap>>

LinkBreaks(m) == Break(m) /\ UNCHANGED <<charVars, sql, restarts, spent>>

OpenInit == InitLinks /\ InitChar
OpenNext ==
  \/ CharNext
  \/ Restarted /\ UNCHANGED restarts  \* as often as it likes
  \/ \E m \in MapServer : MapSends(m) \/ MapTakes(m) \/ MapNotices(m) \/ LinkBreaks(m)
OpenSpec == OpenInit /\ [][OpenNext]_vars

----------------------------------------------------------------------------
\* Every variable is a set, table or queue of the values it is declared with.
TypeOK ==
  /\ TypeLinks
  /\ TypeChar

=============================================================================
