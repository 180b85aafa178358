---------------------------- MODULE CharOpenProofs ----------------------------
(***************************************************************************)
(* What the char server owes to its own code alone (CharOpen), proved for     *)
(* every number of accounts, characters, map servers, sockets and timers and  *)
(* for whatever packets the map servers send.                                 *)
(***************************************************************************)
EXTENDS CharOpen, CharServerProofs

USE LinksAssumption, CharAssumption, NoUserAssumption

LEMMA OpenStart == OpenInit => CharInv
  BY CharStart DEF OpenInit

\* What map servers and the network do to a link leaves the tables alone.
LEMMA EnvironmentInv ==
  ASSUME CharInv, NEW m \in MapServer,
         MapSends(m) \/ MapTakes(m) \/ MapNotices(m) \/ LinkBreaks(m)
  PROVE  CharInv'
<1>1. UNCHANGED <<charVars, sql, restarts, spent>>
  BY DEF MapSends, MapTakes, MapNotices, LinkBreaks
<1>2. Tables' /\ CacheIsCurrent'
  BY <1>1, TablesUnchanged DEF charVars, CharInv, CacheIsCurrent
<1>3. fromMap' \in [MapServer -> Seq(FromMapMsg)]
  <2>1. ASSUME NEW p \in FromMapMsg
        PROVE  [fromMap EXCEPT ![m] = Append(@, p)] \in [MapServer -> Seq(FromMapMsg)]
    <3>1. Append(fromMap[m], p) \in Seq(FromMapMsg)
      BY DEF CharInv, TypeRest
    <3> QED
      BY <3>1 DEF CharInv, TypeRest
  <2>2. [fromMap EXCEPT ![m] = <<>>] \in [MapServer -> Seq(FromMapMsg)]
    BY DEF CharInv, TypeRest
  <2>3. fromMap \in [MapServer -> Seq(FromMapMsg)]
    BY DEF CharInv, TypeRest
  <2> QED
    <3>1. \/ fromMap' \in {fromMap, [fromMap EXCEPT ![m] = <<>>]}
          \/ \E p \in FromMapMsg : fromMap' = [fromMap EXCEPT ![m] = Append(@, p)]
      BY DEF MapSends, MapTakes, MapNotices, LinkBreaks, Break
    <3> QED
      BY <2>1, <2>2, <2>3, <3>1
<1>4. toMap' \in ToMapQueues
  <2>1. toMap' \in {toMap, [toMap EXCEPT ![m] = <<>>]}
    BY DEF MapSends, MapTakes, MapNotices, LinkBreaks, Break
  <2>2. toMap \in ToMapQueues /\ <<>> \in Seq(ToMapMsg)
    BY DEF CharInv, TypeRest
  <2> QED
    BY <2>1, <2>2 DEF ToMapQueues
<1>5. /\ map_fd' \in [MapServer -> {"free", "open", "eof"}]
      /\ char_fd' \in [MapServer -> {"none", "open", "eof"}]
  BY DEF MapSends, MapTakes, MapNotices, LinkBreaks, Break, CharInv, TypeRest
<1> QED
  BY <1>1, <1>2, <1>3, <1>4, <1>5 DEF charVars, CharInv, TypeRest

LEMMA OpenStep ==
  ASSUME CharInv, [OpenNext]_vars
  PROVE  CharInv'
<1>1. CASE Restarted /\ UNCHANGED restarts
  BY <1>1, RestartedInv DEF CharInv, TypeRest
<1>2. CASE UNCHANGED vars
  BY <1>2, TablesUnchanged DEF vars, charVars, linkVars, CharInv, TypeRest, CacheIsCurrent
<1> QED
  BY <1>1, <1>2, CharNextInv, EnvironmentInv DEF OpenNext

THEOREM OpenInvariant == OpenSpec => []CharInv
  BY OpenStart, OpenStep, PTL DEF OpenSpec

\* Whatever its map servers send it, every variable of the char server stays a set,
\* table or queue of the values it is declared with (char.cpp, char_mapif.cpp).
THEOREM OpenTypeCorrect == OpenSpec => []TypeOK
<1>1. CharInv => TypeOK
  BY CharInvTypes DEF TypeOK
<1> QED
  BY <1>1, OpenInvariant, PTL

\* No AUTH_TIMEOUT timer of an earlier kick takes a player who is online again off
\* line (char_chardb_waiting_disconnect), and no entry waits for a timer that is gone.
THEOREM TimersMatchCorrect == OpenSpec => []TimersMatchEntries
<1>1. CharInv => TimersMatchEntries
  BY CharInvTypes
<1> QED
  BY <1>1, OpenInvariant, PTL

\* The socket an entry names is open, authenticated and of its account, however
\* sockets are closed and reused (chclif_parse, char_auth_ok).
THEOREM EntryFdCorrect == OpenSpec => []EntryFdIsItsSession
<1>1. CharInv => EntryFdIsItsSession
  BY CharInvTypes
<1> QED
  BY <1>1, OpenInvariant, PTL

\* What char_db hands out has the progress SQL has, in whatever order saves, kicks, map
\* changes and lookups come (chmapif_parse_reqauth, char_mmo_char_tosql).
THEOREM CacheCorrect == OpenSpec => []CacheIsCurrent
<1>1. CharInv => CacheIsCurrent
  BY CharInvTypes
<1> QED
  BY <1>1, OpenInvariant, PTL

=============================================================================
