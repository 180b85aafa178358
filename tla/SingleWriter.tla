---------------------------- MODULE SingleWriter ----------------------------
(***************************************************************************)
(* What the servers promise a player about his character: it is played in at  *)
(* most one place, an account plays one character at a time, and each time it  *)
(* is played on from all the progress it ever made.                            *)
(***************************************************************************)
EXTENDS Integers

CONSTANTS Char, AccountOf, MapServer

VARIABLES
  holders,  \* character -> where it is played
  progress  \* character -> its progress

vars == <<holders, progress>>

Init ==
  /\ holders = [c \in Char |-> {}]
  /\ progress = [c \in Char |-> 0]

Enter(c, m) ==
  /\ \A d \in Char : AccountOf[d] = AccountOf[c] => holders[d] = {}
  /\ holders' = [holders EXCEPT ![c] = {m}]
  /\ UNCHANGED progress

Advance(c) ==
  /\ holders[c] # {}
  /\ progress' = [progress EXCEPT ![c] = @ + 1]
  /\ UNCHANGED holders

Leave(c) ==
  /\ holders' = [holders EXCEPT ![c] = {}]
  /\ UNCHANGED progress

Next ==
  \E c \in Char : Advance(c) \/ Leave(c) \/ \E m \in MapServer : Enter(c, m)

Spec == Init /\ [][Next]_vars

=============================================================================
