----------------------------- MODULE MCCharOpen -----------------------------
(* Small instances of CharOpen for TLC: the characters and logins of one      *)
(* account.                                                                   *)
EXTENDS CharOpen

OneAccountOf == [c \in Char |-> "a"]
OneLoginAccount == [l \in Login |-> "a"]

=============================================================================
