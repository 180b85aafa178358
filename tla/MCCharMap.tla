----------------------------- MODULE MCCharMap ------------------------------
(* Small instances of CharMap for TLC: the characters and logins of one      *)
(* account.                                                                  *)
EXTENDS CharMap

OneAccountOf == [c \in Char |-> "a"]
OneLoginAccount == [l \in Login |-> "a"]

=============================================================================
