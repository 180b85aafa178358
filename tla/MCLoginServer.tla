--------------------------- MODULE MCLoginServer ---------------------------
(* Small instances of LoginServer for TLC.                                  *)
EXTENDS LoginServer

MCHalf     == {0, 30, 1}
OneAccount == {<<30, 1>>}
TwoAccounts == {<<30, 0>>, <<30, 1>>}

=============================================================================
