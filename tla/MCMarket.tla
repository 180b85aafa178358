------------------------------ MODULE MCMarket ------------------------------
(* Values for Market. *)
EXTENDS Market

CONSTANTS a, b, c

MCPlayer == {a, b, c}
MCFree == {}
MCRich == {a}
MCMerchant == {b}
MCTrader == {a, b}
MCBuyer == {a, c}
MCMaxWeight == [p \in MCPlayer |-> IF p = c THEN 1 ELSE 2]
Symmetry == Permutations(Item)

=============================================================================
