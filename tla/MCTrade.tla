------------------------------ MODULE MCTrade ------------------------------
(* Values for Trade. *)
EXTENDS Trade

CONSTANTS a, b, c

MCPlayer == {a, b, c}
MCFree == {a}
MCMaxWeight == (a :> 2) @@ (b :> 3) @@ (c :> 1)

\* Inventories are filled from the front at first; gaps come about by UseUp and trades.
Packed == \A p \in Player, s \in Slot \ {1} : inv[p][s] # Nobody => inv[p][s - 1] # Nobody
MCInit == Init /\ Packed
MCSpec == MCInit /\ [][Next]_vars

Symmetry == Permutations(Item)

=============================================================================
