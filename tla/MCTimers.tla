----------------------------- MODULE MCTimers ------------------------------
(* Values for Timers: six timers are the fewest of which one can be taken from the *)
(* middle of the heap and leave a place that a smaller one has to fill.           *)
EXTENDS Timers

MCOps == [n \in {1, 6} |-> IF n = 6 THEN 1 ELSE 3]

=============================================================================
