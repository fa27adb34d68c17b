----------------------------- MODULE MCSessions -----------------------------
(* Values for the Sessions runs: the seeds are ana's, and one of them is    *)
(* about to expire.                                                         *)
EXTENDS Sessions

CONSTANTS ana, bob, old, fresh

MCSeedRow == [t \in Seeds |-> [user |-> ana, expires |-> IF t = old THEN 0 ELSE 1]]
=============================================================================
