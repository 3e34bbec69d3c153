------------------------------ MODULE MCTodOps ------------------------------
(* Model values for TodOps: adjtime deltas, which a .cfg cannot write as  *)
(* negative integers.                                                     *)
EXTENDS TodOps

\* GC mode: a step back within the second and a step forward across it.
\* PPS mode: a step back by two seconds, the most a read at the first PPS
\* edge allows, and a step forward by a second and a tick, whose seconds
\* the carry branch of _tod_adjtime() would drop.
DeltasByMode == [m \in {"GC", "PPS"} |-> IF m = "GC" THEN {-2, 4} ELSE {-6, 4}]
=============================================================================
