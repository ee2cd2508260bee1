--------------------------- MODULE MCStopRefresh ---------------------------
(* Instances of StopRefresh for TLC.                                       *)
EXTENDS StopRefresh, TLC

CONSTANTS g1, g2, g3

\* All hooks and workers on one machine.
OneMachine == [g \in Gen |-> "m1"]

\* The first generation's processes on one machine, the others on another.
TwoMachines == [g \in Gen |-> IF g = g1 THEN "m1" ELSE "m2"]

Symmetry == Permutations(Gen)
=============================================================================
