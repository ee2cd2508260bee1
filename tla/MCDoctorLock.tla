--------------------------- MODULE MCDoctorLock ----------------------------
(* Instances of DoctorLock for TLC.                                        *)
EXTENDS DoctorLock, TLC

CONSTANTS a1, a2, a3

\* The third attempt comes from another machine sharing the workspace.
TwoMachines == [a \in Attempt |-> IF a = a3 THEN "m2" ELSE "m1"]

\* The two attempts of the first machine are interchangeable.
Symmetry == Permutations(Attempt \ {a3})
=============================================================================
