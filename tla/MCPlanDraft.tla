---------------------------- MODULE MCPlanDraft ----------------------------
(* Instances of PlanDraft for TLC.                                         *)
EXTENDS PlanDraft

CONSTANTS k1, k2, k3, k4, k5, cA, cB, cC, pA, pB, d1, d2

\* Three calls send one command, for the third of which HEAD has moved; the fourth is
\* of another command on the same plan, the fifth of a plan of its own.
Commands == [k \in Call |-> IF k = k4 THEN cC ELSE IF k = k5 THEN cB ELSE cA]
Digests == [k \in Call |-> IF k = k3 THEN d2 ELSE d1]
Plans == [c \in Command |-> IF c = cB THEN pB ELSE pA]
=============================================================================
