---------------------------- MODULE MCReviewGate ----------------------------
(* Instances of ReviewGate for TLC.                                        *)
EXTENDS ReviewGate, TLC

CONSTANTS r1, r2, w1, w2, g1

Symmetry == Permutations(Run) \cup Permutations(Root)
=============================================================================
