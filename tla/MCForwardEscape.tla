--------------------------- MODULE MCForwardEscape ---------------------------
(* Instances of ForwardEscape for TLC.                                     *)
EXTENDS ForwardEscape, TLC

CONSTANTS w1, w2, w3, c1, c2, p1, p2, failed, threw, v1, v2

Symmetry == Permutations(Worker) \cup Permutations({p1, p2})
              \cup Permutations(Revision) \cup Permutations(Reason)
=============================================================================
