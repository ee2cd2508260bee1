------------------------ MODULE MCWorktreeLifecycle ------------------------
(* Instances of WorktreeLifecycle for TLC.                                 *)
EXTENDS WorktreeLifecycle, TLC

CONSTANTS l1, l2, l3, p1, p2, r1, r2

\* The first two lifecycles want the same worktree.
Contended == [l \in Lifecycle |-> IF l = l3 THEN p2 ELSE p1]

\* "dirty" stands for every reason that no receipt discharges.
Reasons == {"activation_unresolved", "terminal_missing", "dirty"}

Symmetry == Permutations({l1, l2}) \cup Permutations({r1, r2})
=============================================================================
