---------------------------- MODULE MCWakeClaims ----------------------------
(* Instances of WakeClaims for TLC.                                        *)
EXTENDS WakeClaims, TLC

CONSTANTS w1, w2, w3, p1, p2, e1

\* One entry that is sent twice.
Entries == [p \in Publisher |-> e1]

\* It is for a session that two of the watchers belong to.
Addressees == [e \in Entry |-> {w1, w2}]

Symmetry == Permutations({w1, w2}) \cup Permutations({p1, p2})
=============================================================================
