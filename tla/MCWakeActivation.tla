-------------------------- MODULE MCWakeActivation --------------------------
(* Instances of WakeActivation for TLC.                                    *)
EXTENDS WakeActivation

CONSTANTS w1, w2, w3, s1, s2

\* The third watcher is of the first one's session.
Sessions == [w \in Watcher |-> IF w \in {w1, w3} THEN s1 ELSE s2]
=============================================================================
