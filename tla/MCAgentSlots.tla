---------------------------- MODULE MCAgentSlots ----------------------------
(* Instances of AgentSlots for TLC.                                        *)
EXTENDS AgentSlots, TLC

CONSTANTS a1, a2, a3, m1, sweeper

Symmetry == Permutations(Agent) \cup Permutations(Member)
=============================================================================
