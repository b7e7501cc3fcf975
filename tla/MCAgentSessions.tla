---------------------------- MODULE MCAgentSessions ----------------------------
(* A small instance of AgentSessions for TLC. *)
EXTENDS AgentSessions, TLC

Symmetry == Permutations(Sessions) \cup Permutations(Calls)
=============================================================================
