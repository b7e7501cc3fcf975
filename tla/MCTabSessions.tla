---------------------------- MODULE MCTabSessions ----------------------------
(* A small instance of TabSessions for TLC. *)
EXTENDS TabSessions

CONSTANTS t1, c1

Symmetry == Permutations(TabIds \ {FirstTab}) \cup Permutations(Servers \ {First})
=============================================================================
