----------------------------- MODULE MCResultTabs -----------------------------
(* A small instance of ResultTabs for TLC: runs are interchangeable. *)
EXTENDS ResultTabs

CONSTANTS q1, q2

Symmetry == Permutations(Runs)
=============================================================================
