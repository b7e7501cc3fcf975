---------------------------- MODULE MCGridEditing ----------------------------
(* A small instance of GridEditing for TLC. *)
EXTENDS GridEditing

CONSTANTS q1, q2, q3
=============================================================================
