--------------------------- MODULE MCStagedWrites ---------------------------
(* Small instances of StagedWrites for TLC. *)
EXTENDS StagedWrites, TLC

(* Calls are interchangeable: any tool may be called by any of them. *)
CallSymmetry == Permutations(Calls)
=============================================================================
