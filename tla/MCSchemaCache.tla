----------------------------- MODULE MCSchemaCache -----------------------------
(* A small instance of SchemaCache for TLC: the columns of one table are read. *)
EXTENDS SchemaCache, TLC

CONSTANTS d1, t1

MCTables == {<<d1, t1>>}
Symmetry == Permutations(Chains)
=============================================================================
