---------------------------- MODULE MCTableDesigner ----------------------------
(* Small instances of TableDesigner for TLC. *)
EXTENDS TableDesigner, TLC

CONSTANTS ta, tb, a, b, v1, v2

MCViews == <<v1, v2>>
\* Two columns, the first of them the primary key; and one of a single column.
Keyed == [cols |-> <<[name |-> a, nullable |-> FALSE], [name |-> b, nullable |-> TRUE]>>, pk |-> <<a>>]
Plain == [cols |-> <<[name |-> b, nullable |-> TRUE]>>, pk |-> <<>>]
TwoTables == ta :> Keyed @@ tb :> Plain
=============================================================================
