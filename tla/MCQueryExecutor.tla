--------------------------- MODULE MCQueryExecutor ---------------------------
(* Small instances of QueryExecutor for TLC: the shared lane, and a tab's
   session with its one connection. *)
EXTENDS QueryExecutor, TLC

CONSTANTS Tab, tab1

MCLane == [t \in Threads |-> IF t = tab1 THEN Tab ELSE Interactive]

=============================================================================
