------------------------------ MODULE MCDumpJobs ------------------------------
(* Small instances of DumpJobs for TLC. *)
EXTENDS DumpJobs, TLC

CONSTANTS j1, j2

TwoJobs == <<j1, j2>>
OneJob  == <<j1>>

\* Rows before and after a CREATE, and rows before a commit that does not show;
\* a second run that only takes its slot.
Files   == {<<"dml", "ddl">>, <<"ddl", "dml">>, <<"dml", "hidden">>}
MCDumps == j1 :> Files @@ j2 :> {<<>>}

\* What the application's own dumps begin a table with: a banner and DROP TABLE.
BannerDumps == j1 :> {<<"hidden", "ddl">>}

Ticked  == [stop |-> TRUE, wrap |-> TRUE]
MCOptions == j1 :> {Ticked} @@ j2 :> {Ticked}
=============================================================================
