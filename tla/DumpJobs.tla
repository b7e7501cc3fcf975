------------------------------- MODULE DumpJobs -------------------------------
(***************************************************************************)
(* Backups, restores and SQL imports                                       *)
(* (src/src/stores/backupStore.ts and its three dialogs,                   *)
(* src/src-tauri/src/commands/backup.rs and mas-core's backup/writer.rs    *)
(* and restore/runner.rs): a slot of the store says how its run goes and   *)
(* ended, the backend keeps a flag for every job Cancel can reach, and     *)
(* each job has a connection of its own.                                   *)
(*                                                                         *)
(* A dump's file is a sequence of statements, each of a kind that says     *)
(* what it does to the open transaction; a backup writes a sequence of     *)
(* parts.  What a statement does to the data is only whether it is there   *)
(* for good.  The import dialog is mounted all along, and what a           *)
(* production connection asks before a restore is answered yes.            *)
(***************************************************************************)
EXTENDS Naturals, Sequences, Functions

CONSTANTS
  Slots,     \* the slots there are: some of "backup", "restore", "import"
  Jobs,      \* ids of runs (a bound on runs), a sequence
  Dumps,     \* the files there are to restore, for each run: sequences of Kinds
  Options,   \* and what may be ticked: to stop on an error, to wrap in a transaction
  Parts,     \* how many parts a backup writes
  Null

\* dml changes rows; ddl begins with a word that says MySQL commits before it;
\* hidden commits too, by a word that does not say so: a comment before a DROP,
\* an executable comment, COMMIT itself.
Kinds == {"dml", "ddl", "hidden"}

ASSUME DumpsAssumption ==
  /\ Jobs \in Seq(Range(Jobs))
  /\ Null \notin Range(Jobs) \cup {"backup", "restore", "import"}
  /\ Parts \in Nat \ {0}
  /\ Slots \subseteq {"backup", "restore", "import"}
  /\ \A j \in Range(Jobs) : /\ Dumps[j] \subseteq Seq(Kinds)
                            /\ Options[j] \subseteq [stop : BOOLEAN, wrap : BOOLEAN]

VARIABLES
  open,     \* dialogStore.open: the slot of the dialog that is open, or Null
  slot,     \* backupStore: backup, restore and import
  job,      \* the runs so far, by id
  cancels,  \* cancelBackup calls on their way, by job
  crossed   \* (history) runs that shared their slot with another that was going

jobVars == <<open, slot, job, cancels, crossed>>

\* told: the dialog says how a run ended.
Idle == [id |-> Null, running |-> FALSE, cancelling |-> FALSE, progress |-> Null, told |-> FALSE]

(***************************************************************************)
(* The dialogs                                                             *)
(***************************************************************************)
\* (mutant) A reset forgets the run.
ResetAll(s) == Idle

\* resetBackup, resetRestore: not the id, so that a run going on can be cancelled.
Reset(s) == [Idle EXCEPT !.id = s.id]

\* Backup and restore start afresh when their dialog opens; import does not.
OpenDialog(d) ==
  /\ open # d
  /\ open' = d
  /\ slot' = IF d = "import" THEN slot ELSE [slot EXCEPT ![d] = Reset(@)]
  /\ UNCHANGED <<job, cancels, crossed>>

\* Another connection is selected while the backup dialog is open: it starts
\* afresh once more.  The restore dialog minds only its opening.
SelectConnection ==
  /\ open = "backup"
  /\ slot' = [slot EXCEPT !["backup"] = Reset(@)]
  /\ UNCHANGED <<open, job, cancels, crossed>>

\* Close, which a run shown to be going refuses.
CloseDialog ==
  /\ open # Null /\ ~slot[open].running
  /\ open' = Null
  /\ slot' = IF open = "import" THEN [slot EXCEPT !["import"] = Reset(@)] ELSE slot
  /\ UNCHANGED <<job, cancels, crossed>>

\* Another file: the restore dialog reads its head, which clears the last outcome;
\* the import dialog's other mode starts it afresh.
PickAnother ==
  /\ open \in {"restore", "import"} /\ ~slot[open].running
  /\ slot' = [slot EXCEPT ![open] = IF open = "import" THEN Reset(@) ELSE [@ EXCEPT !.told = FALSE]]
  /\ UNCHANGED <<open, job, cancels, crossed>>

\* cancelBackup, cancelRestore: the call goes out for the slot's id, if it has one.
Cancelling(s) == [s EXCEPT !.cancelling = @ \/ (open # "backup" /\ s.id # Null)]
SendCancel == cancels' = cancels \cup ({slot[open].id} \ {Null})

\* Cancel; the import dialog offers it once.
PressCancel ==
  /\ open # Null /\ slot[open].running
  /\ open = "import" => ~slot[open].cancelling
  /\ slot' = [slot EXCEPT ![open] = Cancelling(@)]
  /\ SendCancel
  /\ UNCHANGED <<open, job, crossed>>

\* Closing asks, and stops the run.
CloseAndStop ==
  /\ open \in {"backup", "restore"} /\ slot[open].running
  /\ open' = Null
  /\ slot' = [slot EXCEPT ![open] = Cancelling(@)]
  /\ SendCancel
  /\ UNCHANGED <<job, crossed>>

(***************************************************************************)
(* A run of the store                                                      *)
(***************************************************************************)
Going == {j \in DOMAIN job : job[j].phase # "done"}
GoingIn(s) == {j \in Going : job[j].slot = s}

\* inTx is what the runner believes of the transaction, open what the server
\* does; pending and kept, whether something of the file is there to be rolled
\* back, or there for good; unseen, why the runner does not know of the latter.
NewJob(s, file, o) ==
  [slot |-> s, phase |-> "starting", flag |-> FALSE, file |-> file, next |-> 1,
   stop |-> o.stop, wrap |-> o.wrap, inTx |-> FALSE, open |-> FALSE,
   pending |-> FALSE, kept |-> FALSE, committed |-> FALSE, ran |-> FALSE, failed |-> FALSE,
   unseen |-> {}, written |-> "none", result |-> Null]

\* runBackup and runRestore up to the listener: the slot is the run's.
Start(j, file, o) ==
  /\ open # Null /\ ~slot[open].running
  /\ open = "import" => ~slot[open].told
  /\ slot' = [slot EXCEPT ![open] = [Idle EXCEPT !.id = j, !.running = TRUE]]
  /\ job' = [i \in DOMAIN job \cup {j} |-> IF i = j THEN NewJob(open, file, o) ELSE job[i]]
  /\ crossed' = IF GoingIn(open) = {} THEN crossed ELSE crossed \cup GoingIn(open) \cup {j}
  /\ UNCHANGED <<open, cancels>>

Set(j, v) == job' = [job EXCEPT ![j] = v]
Running(j) == job[j].phase = "running"
IsBackup(j) == job[j].slot = "backup"

\* The run's own error: there is no summary.
Ended(v, result) == [v EXCEPT !.phase = "ended", !.result = result]
Errored(v) == Ended(v, "error")

\* The listener is attached, or not, and the backend has the call: the flag is
\* registered.  A connection that is gone or read-only, or a file that does not
\* open, ends the run here.
Begin(j) ==
  /\ job[j].phase = "starting"
  /\ \/ Set(j, Errored(job[j]))
     \/ /\ IsBackup(j)
        /\ Set(j, [job[j] EXCEPT !.phase = "running", !.written = "part"])
     \/ \E tx \in {job[j].wrap, FALSE} :
          /\ ~IsBackup(j)
          /\ Set(j, [job[j] EXCEPT !.phase = "running", !.inTx = tx, !.open = tx])
  /\ UNCHANGED <<open, slot, cancels, crossed>>

\* cancel_backup: the flag of a job that is registered; of another, nothing.
CancelArrives(j) ==
  /\ cancels' = cancels \ {j}
  /\ IF Running(j) THEN Set(j, [job[j] EXCEPT !.flag = TRUE]) ELSE UNCHANGED job
  /\ UNCHANGED <<open, slot, crossed>>

\* (mutant) Every listener takes every event of its kind.
ConcernsAll(k, j) == IsBackup(k) = IsBackup(j)
\* The listener of run k takes the event of job j.
Concerns(k, j) == k = j

\* A progress event, at every listener there is.
Progress(j) ==
  /\ Running(j)
  /\ slot' = [s \in Slots |->
                IF \E k \in Going : job[k].slot = s /\ job[k].phase # "starting" /\ Concerns(k, j)
                THEN [slot[s] EXCEPT !.progress = j] ELSE slot[s]]
  /\ UNCHANGED <<open, job, cancels, crossed>>

\* After the call: how it ended, and the slot is idle.  A cancel that is still on
\* its way would find nothing.
Answer(j) ==
  /\ job[j].phase = "ended"
  /\ slot' = [slot EXCEPT ![job[j].slot] =
                [@ EXCEPT !.id = Null, !.running = FALSE, !.cancelling = FALSE, !.told = TRUE]]
  /\ Set(j, [slot |-> job[j].slot, phase |-> "done"])
  /\ cancels' = cancels \ {j}
  /\ UNCHANGED <<open, crossed>>

(***************************************************************************)
(* A restore in the backend                                                *)
(***************************************************************************)
\* What MySQL makes of the open transaction before a statement that commits it.
Committed(v) == [v EXCEPT !.kept = @ \/ v.pending, !.pending = FALSE, !.open = FALSE]

\* A statement that ran: what it changed waits for the commit, or stands.
Effect(v, kind) ==
  IF kind = "dml" /\ v.open THEN [v EXCEPT !.pending = TRUE]
  ELSE IF kind = "dml" THEN [v EXCEPT !.kept = TRUE]
  ELSE [Committed(v) EXCEPT !.kept = TRUE]

\* The first word of the statement says that it commits.
commits_implicitly(kind) == kind = "ddl"

\* record: counted, and noticed when it is seen to have committed.
RecordRun(v, kind) ==
  [Effect(v, kind) EXCEPT !.ran = TRUE, !.committed = @ \/ commits_implicitly(kind),
                          !.unseen = @ \cup (IF kind = "hidden" THEN {"hidden"} ELSE {})]

\* One that failed, having committed what was open before it or not.
RecordFailed(v, commits) ==
  [(IF commits THEN Committed(v) ELSE v) EXCEPT
      !.failed = TRUE, !.unseen = @ \cup (IF commits THEN {"refused"} ELSE {})]

\* Nothing more of the file is run: it was asked to stop, or a statement failed.
Stopped(v) == v.flag \/ (v.failed /\ v.stop)

\* The next statement, on the job's own connection.
RunStatement(j) ==
  LET v == job[j]
      kind == v.file[v.next]
  IN  /\ Running(j) /\ ~IsBackup(j)
      /\ ~Stopped(v) /\ v.next <= Len(v.file)
      /\ \/ Set(j, [RecordRun(v, kind) EXCEPT !.next = @ + 1])
         \/ \E commits \in (IF kind = "dml" THEN {FALSE} ELSE BOOLEAN) :
              Set(j, [RecordFailed(v, commits) EXCEPT !.next = @ + 1])
      /\ UNCHANGED <<open, slot, cancels, crossed>>

\* (mutant) A rollback undid everything.
PartlyUnlessRolledBack(interrupted, ran, rollBack, rollbackFailed, committed) ==
  interrupted /\ ran /\ (~rollBack \/ rollbackFailed)

partially_applied(interrupted, ran, rollBack, rollbackFailed, committed) ==
  interrupted /\ ran /\ (~rollBack \/ rollbackFailed \/ committed)

\* What the dialogs say of a summary (isCleanRun and the lines under it).
Says(cancelled, failed, partial) ==
  IF ~cancelled /\ ~failed THEN "complete"
  ELSE IF partial THEN "partly changed"
  ELSE "as it was"

\* The end of run_restore: COMMIT or ROLLBACK, which fail with the connection,
\* and the summary.  A commit that failed is counted after the rest was judged.
EndRestore(j, answered) ==
  LET v == job[j]
      rollBack == v.inTx /\ (v.flag \/ (v.failed /\ v.stop))
      commits  == v.inTx /\ ~rollBack
      partial  == partially_applied(v.flag \/ v.failed, v.ran, rollBack, rollBack /\ ~answered, v.committed)
      left     == [v EXCEPT !.pending = FALSE, !.open = FALSE,
                            !.kept = @ \/ (v.pending /\ commits /\ answered),
                            !.unseen = @ \cup (IF commits /\ ~answered THEN {"uncommitted"} ELSE {})]
  IN  /\ Running(j) /\ ~IsBackup(j)
      /\ Stopped(v) \/ v.next > Len(v.file)
      /\ ~answered => v.inTx
      /\ Set(j, Ended(left, Says(v.flag, v.failed \/ (commits /\ ~answered), partial)))
      /\ UNCHANGED <<open, slot, cancels, crossed>>

\* The file cannot be read on: the connection closes, and the server rolls back.
ReadFails(j) ==
  /\ Running(j) /\ ~IsBackup(j) /\ ~Stopped(job[j])
  /\ Set(j, Errored([job[j] EXCEPT !.pending = FALSE, !.open = FALSE]))
  /\ UNCHANGED <<open, slot, cancels, crossed>>

(***************************************************************************)
(* A backup in the backend                                                 *)
(***************************************************************************)
\* One part of the dump; the flag is looked at before each.
Dump(j) ==
  LET v == job[j] IN
  /\ Running(j) /\ IsBackup(j)
  /\ ~v.flag /\ ~v.failed /\ v.next <= Parts
  /\ \/ Set(j, [v EXCEPT !.next = @ + 1, !.written = IF v.next = Parts THEN "whole" ELSE @])
     \/ Set(j, [v EXCEPT !.failed = TRUE])
  /\ UNCHANGED <<open, slot, cancels, crossed>>

\* (mutant) Only a dump that was cut short counts as cancelled.
CancelledEarly(v) == v.flag /\ v.failed
\* The flag once the file is flushed.
Cancelled(v) == v.flag

\* The end of run_backup: a failed or cancelled dump's file is removed, if it
\* can be; a failed one's error wins, then a flush's, then a removal's.
EndBackup(j) ==
  LET v == job[j]
      gone == [v EXCEPT !.written = "none"]
  IN  /\ Running(j) /\ IsBackup(j)
      /\ v.flag \/ v.failed \/ v.next > Parts
      /\ \/ v.failed /\ \E left \in {v, gone} : Set(j, Errored(left))
         \/ ~v.failed /\ Set(j, Errored([v EXCEPT !.written = "part"]))
         \/ ~v.failed /\ Cancelled(v) /\ Set(j, Errored(v))
         \/ ~v.failed /\ Cancelled(v) /\ Set(j, Ended(gone, "cancelled"))
         \/ ~v.failed /\ ~Cancelled(v) /\ Set(j, Ended(v, "complete"))
      /\ UNCHANGED <<open, slot, cancels, crossed>>

(***************************************************************************)
(* The specification                                                       *)
(***************************************************************************)
JobsInit == /\ open = Null /\ cancels = {} /\ crossed = {}
        /\ slot = [s \in Slots |-> Idle] /\ job = <<>>

\* A backup takes no file, and its options change nothing that is kept; an
\* import is always wrapped.
Run == \E n \in DOMAIN Jobs :
  /\ Jobs[n] \notin DOMAIN job
  /\ \A m \in 1..(n - 1) : Jobs[m] \in DOMAIN job
  /\ IF open = "backup" THEN Start(Jobs[n], <<>>, [stop |-> TRUE, wrap |-> FALSE])
     ELSE \E file \in Dumps[Jobs[n]], o \in Options[Jobs[n]] :
            (open = "import" => o.wrap) /\ Start(Jobs[n], file, o)

User == \/ \E d \in Slots : OpenDialog(d)
        \/ SelectConnection \/ CloseDialog \/ PickAnother \/ PressCancel \/ CloseAndStop
        \/ Run

Store == \/ \E j \in DOMAIN job : Begin(j) \/ Progress(j) \/ Answer(j)
         \/ \E j \in cancels : CancelArrives(j)

Restoring == \E j \in DOMAIN job :
  RunStatement(j) \/ ReadFails(j) \/ \E answered \in BOOLEAN : EndRestore(j, answered)

BackingUp == \E j \in DOMAIN job : Dump(j) \/ EndBackup(j)

JobsNext == User \/ Store \/ Restoring \/ BackingUp

JobsSpec == JobsInit /\ [][JobsNext]_jobVars

(***************************************************************************)
(* Properties                                                              *)
(***************************************************************************)
\* The runs that ended and are about to say how, and what they say.
EndedJobs == {j \in DOMAIN job : job[j].phase = "ended"}
Said(j) == job[j].result

\* A restore that says it is complete left all of its file in the database, and
\* one that says the database is as it was left nothing, whatever failed and
\* whenever Cancel came (runner.rs, partially_applied): unless the server
\* committed and the runner did not see it.
RestoreSaysTrue == \A j \in EndedJobs : ~IsBackup(j) =>
  /\ Said(j) = "complete" => job[j].next > Len(job[j].file) /\ ~job[j].pending
                             /\ (job[j].file # <<>> => job[j].kept)
  /\ Said(j) = "as it was" /\ job[j].unseen = {} => ~job[j].kept

\* A file that is said to be a backup is a whole one, and a cancelled backup
\* leaves none: "nothing behind that could be mistaken for a backup"
\* (writer.rs 187-198), however late the cancel came.
BackupSaysTrue == \A j \in EndedJobs : IsBackup(j) =>
  /\ Said(j) = "complete" => job[j].written = "whole"
  /\ Said(j) = "cancelled" => job[j].written = "none"

\* A slot speaks of its own run: one that goes on can be cancelled through every
\* reset (backupStore, resetBackup), the bar is its own however many runs there
\* are, and the slot is not running without one.  Two runs of one slot, which a
\* reset makes possible, are not told apart.
SlotKeepsItsRun == \A s \in Slots :
  /\ \A j \in GoingIn(s) \ crossed : slot[s].id = j
  /\ slot[s].running => GoingIn(s) # {}
  /\ slot[s].progress # Null /\ slot[s].progress \notin crossed
       => /\ job[slot[s].progress].slot = s
          /\ slot[s].id \in {Null, slot[s].progress} \cup crossed

\* A restore that says "Rolled back - the database is as it was"
\* (RestoreDialog.tsx 408, ImportDialog.tsx 736) left nothing, though a comment may
\* come before the word that commits.
AsItWas == \A j \in EndedJobs : ~IsBackup(j) =>
  (Said(j) = "as it was" /\ job[j].unseen \subseteq {"hidden"} => ~job[j].kept)
=============================================================================
