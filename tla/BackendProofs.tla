----------------------------- MODULE BackendProofs -----------------------------
(***************************************************************************)
(* Theorems about what the backend runs on a server.                       *)
(*                                                                         *)
(* QueryExecutor, for any runs, cancels, lanes and threads: type            *)
(* correctness, that a run being read is in the in-flight table, that the   *)
(* table forgets what returned, that a cancel stays in its scope and a      *)
(* passed deadline kills its own run's statement or none.                   *)
(*                                                                         *)
(* DumpJobs, for any runs, files, options and parts: what a restore and a  *)
(* backup say at their end is what they left, and a slot of the store keeps *)
(* its own run.  The components share no variable: a dump is restored on a  *)
(* connection of its own, which the executor never lends.                   *)
(***************************************************************************)
EXTENDS QueryExecutor, DumpJobs, TLAPS

(* A connection is lent to one run at a time, for as long as it reads. *)
LendingInv ==
  /\ \A r, q \in Runs : held[r] = held[q] /\ held[r] # NoThread => r = q
  /\ \A r \in Runs : pc[r] \in {"sent", "running", "kill"} => held[r] # NoThread
  /\ \A r \in Runs : held[r] # NoThread => pc[r] \in {"sent", "running", "kill", "drain"}

(* The server executes a run's batch on a connection of the run's lane, which
   meanwhile is lent to that run or to nobody. *)
ServerInv ==
  \A t \in Threads : exec[t] # NoRun =>
    /\ lane[t] = route[exec[t]]
    /\ \A r \in Runs : held[r] = t => exec[t] = r

(* An entry of the table is the ticket of a run that has not returned; a run
   that is read has its connection's thread for a ticket. *)
TableInv ==
  /\ \A t \in Threads : table[t] # NoRun =>
       ticket[table[t]] = t /\ pc[table[t]] \in {"running", "kill", "drain", "probe"}
  /\ \A r \in Runs : pc[r] \in {"running", "kill"} => ticket[r] = held[r]
  /\ \A r \in Runs : ticket[r] # NoThread => lane[ticket[r]] = route[r]

(* What a cancel took from the table belongs to lanes of its scope. *)
ScopeInv == \A k \in Cancels : \A t \in left[k] : InScope(lane[t], scope[k])

IInv ==
  /\ TypeOK /\ LendingInv /\ ServerInv /\ TableInv /\ ScopeInv
  /\ RunningIsReachable /\ CancelStaysInScope /\ DeadlineKillsItsOwn
-----------------------------------------------------------------------------
(* The invariant holds when the connection is made. *)
LEMMA Initial == Init => IInv
<1> SUFFICES ASSUME Init PROVE IInv
  OBVIOUS
<1> USE Lanes, Nobodies DEF Init
<1>1. TypeOK
  BY DEF TypeOK, PCs
<1>2. LendingInv /\ ServerInv /\ TableInv /\ ScopeInv
  BY DEF LendingInv, ServerInv, TableInv, ScopeInv
<1>3. RunningIsReachable /\ CancelStaysInScope /\ DeadlineKillsItsOwn
  BY DEF RunningIsReachable, CancelStaysInScope, DeadlineKillsItsOwn
<1> QED
  BY <1>1, <1>2, <1>3 DEF IInv

(* A call enters, or is refused. *)
LEMMA ExecuteStep == ASSUME IInv, NEW r \in Runs, Execute(r) PROVE IInv'
<1> USE Lanes, Nobodies DEF IInv, run, server, cancel
<1>1. TypeOK'
  BY DEF Execute, Goto, TypeOK, PCs, Scopes
<1>2. LendingInv'
  BY DEF Execute, Goto, TypeOK, LendingInv, ServerInv
<1>3. ServerInv'
  BY DEF Execute, Goto, TypeOK, LendingInv, ServerInv
<1>4. TableInv'
  BY DEF Execute, Goto, TypeOK, LendingInv, TableInv, RunningIsReachable
<1>5. ScopeInv'
  BY DEF Execute, Goto, TypeOK, TableInv, ScopeInv, InScope
<1>6. RunningIsReachable'
  BY DEF Execute, Goto, TypeOK, LendingInv, TableInv, RunningIsReachable
<1>7. CancelStaysInScope'
  BY DEF Execute, Goto, TypeOK, ServerInv, ScopeInv, CancelStaysInScope, InScope
<1>8. DeadlineKillsItsOwn'
  BY DEF Execute, Goto, TypeOK, LendingInv, ServerInv, TableInv, DeadlineKillsItsOwn
<1> QED
  BY <1>1, <1>2, <1>3, <1>4, <1>5, <1>6, <1>7, <1>8

(* Taking a free connection lends it to nobody else, and a free one runs nothing. *)
LEMMA AcquireStep == ASSUME IInv, NEW r \in Runs, Acquire(r) PROVE IInv'
<1> USE Lanes, Nobodies DEF IInv, run, server, cancel
<1>1. TypeOK'
  BY DEF Acquire, TakeConnection, Free, Goto, TypeOK, PCs, Scopes
<1>2. LendingInv'
  BY DEF Acquire, TakeConnection, Free, Goto, TypeOK, LendingInv, ServerInv
<1>3. ServerInv'
  BY DEF Acquire, TakeConnection, Free, Goto, TypeOK, LendingInv, ServerInv
<1>4. TableInv'
  BY DEF Acquire, TakeConnection, Free, Goto, TypeOK, LendingInv, TableInv, RunningIsReachable
<1>5. ScopeInv'
  BY DEF Acquire, TakeConnection, Free, Goto, TypeOK, TableInv, ScopeInv, InScope
<1>6. RunningIsReachable'
  BY DEF Acquire, TakeConnection, Free, Goto, TypeOK, LendingInv, TableInv, RunningIsReachable
<1>7. CancelStaysInScope'
  BY DEF Acquire, TakeConnection, Free, Goto, TypeOK, ServerInv, ScopeInv, CancelStaysInScope, InScope
<1>8. DeadlineKillsItsOwn'
  BY DEF Acquire, TakeConnection, Free, Goto, TypeOK, LendingInv, ServerInv, TableInv, DeadlineKillsItsOwn
<1> QED
  BY <1>1, <1>2, <1>3, <1>4, <1>5, <1>6, <1>7, <1>8

(* A run that gets no connection had none. *)
LEMMA NoConnectionStep == ASSUME IInv, NEW r \in Runs, NoConnection(r) PROVE IInv'
<1> USE Lanes, Nobodies DEF IInv, run, server, cancel
<1>1. TypeOK'
  BY DEF NoConnection, Goto, TypeOK, PCs, Scopes
<1>2. LendingInv'
  BY DEF NoConnection, Goto, TypeOK, LendingInv, ServerInv
<1>3. ServerInv'
  BY DEF NoConnection, Goto, TypeOK, LendingInv, ServerInv
<1>4. TableInv'
  BY DEF NoConnection, Goto, TypeOK, LendingInv, TableInv, RunningIsReachable
<1>5. ScopeInv'
  BY DEF NoConnection, Goto, TypeOK, TableInv, ScopeInv, InScope
<1>6. RunningIsReachable'
  BY DEF NoConnection, Goto, TypeOK, LendingInv, TableInv, RunningIsReachable
<1>7. CancelStaysInScope'
  BY DEF NoConnection, Goto, TypeOK, ServerInv, ScopeInv, CancelStaysInScope, InScope
<1>8. DeadlineKillsItsOwn'
  BY DEF NoConnection, Goto, TypeOK, LendingInv, ServerInv, TableInv, DeadlineKillsItsOwn
<1> QED
  BY <1>1, <1>2, <1>3, <1>4, <1>5, <1>6, <1>7, <1>8

(* Registering replaces the entry of a run that no longer reads there. *)
LEMMA RegisterStep == ASSUME IInv, NEW r \in Runs, Register(r) PROVE IInv'
<1> USE Lanes, Nobodies DEF IInv, run, server, cancel
<1>1. TypeOK'
  BY DEF Register, Goto, TypeOK, PCs, Scopes
<1>2. LendingInv'
  BY DEF Register, Goto, TypeOK, LendingInv, ServerInv
<1>3. ServerInv'
  BY DEF Register, Goto, TypeOK, LendingInv, ServerInv
<1>4. TableInv'
  BY DEF Register, Goto, TypeOK, LendingInv, TableInv, RunningIsReachable
<1>5. ScopeInv'
  BY DEF Register, Goto, TypeOK, TableInv, ScopeInv, InScope
<1>6. RunningIsReachable'
  BY DEF Register, Goto, TypeOK, LendingInv, TableInv, RunningIsReachable
<1>7. CancelStaysInScope'
  BY DEF Register, Goto, TypeOK, ServerInv, ScopeInv, CancelStaysInScope, InScope
<1>8. DeadlineKillsItsOwn'
  BY DEF Register, Goto, TypeOK, LendingInv, ServerInv, TableInv, DeadlineKillsItsOwn
<1> QED
  BY <1>1, <1>2, <1>3, <1>4, <1>5, <1>6, <1>7, <1>8

(* A stream that ends gives its connection back. *)
LEMMA StreamEndsStep == ASSUME IInv, NEW r \in Runs, StreamEnds(r) PROVE IInv'
<1> USE Lanes, Nobodies DEF IInv, run, server, cancel
<1>1. TypeOK'
  BY DEF StreamEnds, Drop, Goto, TypeOK, PCs, Scopes
<1>2. LendingInv'
  BY DEF StreamEnds, Drop, Goto, TypeOK, LendingInv, ServerInv
<1>3. ServerInv'
  BY DEF StreamEnds, Drop, Goto, TypeOK, LendingInv, ServerInv
<1>4. TableInv'
  BY DEF StreamEnds, Drop, Goto, TypeOK, LendingInv, TableInv, RunningIsReachable
<1>5. ScopeInv'
  BY DEF StreamEnds, Drop, Goto, TypeOK, TableInv, ScopeInv, InScope
<1>6. RunningIsReachable'
  BY DEF StreamEnds, Drop, Goto, TypeOK, LendingInv, TableInv, RunningIsReachable
<1>7. CancelStaysInScope'
  BY DEF StreamEnds, Drop, Goto, TypeOK, ServerInv, ScopeInv, CancelStaysInScope, InScope
<1>8. DeadlineKillsItsOwn'
  BY DEF StreamEnds, Drop, Goto, TypeOK, LendingInv, ServerInv, TableInv, DeadlineKillsItsOwn
<1> QED
  BY <1>1, <1>2, <1>3, <1>4, <1>5, <1>6, <1>7, <1>8

(* The memory guard gives the connection back with the statement running. *)
LEMMA MemoryStopsStep == ASSUME IInv, NEW r \in Runs, MemoryStops(r) PROVE IInv'
<1> USE Lanes, Nobodies DEF IInv, run, server, cancel
<1>1. TypeOK'
  BY DEF MemoryStops, Drop, Goto, TypeOK, PCs, Scopes
<1>2. LendingInv'
  BY DEF MemoryStops, Drop, Goto, TypeOK, LendingInv, ServerInv
<1>3. ServerInv'
  BY DEF MemoryStops, Drop, Goto, TypeOK, LendingInv, ServerInv
<1>4. TableInv'
  BY DEF MemoryStops, Drop, Goto, TypeOK, LendingInv, TableInv, RunningIsReachable
<1>5. ScopeInv'
  BY DEF MemoryStops, Drop, Goto, TypeOK, TableInv, ScopeInv, InScope
<1>6. RunningIsReachable'
  BY DEF MemoryStops, Drop, Goto, TypeOK, LendingInv, TableInv, RunningIsReachable
<1>7. CancelStaysInScope'
  BY DEF MemoryStops, Drop, Goto, TypeOK, ServerInv, ScopeInv, CancelStaysInScope, InScope
<1>8. DeadlineKillsItsOwn'
  BY DEF MemoryStops, Drop, Goto, TypeOK, LendingInv, ServerInv, TableInv, DeadlineKillsItsOwn
<1> QED
  BY <1>1, <1>2, <1>3, <1>4, <1>5, <1>6, <1>7, <1>8

(* A passed deadline keeps the connection. *)
LEMMA DeadlineStep == ASSUME IInv, NEW r \in Runs, Deadline(r) PROVE IInv'
<1> USE Lanes, Nobodies DEF IInv, run, server, cancel
<1>1. TypeOK'
  BY DEF Deadline, Goto, TypeOK, PCs, Scopes
<1>2. LendingInv'
  BY DEF Deadline, Goto, TypeOK, LendingInv, ServerInv
<1>3. ServerInv'
  BY DEF Deadline, Goto, TypeOK, LendingInv, ServerInv
<1>4. TableInv'
  BY DEF Deadline, Goto, TypeOK, LendingInv, TableInv, RunningIsReachable
<1>5. ScopeInv'
  BY DEF Deadline, Goto, TypeOK, TableInv, ScopeInv, InScope
<1>6. RunningIsReachable'
  BY DEF Deadline, Goto, TypeOK, LendingInv, TableInv, RunningIsReachable
<1>7. CancelStaysInScope'
  BY DEF Deadline, Goto, TypeOK, ServerInv, ScopeInv, CancelStaysInScope, InScope
<1>8. DeadlineKillsItsOwn'
  BY DEF Deadline, Goto, TypeOK, LendingInv, ServerInv, TableInv, DeadlineKillsItsOwn
<1> QED
  BY <1>1, <1>2, <1>3, <1>4, <1>5, <1>6, <1>7, <1>8

(* The ticket of a run with its connection still lent is a thread that runs its batch or nothing. *)
LEMMA KillOwnStep == ASSUME IInv, NEW r \in Runs, KillOwn(r) PROVE IInv'
<1> USE Lanes, Nobodies DEF IInv, run, server, cancel
<1>1. TypeOK'
  <2> USE DEF TypeOK, KillOwn
  <2>1. exec' \in [Threads -> Runs \cup {NoRun}] /\ fate' \in [Runs -> {"none", "ran", "failed", "cut"}]
    BY DEF Kill
  <2>2. by' \in [Runs -> Runs \cup Cancels \cup {NoOne}]
    BY DEF Kill
  <2>3. pc' \in [Runs -> PCs]
    BY DEF Goto, PCs
  <2> QED
    BY <2>1, <2>2, <2>3
<1>2. LendingInv'
  BY DEF KillOwn, Kill, Goto, TypeOK, LendingInv, ServerInv
<1>3. ServerInv'
  BY DEF KillOwn, Kill, Goto, TypeOK, LendingInv, ServerInv
<1>4. TableInv'
  BY DEF KillOwn, Kill, Goto, TypeOK, LendingInv, TableInv, RunningIsReachable
<1>5. ScopeInv'
  BY DEF KillOwn, Kill, Goto, TypeOK, TableInv, ScopeInv, InScope
<1>6. RunningIsReachable'
  BY DEF KillOwn, Kill, Goto, TypeOK, LendingInv, TableInv, RunningIsReachable
<1>7. CancelStaysInScope'
  BY DEF KillOwn, Kill, Goto, TypeOK, ServerInv, ScopeInv, CancelStaysInScope, InScope
<1>8. DeadlineKillsItsOwn'
  BY DEF KillOwn, Kill, Goto, TypeOK, LendingInv, ServerInv, TableInv, DeadlineKillsItsOwn
<1> QED
  BY <1>1, <1>2, <1>3, <1>4, <1>5, <1>6, <1>7, <1>8

(* A run that waited past its deadline takes a connection like any other. *)
LEMMA DrainAcquiresStep == ASSUME IInv, NEW r \in Runs, DrainAcquires(r) PROVE IInv'
<1> USE Lanes, Nobodies DEF IInv, run, server, cancel
<1>1. TypeOK'
  BY DEF DrainAcquires, TakeConnection, Free, Goto, TypeOK, PCs, Scopes
<1>2. LendingInv'
  BY DEF DrainAcquires, TakeConnection, Free, Goto, TypeOK, LendingInv, ServerInv
<1>3. ServerInv'
  BY DEF DrainAcquires, TakeConnection, Free, Goto, TypeOK, LendingInv, ServerInv
<1>4. TableInv'
  BY DEF DrainAcquires, TakeConnection, Free, Goto, TypeOK, LendingInv, TableInv, RunningIsReachable
<1>5. ScopeInv'
  BY DEF DrainAcquires, TakeConnection, Free, Goto, TypeOK, TableInv, ScopeInv, InScope
<1>6. RunningIsReachable'
  BY DEF DrainAcquires, TakeConnection, Free, Goto, TypeOK, LendingInv, TableInv, RunningIsReachable
<1>7. CancelStaysInScope'
  BY DEF DrainAcquires, TakeConnection, Free, Goto, TypeOK, ServerInv, ScopeInv, CancelStaysInScope, InScope
<1>8. DeadlineKillsItsOwn'
  BY DEF DrainAcquires, TakeConnection, Free, Goto, TypeOK, LendingInv, ServerInv, TableInv, DeadlineKillsItsOwn
<1> QED
  BY <1>1, <1>2, <1>3, <1>4, <1>5, <1>6, <1>7, <1>8

(* After the draining the connection goes back. *)
LEMMA DrainEndsStep == ASSUME IInv, NEW r \in Runs, DrainEnds(r) PROVE IInv'
<1> USE Lanes, Nobodies DEF IInv, run, server, cancel
<1>1. TypeOK'
  BY DEF DrainEnds, Drop, Goto, TypeOK, PCs, Scopes
<1>2. LendingInv'
  BY DEF DrainEnds, Drop, Goto, TypeOK, LendingInv, ServerInv
<1>3. ServerInv'
  BY DEF DrainEnds, Drop, Goto, TypeOK, LendingInv, ServerInv
<1>4. TableInv'
  BY DEF DrainEnds, Drop, Goto, TypeOK, LendingInv, TableInv, RunningIsReachable
<1>5. ScopeInv'
  BY DEF DrainEnds, Drop, Goto, TypeOK, TableInv, ScopeInv, InScope
<1>6. RunningIsReachable'
  BY DEF DrainEnds, Drop, Goto, TypeOK, LendingInv, TableInv, RunningIsReachable
<1>7. CancelStaysInScope'
  BY DEF DrainEnds, Drop, Goto, TypeOK, ServerInv, ScopeInv, CancelStaysInScope, InScope
<1>8. DeadlineKillsItsOwn'
  BY DEF DrainEnds, Drop, Goto, TypeOK, LendingInv, ServerInv, TableInv, DeadlineKillsItsOwn
<1> QED
  BY <1>1, <1>2, <1>3, <1>4, <1>5, <1>6, <1>7, <1>8

(* A run that returns takes away its own entry and no other. *)
LEMMA ReturnStep == ASSUME IInv, NEW r \in Runs, Return(r) PROVE IInv'
<1> USE Lanes, Nobodies DEF IInv, run, server, cancel
<1>1. TypeOK'
  BY DEF Return, Goto, TypeOK, PCs, Scopes
<1>2. LendingInv'
  BY DEF Return, Goto, TypeOK, LendingInv, ServerInv
<1>3. ServerInv'
  BY DEF Return, Goto, TypeOK, LendingInv, ServerInv
<1>4. TableInv'
  BY DEF Return, Goto, TypeOK, LendingInv, TableInv, RunningIsReachable
<1>5. ScopeInv'
  BY DEF Return, Goto, TypeOK, TableInv, ScopeInv, InScope
<1>6. RunningIsReachable'
  BY DEF Return, Goto, TypeOK, LendingInv, TableInv, RunningIsReachable
<1>7. CancelStaysInScope'
  BY DEF Return, Goto, TypeOK, ServerInv, ScopeInv, CancelStaysInScope, InScope
<1>8. DeadlineKillsItsOwn'
  BY DEF Return, Goto, TypeOK, LendingInv, ServerInv, TableInv, DeadlineKillsItsOwn
<1> QED
  BY <1>1, <1>2, <1>3, <1>4, <1>5, <1>6, <1>7, <1>8

(* The server is done with a batch. *)
LEMMA ServerEndsStep == ASSUME IInv, NEW t \in Threads, ServerEnds(t) PROVE IInv'
<1> USE Lanes, Nobodies DEF IInv, run, server, cancel
<1>1. TypeOK'
  BY DEF ServerEnds, TypeOK, PCs, Scopes
<1>2. LendingInv'
  BY DEF ServerEnds, TypeOK, LendingInv, ServerInv
<1>3. ServerInv'
  BY DEF ServerEnds, TypeOK, LendingInv, ServerInv
<1>4. TableInv'
  BY DEF ServerEnds, TypeOK, LendingInv, TableInv, RunningIsReachable
<1>5. ScopeInv'
  BY DEF ServerEnds, TypeOK, TableInv, ScopeInv, InScope
<1>6. RunningIsReachable'
  BY DEF ServerEnds, TypeOK, LendingInv, TableInv, RunningIsReachable
<1>7. CancelStaysInScope'
  BY DEF ServerEnds, TypeOK, ServerInv, ScopeInv, CancelStaysInScope, InScope
<1>8. DeadlineKillsItsOwn'
  BY DEF ServerEnds, TypeOK, LendingInv, ServerInv, TableInv, DeadlineKillsItsOwn
<1> QED
  BY <1>1, <1>2, <1>3, <1>4, <1>5, <1>6, <1>7, <1>8

(* The entries a cancel takes are of its scope. *)
LEMMA CancelStep == ASSUME IInv, NEW k \in Cancels, Cancel(k) PROVE IInv'
<1> USE Lanes, Nobodies DEF IInv, run, server, cancel
<1>1. TypeOK'
  BY DEF Cancel, threads_to_cancel, TypeOK, PCs, Scopes
<1>2. LendingInv'
  BY DEF Cancel, threads_to_cancel, TypeOK, LendingInv, ServerInv
<1>3. ServerInv'
  BY DEF Cancel, threads_to_cancel, TypeOK, LendingInv, ServerInv
<1>4. TableInv'
  BY DEF Cancel, threads_to_cancel, TypeOK, LendingInv, TableInv, RunningIsReachable
<1>5. ScopeInv'
  BY DEF Cancel, threads_to_cancel, TypeOK, TableInv, ScopeInv, InScope
<1>6. RunningIsReachable'
  BY DEF Cancel, threads_to_cancel, TypeOK, LendingInv, TableInv, RunningIsReachable
<1>7. CancelStaysInScope'
  BY DEF Cancel, threads_to_cancel, TypeOK, ServerInv, ScopeInv, CancelStaysInScope, InScope
<1>8. DeadlineKillsItsOwn'
  BY DEF Cancel, threads_to_cancel, TypeOK, LendingInv, ServerInv, TableInv, DeadlineKillsItsOwn
<1> QED
  BY <1>1, <1>2, <1>3, <1>4, <1>5, <1>6, <1>7, <1>8

(* A KILL of a cancel finds a run of the thread's lane, which is in scope. *)
LEMMA KillNextStep == ASSUME IInv, NEW k \in Cancels, KillNext(k) PROVE IInv'
<1> USE Lanes, Nobodies DEF IInv, run, server, cancel
<1>1. TypeOK'
  <2> USE DEF TypeOK, KillNext
  <2>1. exec' \in [Threads -> Runs \cup {NoRun}] /\ fate' \in [Runs -> {"none", "ran", "failed", "cut"}]
    <3>1. exec' \in [Threads -> Runs \cup {NoRun}]
      BY DEF Kill
    <3>2. fate' \in [Runs -> {"none", "ran", "failed", "cut"}]
      BY DEF Kill
    <3> QED
      BY <3>1, <3>2
  <2>2. by' \in [Runs -> Runs \cup Cancels \cup {NoOne}]
    BY DEF Kill
  <2>3. answer' \in [Cancels -> {"none", "ok", "error"}]
    OBVIOUS
  <2>4. ck' \in [Cancels -> {"idle", "killing", "done"}] /\ left' \in [Cancels -> SUBSET Threads]
    OBVIOUS
  <2> QED
    BY <2>1, <2>2, <2>3, <2>4
<1>2. LendingInv'
  BY DEF KillNext, Kill, TypeOK, LendingInv, ServerInv
<1>3. ServerInv'
  BY DEF KillNext, Kill, TypeOK, LendingInv, ServerInv
<1>4. TableInv'
  BY DEF KillNext, Kill, TypeOK, LendingInv, TableInv, RunningIsReachable
<1>5. ScopeInv'
  BY DEF KillNext, Kill, TypeOK, TableInv, ScopeInv, InScope
<1>6. RunningIsReachable'
  BY DEF KillNext, Kill, TypeOK, LendingInv, TableInv, RunningIsReachable
<1>7. CancelStaysInScope'
  BY DEF KillNext, Kill, TypeOK, ServerInv, ScopeInv, CancelStaysInScope, InScope
<1>8. DeadlineKillsItsOwn'
  <2>1. \A r \in Runs : by'[r] = by[r] \/ by'[r] = k
    BY DEF KillNext, Kill, TypeOK
  <2> QED
    BY <2>1 DEF DeadlineKillsItsOwn
<1> QED
  BY <1>1, <1>2, <1>3, <1>4, <1>5, <1>6, <1>7, <1>8

(* The disconnect, and a step that changes nothing, disturb nothing. *)
LEMMA OtherStep == ASSUME IInv, Disconnect \/ PoolsClosed \/ UNCHANGED vars PROVE IInv'
<1> USE DEF IInv, vars, run, server, cancel, Disconnect, PoolsClosed
<1>1. TypeOK'
  BY DEF TypeOK, PCs, Scopes
<1>2. LendingInv'
  BY DEF TypeOK, LendingInv, ServerInv
<1>3. ServerInv'
  BY DEF TypeOK, LendingInv, ServerInv
<1>4. TableInv'
  BY DEF TypeOK, LendingInv, TableInv, RunningIsReachable
<1>5. ScopeInv'
  BY DEF TypeOK, TableInv, ScopeInv, InScope
<1>6. RunningIsReachable'
  BY DEF TypeOK, LendingInv, TableInv, RunningIsReachable
<1>7. CancelStaysInScope'
  BY DEF TypeOK, ServerInv, ScopeInv, CancelStaysInScope, InScope
<1>8. DeadlineKillsItsOwn'
  BY DEF TypeOK, LendingInv, ServerInv, TableInv, DeadlineKillsItsOwn
<1> QED
  BY <1>1, <1>2, <1>3, <1>4, <1>5, <1>6, <1>7, <1>8

(* The invariant is inductive. *)
LEMMA Inductive == IInv /\ [Next]_vars => IInv'
<1> SUFFICES ASSUME IInv, [Next]_vars PROVE IInv'
  OBVIOUS
<1>1. ASSUME NEW r \in Runs, Execute(r) \/ RunStep(r) PROVE IInv'
  BY <1>1, ExecuteStep, AcquireStep, NoConnectionStep, RegisterStep, StreamEndsStep, MemoryStopsStep,
     DeadlineStep, KillOwnStep, DrainAcquiresStep, DrainEndsStep, ReturnStep DEF RunStep
<1>2. ASSUME NEW t \in Threads, ServerEnds(t) PROVE IInv'
  BY <1>2, ServerEndsStep
<1>3. ASSUME NEW k \in Cancels, Cancel(k) \/ KillNext(k) PROVE IInv'
  BY <1>3, CancelStep, KillNextStep
<1>4. ASSUME Disconnect \/ PoolsClosed \/ UNCHANGED vars PROVE IInv'
  BY <1>4, OtherStep
<1> QED
  BY <1>1, <1>2, <1>3, <1>4 DEF Next

-----------------------------------------------------------------------------
(* The lending of connections, the server, the table and the cancels agree in
   every reachable state. *)
THEOREM Invariance == Spec => []IInv
  BY Initial, Inductive, PTL DEF Spec

(* Every variable has its type, and a run holds a connection of its lane. *)
THEOREM TypeCorrect == Spec => []TypeOK
<1>1. IInv => TypeOK
  BY DEF IInv
<1> QED
  BY <1>1, Invariance, PTL

(* A run that is being read is in the table under its thread: a cancel that
   reads the table finds it, whoever used the connection before. *)
THEOREM Reachable == Spec => []RunningIsReachable
<1>1. IInv => RunningIsReachable
  BY DEF IInv
<1> QED
  BY <1>1, Invariance, PTL

(* The in-flight table names no run that has returned. *)
THEOREM Forgets == Spec => []TableForgets
<1>1. IInv => TableForgets
  BY DEF IInv, TableInv, TableForgets
<1> QED
  BY <1>1, Invariance, PTL

(* What a cancel cuts short is in its scope. *)
THEOREM StaysInScope == Spec => []CancelStaysInScope
<1>1. IInv => CancelStaysInScope
  BY DEF IInv
<1> QED
  BY <1>1, Invariance, PTL

(* The KILL of a passed deadline cuts short its own run's statement or none. *)
THEOREM OwnKill == Spec => []DeadlineKillsItsOwn
<1>1. IInv => DeadlineKillsItsOwn
  BY DEF IInv
<1> QED
  BY <1>1, Invariance, PTL

-----------------------------------------------------------------------------
Files == Seq(Kinds)
Reasons == {"hidden", "refused", "uncommitted"}

(* A run that has not answered. *)
Job == [slot : Slots, phase : {"starting", "running", "ended"}, flag : BOOLEAN,
        file : Files, next : Nat, stop : BOOLEAN, wrap : BOOLEAN, inTx : BOOLEAN,
        open : BOOLEAN, pending : BOOLEAN, kept : BOOLEAN, committed : BOOLEAN,
        ran : BOOLEAN, failed : BOOLEAN, unseen : SUBSET Reasons,
        written : {"none", "part", "whole"},
        result : {Null, "error", "complete", "cancelled", "partly changed", "as it was"}]

(* Nothing was done yet. *)
Fresh(v) ==
  /\ v.next = 1 /\ v.unseen = {}
  /\ ~v.inTx /\ ~v.open /\ ~v.pending /\ ~v.kept /\ ~v.ran

(* What a restore under way knows of the server's transaction, while nothing
   committed behind its back; what ran is there, or waits for the commit. *)
Restores(v) ==
  /\ v.next >= 1
  /\ v.pending => v.open
  /\ v.open => v.inTx
  /\ v.next # 1 /\ ~v.failed => v.kept \/ v.pending
  /\ v.kept \/ v.pending => v.ran
  /\ v.inTx /\ ~v.committed /\ v.unseen = {} => v.open /\ ~v.kept

(* A backup past its last part has written the whole file. *)
Writes(v) == v.next > Parts => v.written = "whole"

(* What a run says at its end. *)
RestoreTrue(v) ==
  /\ v.result = "complete" => v.next > Len(v.file) /\ ~v.pending /\ (v.file # <<>> => v.kept)
  /\ v.result = "as it was" /\ v.unseen = {} => ~v.kept

BackupTrue(v) ==
  /\ v.result = "complete" => v.written = "whole"
  /\ v.result = "cancelled" => v.written = "none"

Good(v) ==
  /\ v.phase = "starting" => Fresh(v)
  /\ v.phase = "running" => IF v.slot = "backup" THEN Writes(v) ELSE Restores(v)
  /\ v.phase = "ended" => IF v.slot = "backup" THEN BackupTrue(v) ELSE RestoreTrue(v)

JobInv == \A j \in DOMAIN job : job[j].phase # "done" => job[j] \in Job /\ Good(job[j])

(* Types of what the window keeps. *)
SlotType ==
  /\ open \in Slots \cup {Null}
  /\ slot \in [Slots -> [id : DOMAIN job \cup {Null}, running : BOOLEAN, cancelling : BOOLEAN,
                         progress : DOMAIN job \cup {Null}, told : BOOLEAN]]
  /\ DOMAIN job \subseteq Range(Jobs)
  /\ \A j \in DOMAIN job : job[j].slot \in Slots
  /\ cancels \subseteq DOMAIN job /\ crossed \subseteq DOMAIN job

(* Runs that go on in one slot were noted as crossed. *)
CrossedInv == \A j, k \in Going : j # k /\ job[j].slot = job[k].slot => {j, k} \subseteq crossed

JobsInv == SlotType /\ JobInv /\ CrossedInv /\ SlotKeepsItsRun
-----------------------------------------------------------------------------
(* The types of a job's fields. *)
LEMMA JobFields ==
  ASSUME NEW v \in Job
  PROVE  /\ v.slot \in Slots /\ v.next \in Nat /\ v.file \in Files /\ v.unseen \in SUBSET Reasons
         /\ v.flag \in BOOLEAN /\ v.stop \in BOOLEAN /\ v.inTx \in BOOLEAN /\ v.open \in BOOLEAN
         /\ v.pending \in BOOLEAN /\ v.kept \in BOOLEAN /\ v.committed \in BOOLEAN
         /\ v.ran \in BOOLEAN /\ v.failed \in BOOLEAN
         /\ v.phase \in {"starting", "running", "ended"} /\ v.written \in {"none", "part", "whole"}
BY DEF Job

(* A new run is fresh. *)
LEMMA NewJobGood ==
  ASSUME NEW s \in Slots, NEW file \in Files, NEW o \in [stop : BOOLEAN, wrap : BOOLEAN]
  PROVE  NewJob(s, file, o) \in Job /\ Good(NewJob(s, file, o))
<1>1. NewJob(s, file, o) \in Job
  BY DEF NewJob, Job
<1> QED
  BY <1>1 DEF NewJob, Good, Fresh

(* An error says nothing, whatever was left. *)
LEMMA ErroredAsIs ==
  ASSUME NEW v \in Job
  PROVE  Errored(v) \in Job /\ Good(Errored(v)) /\ Errored(v).slot = v.slot
BY DEF Job, Errored, Ended, Good, BackupTrue, RestoreTrue

(* What MySQL does of itself leaves a job's type. *)
LEMMA CommittedJob ==
  ASSUME NEW v \in Job
  PROVE  /\ Committed(v) \in Job
         /\ Committed(v).kept = (v.kept \/ v.pending) /\ ~Committed(v).pending /\ ~Committed(v).open
<1> DEFINE k == v.kept \/ v.pending
<1>1. k \in BOOLEAN
  OBVIOUS
<1>2. Committed(v) = [v EXCEPT !.kept = k, !.pending = FALSE, !.open = FALSE]
  BY DEF Committed, Job
<1> HIDE DEF k
<1>3. Committed(v) \in Job
  BY <1>1, <1>2, ZenonT(60) DEF Job
<1>4. Committed(v).kept = k /\ ~Committed(v).pending /\ ~Committed(v).open
  BY <1>2, ZenonT(60) DEF Job
<1> QED
  BY <1>3, <1>4 DEF k

LEMMA EffectJob ==
  ASSUME NEW v \in Job, NEW kind \in Kinds
  PROVE  Effect(v, kind) \in Job
<1>1. CASE kind = "dml" /\ v.open
  BY <1>1 DEF Effect, Job
<1>2. CASE kind = "dml" /\ ~v.open
  BY <1>2 DEF Effect, Job
<1>3. CASE kind # "dml"
  <2> DEFINE c == Committed(v)
  <2>1. c \in Job
    BY CommittedJob
  <2> HIDE DEF c
  <2>2. [c EXCEPT !.kept = TRUE] \in Job
    BY <2>1 DEF Job
  <2> QED
    BY <1>3, <2>2 DEF Effect, c
<1> QED
  BY <1>1, <1>2, <1>3

(* A statement of a restore that ran. *)
LEMMA RanGood ==
  ASSUME NEW v \in Job, Good(v), v.phase = "running", v.slot # "backup", NEW kind \in Kinds
  PROVE  LET w == [RecordRun(v, kind) EXCEPT !.next = @ + 1]
         IN  w \in Job /\ Good(w) /\ w.slot = v.slot
<1> DEFINE w == [RecordRun(v, kind) EXCEPT !.next = @ + 1]
           e == Effect(v, kind)
           c == e.committed \/ kind = "ddl"
           u == e.unseen \cup (IF kind = "hidden" THEN {"hidden"} ELSE {})
<1>1. e \in Job
  BY EffectJob
<1>2. w = [e EXCEPT !.ran = TRUE, !.committed = c, !.unseen = u, !.next = e.next + 1]
  <2> HIDE DEF e
  <2> QED
    BY <1>1 DEF RecordRun, commits_implicitly, Job, e
<1>3. /\ e.slot = v.slot /\ e.phase = v.phase /\ e.next = v.next /\ e.unseen = v.unseen
      /\ e.failed = v.failed /\ e.inTx = v.inTx /\ e.committed = v.committed
  BY DEF Effect, Committed, Job
<1>4. \/ kind = "dml" /\ v.open /\ e.pending /\ e.open /\ e.kept = v.kept
      \/ kind = "dml" /\ ~v.open /\ e.pending = v.pending /\ e.open = v.open /\ e.kept
      \/ kind \in {"ddl", "hidden"} /\ ~e.pending /\ ~e.open /\ e.kept
  BY DEF Effect, Committed, Job, Kinds
<1> HIDE DEF e
<1>5. c \in BOOLEAN /\ u \in SUBSET Reasons
  BY <1>1 DEF Job, Reasons
<1> HIDE DEF c, u
<1>6. e.next + 1 \in Nat
  <2>1. e.next \in Nat
    BY <1>1, JobFields
  <2> QED
    BY <2>1
<1>7. w \in Job
  BY <1>1, <1>2, <1>5, <1>6, ZenonT(60) DEF Job
<1>8. /\ w.slot = v.slot /\ w.phase = "running" /\ w.failed = v.failed
      /\ w.inTx = v.inTx /\ w.open = e.open /\ w.pending = e.pending /\ w.kept = e.kept
  BY <1>1, <1>2, <1>3, ZenonT(120) DEF Job
<1>9. w.ran = TRUE /\ w.committed = c /\ w.unseen = u /\ w.next = e.next + 1
  BY <1>1, <1>2 DEF Job
<1> HIDE DEF w
<1>10. Restores(w)
  <2>1. Restores(v)
    BY DEF Good
  <2>2. kind = "ddl" => c
    BY DEF c
  <2>3. kind = "hidden" => u # {}
    BY DEF u
  <2>4. ~c => ~v.committed
    BY <1>3 DEF c
  <2>5. u = {} => v.unseen = {}
    BY <1>3 DEF u
  <2>6. v.next \in Nat /\ v.next >= 1 /\ w.next = v.next + 1
    BY <2>1, <1>3, <1>9, JobFields DEF Restores
  <2>7. w.next >= 1 /\ (w.next # 1 /\ ~w.failed => w.kept \/ w.pending)
    BY <2>6, <1>4, <1>8
  <2>8. /\ w.pending => w.open
        /\ w.open => w.inTx
        /\ w.kept \/ w.pending => w.ran
    BY <2>1, <1>4, <1>8, <1>9 DEF Restores
  <2>9. w.inTx /\ ~w.committed /\ w.unseen = {} => w.open /\ ~w.kept
    BY <2>1, <2>2, <2>3, <2>4, <2>5, <1>4, <1>8, <1>9 DEF Restores
  <2> QED
    BY <2>7, <2>8, <2>9 DEF Restores
<1> QED
  BY <1>7, <1>8, <1>10 DEF Good, w

(* One that failed. *)
LEMMA FailedGood ==
  ASSUME NEW v \in Job, Good(v), v.phase = "running", v.slot # "backup", NEW commits \in BOOLEAN
  PROVE  LET w == [RecordFailed(v, commits) EXCEPT !.next = @ + 1]
         IN  w \in Job /\ Good(w) /\ w.slot = v.slot
<1> DEFINE w == [RecordFailed(v, commits) EXCEPT !.next = @ + 1]
           e == IF commits THEN Committed(v) ELSE v
           u == e.unseen \cup (IF commits THEN {"refused"} ELSE {})
<1>1. e \in Job
  BY CommittedJob
<1>2. /\ e.slot = v.slot /\ e.phase = v.phase /\ e.next = v.next /\ e.unseen = v.unseen
      /\ e.ran = v.ran /\ e.inTx = v.inTx /\ e.committed = v.committed
  BY DEF Committed, Job
<1>3. \/ commits /\ ~e.pending /\ ~e.open /\ e.kept = (v.kept \/ v.pending)
      \/ ~commits /\ e.pending = v.pending /\ e.open = v.open /\ e.kept = v.kept
  BY CommittedJob
<1>4. w = [e EXCEPT !.failed = TRUE, !.unseen = u, !.next = e.next + 1]
  <2> HIDE DEF e
  <2> QED
    BY <1>1 DEF RecordFailed, Job, e
<1> HIDE DEF e
<1>5. u \in SUBSET Reasons
  BY <1>1 DEF Job, Reasons
<1> HIDE DEF u
<1>6. e.next + 1 \in Nat
  <2>1. e.next \in Nat
    BY <1>1, JobFields
  <2> QED
    BY <2>1
<1>7. w \in Job
  BY <1>1, <1>4, <1>5, <1>6, ZenonT(60) DEF Job
<1>8. /\ w.slot = v.slot /\ w.phase = "running" /\ w.ran = v.ran /\ w.committed = v.committed
      /\ w.inTx = v.inTx /\ w.open = e.open /\ w.pending = e.pending /\ w.kept = e.kept
  BY <1>1, <1>2, <1>4, ZenonT(120) DEF Job
<1>9. w.failed = TRUE /\ w.unseen = u /\ w.next = e.next + 1
  BY <1>1, <1>4 DEF Job
<1> HIDE DEF w
<1>10. Restores(w)
  <2>1. Restores(v)
    BY DEF Good
  <2>2. commits => u # {}
    BY DEF u
  <2>3. u = {} => v.unseen = {}
    BY <1>2 DEF u
  <2>4. v.next \in Nat /\ v.next >= 1 /\ w.next = v.next + 1
    BY <2>1, <1>2, <1>9, JobFields DEF Restores
  <2>5. w.next >= 1
    BY <2>4
  <2> QED
    BY <2>1, <2>2, <2>3, <2>5, <1>3, <1>8, <1>9 DEF Restores
<1> QED
  BY <1>7, <1>8, <1>10 DEF Good, w
-----------------------------------------------------------------------------
(* A step that changes one job that is going, and leaves it going. *)
LEMMA SetStep ==
  ASSUME JobsInv, NEW j \in DOMAIN job, job[j].phase # "done",
         NEW w \in Job, Good(w), w.slot = job[j].slot,
         Set(j, w), slot' = slot, open' = open, crossed' = crossed, cancels' \subseteq cancels
  PROVE  JobsInv'
<1>1. job' = [job EXCEPT ![j] = w]
  BY DEF Set
<1>2. DOMAIN job' = DOMAIN job /\ job'[j] = w /\ \A k \in DOMAIN job : k # j => job'[k] = job[k]
  BY <1>1
<1>3. w.phase # "done"
  BY JobFields
<1>4. Going' = Going /\ \A k \in DOMAIN job : job'[k].slot = job[k].slot
  BY <1>2, <1>3 DEF Going
<1>5. SlotType'
  BY <1>2, <1>4 DEF JobsInv, SlotType
<1>6. JobInv'
  BY <1>2 DEF JobsInv, JobInv, Good
<1>7. CrossedInv'
  BY <1>4 DEF JobsInv, CrossedInv, Going
<1>8. \A s \in Slots : GoingIn(s)' = GoingIn(s)
  BY <1>4 DEF GoingIn, Going
<1>9. SlotKeepsItsRun'
  BY <1>4, <1>8 DEF JobsInv, SlotKeepsItsRun, SlotType
<1> QED
  BY <1>5, <1>6, <1>7, <1>9 DEF JobsInv

(* What is known of a job that is going. *)
LEMMA GoingJob ==
  ASSUME JobsInv, NEW j \in DOMAIN job, job[j].phase # "done"
  PROVE  job[j] \in Job /\ Good(job[j])
BY DEF JobsInv, JobInv

LEMMA BeginStep == ASSUME JobsInv, NEW j \in DOMAIN job, Begin(j) PROVE JobsInv'
<1> DEFINE v == job[j]
<1>1. v.phase = "starting"
  BY DEF Begin
<1>2. v \in Job /\ Good(v)
  BY <1>1, GoingJob
<1>3. CASE Set(j, Errored(v))
  <2>1. Errored(v) \in Job /\ Good(Errored(v)) /\ Errored(v).slot = v.slot
    BY <1>2, ErroredAsIs
  <2> QED
    BY <1>1, <1>3, <2>1, SetStep DEF Begin
<1>4. CASE IsBackup(j) /\ Set(j, [v EXCEPT !.phase = "running", !.written = "part"])
  <2> DEFINE w == [v EXCEPT !.phase = "running", !.written = "part"]
  <2>1. w \in Job /\ w.slot = v.slot /\ w.phase = "running" /\ w.next = v.next
    BY <1>2 DEF Job
  <2>2. v.next = 1 /\ v.slot = "backup"
    BY <1>1, <1>2, <1>4 DEF Good, Fresh, IsBackup
  <2>3. Good(w)
    <3> HIDE DEF w
    <3> QED
      BY <2>1, <2>2, DumpsAssumption DEF Good, Writes
  <2> HIDE DEF w
  <2> QED
    BY <1>1, <1>4, <2>1, <2>3, SetStep DEF Begin, w
<1>5. ASSUME NEW tx \in BOOLEAN, ~IsBackup(j),
             Set(j, [v EXCEPT !.phase = "running", !.inTx = tx, !.open = tx])
      PROVE  JobsInv'
  <2> DEFINE w == [v EXCEPT !.phase = "running", !.inTx = tx, !.open = tx]
  <2>1. /\ w \in Job /\ w.slot = v.slot /\ w.phase = "running" /\ w.next = v.next /\ w.inTx = tx
        /\ w.open = tx /\ w.pending = v.pending /\ w.kept = v.kept /\ w.ran = v.ran
    BY <1>2 DEF Job
  <2>2. Fresh(v) /\ v.slot # "backup"
    BY <1>1, <1>2, <1>5 DEF Good, IsBackup
  <2> HIDE DEF w
  <2>3. Good(w)
    BY <2>1, <2>2 DEF Good, Restores, Fresh
  <2> QED
    BY <1>1, <1>5, <2>1, <2>3, SetStep DEF Begin, w
<1>6. job[j].wrap \in BOOLEAN
  BY <1>2 DEF Job
<1> QED
  BY <1>3, <1>4, <1>5, <1>6 DEF Begin

(* A cancel sets a flag, or finds nothing. *)
LEMMA CancelArrivesStep == ASSUME JobsInv, NEW j \in cancels, CancelArrives(j) PROVE JobsInv'
<1> DEFINE v == job[j]
           w == [v EXCEPT !.flag = TRUE]
<1>1. j \in DOMAIN job
  BY DEF JobsInv, SlotType
<1>2. CASE Running(j)
  <2>1. v.phase = "running" /\ v \in Job /\ Good(v)
    BY <1>1, <1>2, GoingJob DEF Running
  <2>2. /\ w \in Job /\ w.slot = v.slot /\ w.phase = v.phase /\ w.next = v.next /\ w.inTx = v.inTx
        /\ w.open = v.open /\ w.pending = v.pending /\ w.kept = v.kept /\ w.ran = v.ran
        /\ w.failed = v.failed /\ w.committed = v.committed /\ w.unseen = v.unseen
        /\ w.written = v.written
    BY <2>1 DEF Job
  <2>3. Set(j, w) /\ slot' = slot /\ open' = open /\ crossed' = crossed /\ cancels' \subseteq cancels
    BY <1>2 DEF CancelArrives
  <2> HIDE DEF w
  <2>4. Good(w)
    BY <2>1, <2>2 DEF Good, Restores, Writes
  <2> QED
    BY <1>1, <2>1, <2>2, <2>3, <2>4, SetStep
<1>3. CASE ~Running(j)
  <2>1. job' = job /\ slot' = slot /\ open' = open /\ crossed' = crossed /\ cancels' \subseteq cancels
    BY <1>3 DEF CancelArrives
  <2> QED
    BY <2>1 DEF JobsInv, SlotType, JobInv, Good, CrossedInv, Going, SlotKeepsItsRun, GoingIn
<1> QED
  BY <1>2, <1>3

(* A statement ran, or failed. *)
LEMMA RunStatementStep == ASSUME JobsInv, NEW j \in DOMAIN job, RunStatement(j) PROVE JobsInv'
<1> DEFINE v == job[j]
           kind == v.file[v.next]
           ran == [RecordRun(v, kind) EXCEPT !.next = @ + 1]
<1>1. v.phase = "running" /\ v.slot # "backup" /\ v.next <= Len(v.file)
  BY DEF RunStatement, Running, IsBackup
<1>2. v \in Job /\ Good(v)
  BY <1>1, GoingJob
<1>3. kind \in Kinds
  <2>1. v.file \in Seq(Kinds)
    BY <1>2, JobFields DEF Files
  <2>2. v.next \in Nat /\ v.next >= 1
    BY <1>1, <1>2, JobFields DEF Good, Restores
  <2> QED
    BY <1>1, <2>1, <2>2
<1> HIDE DEF kind
<1>4. CASE Set(j, ran)
  <2>1. ran \in Job /\ Good(ran) /\ ran.slot = v.slot
    BY <1>1, <1>2, <1>3, RanGood
  <2> HIDE DEF ran
  <2> QED
    BY <1>1, <1>4, <2>1, SetStep DEF RunStatement
<1>5. ASSUME NEW commits \in BOOLEAN, Set(j, [RecordFailed(v, commits) EXCEPT !.next = @ + 1])
      PROVE  JobsInv'
  <2> DEFINE w == [RecordFailed(v, commits) EXCEPT !.next = @ + 1]
  <2>1. w \in Job /\ Good(w) /\ w.slot = v.slot
    BY <1>1, <1>2, FailedGood
  <2>2. Set(j, w)
    BY <1>5
  <2> HIDE DEF w
  <2> QED
    BY <1>1, <2>1, <2>2, SetStep DEF RunStatement
<1>6. \/ Set(j, ran)
      \/ \E commits \in BOOLEAN : Set(j, [RecordFailed(v, commits) EXCEPT !.next = @ + 1])
  BY DEF RunStatement, kind
<1> QED
  BY <1>4, <1>5, <1>6

LEMMA ReadFailsStep == ASSUME JobsInv, NEW j \in DOMAIN job, ReadFails(j) PROVE JobsInv'
<1> DEFINE v == job[j]
           e == Errored([v EXCEPT !.pending = FALSE, !.open = FALSE])
<1>1. v.phase = "running" /\ Set(j, e)
  BY DEF ReadFails, Running
<1>2. v \in Job
  BY <1>1, GoingJob
<1>3. e \in Job /\ Good(e) /\ e.slot = v.slot
  BY <1>2 DEF Job, Errored, Ended, Good, BackupTrue, RestoreTrue
<1> HIDE DEF e
<1> QED
  BY <1>1, <1>3, SetStep DEF ReadFails

(* The end of a restore: COMMIT or ROLLBACK, and what is said. *)
LEMMA EndRestoreStep ==
  ASSUME JobsInv, NEW j \in DOMAIN job, NEW answered \in BOOLEAN, EndRestore(j, answered)
  PROVE  JobsInv'
<1> DEFINE v == job[j]
           rollBack == v.inTx /\ (v.flag \/ (v.failed /\ v.stop))
           commits  == v.inTx /\ ~rollBack
           partial  == partially_applied(v.flag \/ v.failed, v.ran, rollBack,
                                         rollBack /\ ~answered, v.committed)
           kept     == v.kept \/ (v.pending /\ commits /\ answered)
           unseen   == v.unseen \cup (IF commits /\ ~answered THEN {"uncommitted"} ELSE {})
           closed     == [v EXCEPT !.pending = FALSE, !.open = FALSE, !.kept = kept, !.unseen = unseen]
           said     == Says(v.flag, v.failed \/ (commits /\ ~answered), partial)
           w        == Ended(closed, said)
<1>1. v.phase = "running" /\ v.slot # "backup" /\ (Stopped(v) \/ v.next > Len(v.file))
  BY DEF EndRestore, Running, IsBackup
<1>2. v \in Job /\ Good(v)
  BY <1>1, GoingJob
<1>3. Restores(v)
  BY <1>1, <1>2 DEF Good
<1>4. Set(j, w) /\ slot' = slot /\ open' = open /\ crossed' = crossed /\ cancels' = cancels
  BY DEF EndRestore
<1>5. said \in {"complete", "partly changed", "as it was"}
  BY DEF Says
<1>6. kept \in BOOLEAN /\ unseen \in SUBSET Reasons
  BY <1>2, JobFields DEF Reasons
<1>7. said = "complete" => v.next > Len(v.file) /\ (v.file # <<>> => kept)
  <2> SUFFICES ASSUME said = "complete" PROVE v.next > Len(v.file) /\ (v.file # <<>> => kept)
    OBVIOUS
  <2>1. ~v.flag /\ ~v.failed /\ (commits => answered)
    BY DEF Says
  <2>2. v.next > Len(v.file)
    BY <1>1, <2>1 DEF Stopped
  <2>3. v.file # <<>> => v.next # 1
    <3>1. v.file \in Seq(Kinds)
      BY <1>2, JobFields DEF Files
    <3> QED
      BY <3>1, <2>2
  <2>4. v.pending => commits
    BY <1>3, <2>1 DEF Restores
  <2> QED
    BY <1>3, <2>1, <2>2, <2>3, <2>4 DEF Restores
<1>8. said = "as it was" /\ unseen = {} => ~kept
  <2> SUFFICES ASSUME said = "as it was", unseen = {} PROVE ~kept
    OBVIOUS
  <2>1. v.unseen = {} /\ ~(commits /\ ~answered)
    OBVIOUS
  <2>2. v.flag \/ v.failed
    BY <2>1 DEF Says
  <2>3. ~partial
    BY DEF Says
  <2>4. ~v.ran \/ (rollBack /\ ~v.committed)
    BY <2>2, <2>3 DEF partially_applied
  <2> QED
    BY <1>3, <2>1, <2>4 DEF Restores
<1> HIDE DEF said, kept, unseen
<1>9. closed \in Job /\ closed.slot = v.slot /\ closed.next = v.next /\ closed.file = v.file
      /\ closed.pending = FALSE /\ closed.kept = kept /\ closed.unseen = unseen
  BY <1>2, <1>6 DEF Job
<1> HIDE DEF closed
<1>10. /\ w \in Job /\ w.slot = v.slot /\ w.phase = "ended" /\ w.result = said /\ w.next = v.next
       /\ w.file = v.file /\ w.pending = FALSE /\ w.kept = kept /\ w.unseen = unseen
  BY <1>5, <1>9 DEF Ended, Job
<1> HIDE DEF w
<1>11. Good(w)
  BY <1>1, <1>7, <1>8, <1>10 DEF Good, RestoreTrue
<1> QED
  BY <1>1, <1>4, <1>10, <1>11, SetStep

(* A part of a backup. *)
LEMMA DumpStep == ASSUME JobsInv, NEW j \in DOMAIN job, Dump(j) PROVE JobsInv'
<1> DEFINE v == job[j]
           written == IF v.next = Parts THEN "whole" ELSE v.written
           wrote == [v EXCEPT !.next = v.next + 1, !.written = written]
           failed == [v EXCEPT !.failed = TRUE]
<1>1. v.phase = "running" /\ v.slot = "backup" /\ v.next <= Parts
  BY DEF Dump, Running, IsBackup
<1>2. v \in Job /\ Writes(v)
  BY <1>1, GoingJob DEF Good
<1>3. v.next \in Nat /\ v.written \in {"none", "part", "whole"}
  BY <1>2, JobFields
<1>4. v.next + 1 \in Nat /\ written \in {"none", "part", "whole"}
      /\ (v.next + 1 > Parts => written = "whole")
  BY <1>1, <1>3, DumpsAssumption
<1> HIDE DEF written
<1>5. wrote \in Job /\ Good(wrote) /\ wrote.slot = v.slot
  <2>1. /\ wrote \in Job /\ wrote.slot = v.slot /\ wrote.phase = v.phase
        /\ wrote.next = v.next + 1 /\ wrote.written = written
    BY <1>2, <1>4 DEF Job
  <2> HIDE DEF wrote
  <2> QED
    BY <1>1, <1>4, <2>1 DEF Good, Writes
<1>6. failed \in Job /\ Good(failed) /\ failed.slot = v.slot
  <2>1. /\ failed \in Job /\ failed.slot = v.slot /\ failed.phase = v.phase
        /\ failed.next = v.next /\ failed.written = v.written
    BY <1>2 DEF Job
  <2> HIDE DEF failed
  <2> QED
    BY <1>1, <1>2, <2>1 DEF Good, Writes
<1>7. Set(j, wrote) \/ Set(j, failed)
  BY DEF Dump, written
<1> HIDE DEF wrote, failed
<1> QED
  BY <1>1, <1>5, <1>6, <1>7, SetStep DEF Dump

(* The end of a backup: its file is kept or removed, and the summary says which. *)
LEMMA EndBackupStep == ASSUME JobsInv, NEW j \in DOMAIN job, EndBackup(j) PROVE JobsInv'
<1> DEFINE v == job[j]
           gone == [v EXCEPT !.written = "none"]
           part == [v EXCEPT !.written = "part"]
<1>1. v.phase = "running" /\ v.slot = "backup" /\ (v.flag \/ v.failed \/ v.next > Parts)
  BY DEF EndBackup, Running, IsBackup
<1>2. v \in Job /\ Writes(v)
  BY <1>1, GoingJob DEF Good
<1>3. gone \in Job /\ part \in Job /\ gone.slot = v.slot /\ part.slot = v.slot /\ gone.written = "none"
  BY <1>2 DEF Job
<1> HIDE DEF gone, part
<1>4. ASSUME NEW u \in {v, gone, part}, Set(j, Errored(u)) PROVE JobsInv'
  <2>1. Errored(u) \in Job /\ Good(Errored(u)) /\ Errored(u).slot = v.slot
    BY <1>2, <1>3, ErroredAsIs
  <2> QED
    BY <1>1, <1>4, <2>1, SetStep DEF EndBackup
<1>5. CASE Set(j, Ended(gone, "cancelled"))
  <2> DEFINE w == Ended(gone, "cancelled")
  <2>1. w \in Job /\ w.slot = v.slot /\ w.phase = "ended" /\ w.result = "cancelled" /\ w.written = "none"
    BY <1>3 DEF Ended, Job
  <2>2. Set(j, w)
    BY <1>5
  <2> HIDE DEF w
  <2>3. Good(w)
    BY <1>1, <2>1 DEF Good, BackupTrue
  <2> QED
    BY <1>1, <2>1, <2>2, <2>3, SetStep DEF EndBackup
<1>6. CASE ~v.failed /\ ~Cancelled(v) /\ Set(j, Ended(v, "complete"))
  <2> DEFINE w == Ended(v, "complete")
  <2>1. w \in Job /\ w.slot = v.slot /\ w.phase = "ended" /\ w.result = "complete" /\ w.written = v.written
    BY <1>2 DEF Ended, Job
  <2>2. Set(j, w) /\ v.written = "whole"
    BY <1>1, <1>2, <1>6 DEF Cancelled, Writes
  <2> HIDE DEF w
  <2>3. Good(w)
    BY <1>1, <2>1, <2>2 DEF Good, BackupTrue
  <2> QED
    BY <1>1, <2>1, <2>2, <2>3, SetStep DEF EndBackup
<1>7. \/ \E u \in {v, gone, part} : Set(j, Errored(u))
      \/ Set(j, Ended(gone, "cancelled"))
      \/ ~v.failed /\ ~Cancelled(v) /\ Set(j, Ended(v, "complete"))
  BY DEF EndBackup, gone, part
<1> QED
  BY <1>4, <1>5, <1>6, <1>7
-----------------------------------------------------------------------------
(* What the type of a slot says, field by field. *)
LEMMA SlotFields ==
  ASSUME JobsInv, NEW s \in Slots
  PROVE  /\ slot[s].id \in DOMAIN job \cup {Null} /\ slot[s].progress \in DOMAIN job \cup {Null}
         /\ slot[s].running \in BOOLEAN /\ slot[s].cancelling \in BOOLEAN /\ slot[s].told \in BOOLEAN
BY DEF JobsInv, SlotType

(* A step of the dialogs: no slot gets another id, or begins to run. *)
LEMMA WindowStep ==
  ASSUME JobsInv, job' = job, crossed' = crossed, open' \in Slots \cup {Null},
         cancels' \subseteq cancels \cup ({slot[s].id : s \in Slots} \ {Null}),
         slot' \in [Slots -> [id : DOMAIN job \cup {Null}, running : BOOLEAN, cancelling : BOOLEAN,
                              progress : DOMAIN job \cup {Null}, told : BOOLEAN]],
         \A s \in Slots : /\ slot'[s].id = slot[s].id
                          /\ slot'[s].running => slot[s].running
                          /\ slot'[s].progress \in {Null, slot[s].progress}
  PROVE  JobsInv'
<1>1. SlotType'
  BY SlotFields DEF JobsInv, SlotType
<1>2. JobInv'
  BY DEF JobsInv, JobInv, Good
<1>3. CrossedInv'
  BY DEF JobsInv, CrossedInv, Going
<1>4. Going' = Going /\ \A s \in Slots : GoingIn(s)' = GoingIn(s)
  BY DEF Going, GoingIn
<1>5. SlotKeepsItsRun'
  BY <1>4 DEF JobsInv, SlotKeepsItsRun
<1> QED
  BY <1>1, <1>2, <1>3, <1>5 DEF JobsInv

(* The dialogs change one slot, in this way. *)
LEMMA OneSlotStep ==
  ASSUME JobsInv, job' = job, crossed' = crossed, NEW d \in Slots, open' \in Slots \cup {Null},
         cancels' \subseteq cancels \cup ({slot[d].id} \ {Null}),
         NEW t, slot' = [slot EXCEPT ![d] = t],
         t \in [id : DOMAIN job \cup {Null}, running : BOOLEAN, cancelling : BOOLEAN,
                progress : DOMAIN job \cup {Null}, told : BOOLEAN],
         t.id = slot[d].id, t.running => slot[d].running, t.progress \in {Null, slot[d].progress}
  PROVE  JobsInv'
<1>1. slot \in [Slots -> [id : DOMAIN job \cup {Null}, running : BOOLEAN, cancelling : BOOLEAN,
                          progress : DOMAIN job \cup {Null}, told : BOOLEAN]]
  BY DEF JobsInv, SlotType
<1>2. slot'[d] = t /\ \A s \in Slots : s # d => slot'[s] = slot[s]
  BY <1>1
<1>3. slot' \in [Slots -> [id : DOMAIN job \cup {Null}, running : BOOLEAN, cancelling : BOOLEAN,
                           progress : DOMAIN job \cup {Null}, told : BOOLEAN]]
  BY <1>1
<1> QED
  BY <1>2, <1>3, WindowStep

(* A reset is such a change, and so is a cancel. *)
LEMMA ResetSlot ==
  ASSUME JobsInv, NEW d \in Slots
  PROVE  /\ Reset(slot[d]) \in [id : DOMAIN job \cup {Null}, running : BOOLEAN, cancelling : BOOLEAN,
                                progress : DOMAIN job \cup {Null}, told : BOOLEAN]
         /\ Reset(slot[d]).id = slot[d].id /\ ~Reset(slot[d]).running /\ Reset(slot[d]).progress = Null
BY SlotFields DEF Reset, Idle

LEMMA CancellingSlot ==
  ASSUME JobsInv, NEW d \in Slots
  PROVE  /\ Cancelling(slot[d]) \in [id : DOMAIN job \cup {Null}, running : BOOLEAN, cancelling : BOOLEAN,
                                     progress : DOMAIN job \cup {Null}, told : BOOLEAN]
         /\ Cancelling(slot[d]).id = slot[d].id /\ Cancelling(slot[d]).running = slot[d].running
         /\ Cancelling(slot[d]).progress = slot[d].progress
<1>1. slot[d] \in [id : DOMAIN job \cup {Null}, running : BOOLEAN, cancelling : BOOLEAN,
                                     progress : DOMAIN job \cup {Null}, told : BOOLEAN]
  BY DEF JobsInv, SlotType
<1>2. Cancelling(slot[d]) = [slot[d] EXCEPT !.cancelling = Cancelling(slot[d]).cancelling]
  BY <1>1 DEF Cancelling
<1>3. Cancelling(slot[d]).cancelling \in BOOLEAN
  BY <1>1 DEF Cancelling
<1> HIDE DEF Cancelling
<1> QED
  BY <1>1, <1>2, <1>3

(* Every step of the dialogs but a run. *)
LEMMA DialogSteps ==
  ASSUME JobsInv,
         \/ \E d \in Slots : OpenDialog(d)
         \/ SelectConnection \/ CloseDialog \/ PickAnother \/ PressCancel \/ CloseAndStop
  PROVE  JobsInv'
<1> USE DEF JobsInv, SlotType
<1>1. ASSUME NEW d \in Slots, OpenDialog(d) PROVE JobsInv'
  <2>1. CASE d = "import"
    <3>1. slot' = slot /\ job' = job /\ crossed' = crossed /\ cancels' = cancels /\ open' = d
      BY <1>1, <2>1 DEF OpenDialog
    <3> QED
      BY <3>1, WindowStep
  <2>2. CASE d # "import"
    BY <1>1, <2>2, OneSlotStep, ResetSlot DEF OpenDialog
  <2> QED
    BY <2>1, <2>2
<1>2. ASSUME SelectConnection PROVE JobsInv'
  <2>1. "backup" \in Slots
    BY <1>2, DumpsAssumption DEF SelectConnection
  <2> QED
    BY <1>2, <2>1, OneSlotStep, ResetSlot DEF SelectConnection
<1>3. ASSUME CloseDialog PROVE JobsInv'
  <2>1. CASE open = "import"
    BY <1>3, <2>1, OneSlotStep, ResetSlot DEF CloseDialog
  <2>2. CASE open # "import"
    <3>1. slot' = slot /\ job' = job /\ crossed' = crossed /\ cancels' = cancels /\ open' = Null
      BY <1>3, <2>2 DEF CloseDialog
    <3> QED
      BY <3>1, WindowStep
  <2> QED
    BY <2>1, <2>2
<1>4. ASSUME PickAnother PROVE JobsInv'
  <2>1. open \in Slots
    BY <1>4, DumpsAssumption DEF PickAnother
  <2>2. CASE open = "import"
    BY <1>4, <2>1, <2>2, OneSlotStep, ResetSlot DEF PickAnother
  <2>3. CASE open # "import"
    <3> DEFINE t == [slot[open] EXCEPT !.told = FALSE]
    <3>1. slot' = [slot EXCEPT ![open] = t]
      BY <1>4, <2>1, <2>3 DEF PickAnother
    <3>2. /\ t \in [id : DOMAIN job \cup {Null}, running : BOOLEAN, cancelling : BOOLEAN,
                    progress : DOMAIN job \cup {Null}, told : BOOLEAN]
          /\ t.id = slot[open].id /\ t.running = slot[open].running /\ t.progress = slot[open].progress
      <4>1. slot[open] \in [id : DOMAIN job \cup {Null}, running : BOOLEAN, cancelling : BOOLEAN,
                            progress : DOMAIN job \cup {Null}, told : BOOLEAN]
        BY <2>1
      <4> QED
        BY <4>1
    <3> HIDE DEF t
    <3> QED
      BY <1>4, <2>1, <3>1, <3>2, OneSlotStep DEF PickAnother
  <2> QED
    BY <2>2, <2>3
<1>5. ASSUME PressCancel \/ CloseAndStop PROVE JobsInv'
  <2>1. open \in Slots /\ open' \in Slots \cup {Null}
    BY <1>5, DumpsAssumption DEF PressCancel, CloseAndStop
  <2>2. /\ slot' = [slot EXCEPT ![open] = Cancelling(slot[open])]
        /\ cancels' = cancels \cup ({slot[open].id} \ {Null}) /\ job' = job /\ crossed' = crossed
    BY <1>5, <2>1 DEF PressCancel, CloseAndStop, SendCancel
  <2> QED
    BY <2>1, <2>2, OneSlotStep, CancellingSlot
<1> QED
  BY <1>1, <1>2, <1>3, <1>4, <1>5
-----------------------------------------------------------------------------
(* A progress event reaches its own run's slot. *)
LEMMA ProgressStep == ASSUME JobsInv, NEW j \in DOMAIN job, Progress(j) PROVE JobsInv'
<1> DEFINE d == job[j].slot
<1>1. j \in Going /\ d \in Slots /\ job[j].phase = "running"
  BY DEF Progress, Running, Going, JobsInv, SlotType
<1>2. job' = job /\ crossed' = crossed /\ open' = open /\ cancels' = cancels
  BY DEF Progress
<1>3. \A s \in Slots : slot'[s] = IF s = d THEN [slot[s] EXCEPT !.progress = j] ELSE slot[s]
  BY <1>1 DEF Progress, Concerns
<1>4. slot' \in [Slots -> [id : DOMAIN job \cup {Null}, running : BOOLEAN, cancelling : BOOLEAN,
                           progress : DOMAIN job \cup {Null}, told : BOOLEAN]]
  <2>1. slot' = [s \in Slots |-> slot'[s]]
    BY DEF Progress
  <2>2. ASSUME NEW s \in Slots
        PROVE  slot'[s] \in [id : DOMAIN job \cup {Null}, running : BOOLEAN, cancelling : BOOLEAN,
                             progress : DOMAIN job \cup {Null}, told : BOOLEAN]
    <3>1. slot[s] \in [id : DOMAIN job \cup {Null}, running : BOOLEAN, cancelling : BOOLEAN,
                       progress : DOMAIN job \cup {Null}, told : BOOLEAN]
      BY DEF JobsInv, SlotType
    <3>2. CASE s = d
      <4>1. slot'[s] = [slot[s] EXCEPT !.progress = j]
        BY <1>3, <3>2
      <4> QED
        BY <3>1, <4>1
    <3>3. CASE s # d
      BY <1>3, <3>1, <3>3
    <3> QED
      BY <3>2, <3>3
  <2> QED
    BY <2>1, <2>2
<1>5. \A s \in Slots : /\ slot'[s].id = slot[s].id /\ slot'[s].running = slot[s].running
                       /\ slot'[s].progress = IF s = d THEN j ELSE slot[s].progress
  BY <1>3 DEF JobsInv, SlotType
<1>6. SlotType'
  BY <1>2, <1>4 DEF JobsInv, SlotType
<1>7. JobInv' /\ CrossedInv'
  BY <1>2 DEF JobsInv, JobInv, Good, CrossedInv, Going
<1>8. Going' = Going /\ \A s \in Slots : GoingIn(s)' = GoingIn(s)
  BY <1>2 DEF Going, GoingIn
<1>9. j \notin crossed => slot[d].id = j
  BY <1>1 DEF JobsInv, SlotKeepsItsRun, GoingIn
<1>10. SlotKeepsItsRun'
  <2> SUFFICES ASSUME NEW s \in Slots
               PROVE  /\ \A k \in GoingIn(s) \ crossed : slot'[s].id = k
                      /\ slot'[s].running => GoingIn(s) # {}
                      /\ slot'[s].progress # Null /\ slot'[s].progress \notin crossed
                           => /\ job[slot'[s].progress].slot = s
                              /\ slot'[s].id \in {Null, slot'[s].progress} \cup crossed
    BY <1>2, <1>8 DEF SlotKeepsItsRun
  <2> QED
    BY <1>5, <1>9 DEF JobsInv, SlotKeepsItsRun
<1> QED
  BY <1>6, <1>7, <1>10 DEF JobsInv

(* An answer leaves the slot to itself. *)
LEMMA AnswerStep == ASSUME JobsInv, NEW j \in DOMAIN job, Answer(j) PROVE JobsInv'
<1> DEFINE d == job[j].slot
<1>1. j \in Going /\ d \in Slots
  BY DEF Answer, Going, JobsInv, SlotType
<1>2. /\ job' = [job EXCEPT ![j] = [slot |-> d, phase |-> "done"]]
      /\ crossed' = crossed /\ open' = open /\ cancels' = cancels \ {j}
      /\ slot' = [slot EXCEPT ![d] = [slot[d] EXCEPT !.id = Null, !.running = FALSE,
                                                     !.cancelling = FALSE, !.told = TRUE]]
  BY <1>1 DEF Answer, Set, JobsInv, SlotType
<1>3. /\ DOMAIN job' = DOMAIN job /\ job'[j].slot = d /\ job'[j].phase = "done"
      /\ \A k \in DOMAIN job : k # j => job'[k] = job[k]
  BY <1>2
<1>4. \A k \in DOMAIN job : job'[k].slot = job[k].slot
  BY <1>3
<1>5. Going' = Going \ {j}
  BY <1>3 DEF Going
<1>6. slot' \in [Slots -> [id : DOMAIN job \cup {Null}, running : BOOLEAN, cancelling : BOOLEAN,
                           progress : DOMAIN job \cup {Null}, told : BOOLEAN]]
  BY <1>1, <1>2 DEF JobsInv, SlotType
<1>7. /\ slot'[d].id = Null /\ ~slot'[d].running /\ slot'[d].progress = slot[d].progress
      /\ \A s \in Slots : s # d => slot'[s] = slot[s]
  BY <1>1, <1>2 DEF JobsInv, SlotType
<1>8. SlotType'
  BY <1>2, <1>3, <1>4, <1>6 DEF JobsInv, SlotType
<1>9. JobInv'
  BY <1>3 DEF JobsInv, JobInv, Good
<1>10. CrossedInv'
  BY <1>2, <1>4, <1>5 DEF JobsInv, CrossedInv, Going
<1>11. \A s \in Slots : GoingIn(s)' = GoingIn(s) \ {j} /\ (s # d => j \notin GoingIn(s))
  BY <1>4, <1>5 DEF GoingIn, Going
<1>12. GoingIn(d) \ {j} \subseteq crossed
  BY <1>1 DEF JobsInv, CrossedInv, GoingIn
<1>13. SlotKeepsItsRun'
  <2> SUFFICES ASSUME NEW s \in Slots
               PROVE  /\ \A k \in (GoingIn(s) \ {j}) \ crossed : slot'[s].id = k
                      /\ slot'[s].running => GoingIn(s) \ {j} # {}
                      /\ slot'[s].progress # Null /\ slot'[s].progress \notin crossed
                           => /\ job'[slot'[s].progress].slot = s
                              /\ slot'[s].id \in {Null, slot'[s].progress} \cup crossed
    BY <1>2, <1>11 DEF SlotKeepsItsRun
  <2>1. slot[s].progress \in DOMAIN job \cup {Null}
    BY SlotFields
  <2>2. CASE s = d
    BY <2>1, <2>2, <1>4, <1>7, <1>12 DEF JobsInv, SlotKeepsItsRun
  <2>3. CASE s # d
    BY <2>1, <2>3, <1>4, <1>7, <1>11 DEF JobsInv, SlotKeepsItsRun
  <2> QED
    BY <2>2, <2>3
<1> QED
  BY <1>8, <1>9, <1>10, <1>13 DEF JobsInv

(* A new run has the slot, and crosses those that still go on in it. *)
LEMMA StartStep ==
  ASSUME JobsInv, NEW j \in Range(Jobs) \ DOMAIN job, NEW file \in Files,
         NEW o \in [stop : BOOLEAN, wrap : BOOLEAN], Start(j, file, o)
  PROVE  JobsInv'
<1> DEFINE d == open
           w == NewJob(d, file, o)
<1>1. d \in Slots /\ j # Null
  BY DumpsAssumption DEF Start, JobsInv, SlotType
<1>2. w \in Job /\ Good(w)
  BY <1>1, NewJobGood
<1>3. w.slot = d /\ w.phase = "starting"
  BY DEF NewJob
<1> HIDE DEF w
<1>4. /\ job' = [i \in DOMAIN job \cup {j} |-> IF i = j THEN w ELSE job[i]]
      /\ slot' = [slot EXCEPT ![d] = [Idle EXCEPT !.id = j, !.running = TRUE]]
      /\ crossed' = IF GoingIn(d) = {} THEN crossed ELSE crossed \cup GoingIn(d) \cup {j}
      /\ open' = d /\ cancels' = cancels
  BY DEF Start, w
<1>5. /\ DOMAIN job' = DOMAIN job \cup {j} /\ job'[j] = w
      /\ \A k \in DOMAIN job : job'[k] = job[k]
  BY <1>4
<1>6. /\ slot'[d] = [id |-> j, running |-> TRUE, cancelling |-> FALSE, progress |-> Null, told |-> FALSE]
      /\ \A s \in Slots : s # d => slot'[s] = slot[s]
  BY <1>1, <1>4 DEF JobsInv, SlotType, Idle
<1>7. Going' = Going \cup {j}
  BY <1>3, <1>5 DEF Going
<1>8. \A s \in Slots : GoingIn(s)' = GoingIn(s) \cup (IF s = d THEN {j} ELSE {})
  BY <1>3, <1>5, <1>7 DEF GoingIn, Going
<1>9. GoingIn(d) \subseteq DOMAIN job /\ crossed \subseteq crossed'
  BY <1>4 DEF GoingIn, Going
<1>10. slot' \in [Slots -> [id : DOMAIN job' \cup {Null}, running : BOOLEAN, cancelling : BOOLEAN,
                            progress : DOMAIN job' \cup {Null}, told : BOOLEAN]]
  <2>1. slot' = [s \in Slots |-> slot'[s]]
    BY <1>4 DEF JobsInv, SlotType
  <2>2. \A s \in Slots : slot'[s] \in [id : DOMAIN job' \cup {Null}, running : BOOLEAN,
                           cancelling : BOOLEAN, progress : DOMAIN job' \cup {Null}, told : BOOLEAN]
    <3> SUFFICES ASSUME NEW s \in Slots
                 PROVE  slot'[s] \in [id : DOMAIN job' \cup {Null}, running : BOOLEAN,
                           cancelling : BOOLEAN, progress : DOMAIN job' \cup {Null}, told : BOOLEAN]
      OBVIOUS
    <3>1. CASE s = d
      BY <3>1, <1>5, <1>6
    <3>2. CASE s # d
      <4>1. slot[s] \in [id : DOMAIN job \cup {Null}, running : BOOLEAN, cancelling : BOOLEAN,
                         progress : DOMAIN job \cup {Null}, told : BOOLEAN]
        BY DEF JobsInv, SlotType
      <4> QED
        BY <4>1, <3>2, <1>5, <1>6
    <3> QED
      BY <3>1, <3>2
  <2> QED
    BY <2>1, <2>2
<1>11. SlotType'
  BY <1>1, <1>3, <1>4, <1>5, <1>9, <1>10 DEF JobsInv, SlotType
<1>12. JobInv'
  BY <1>2, <1>5 DEF JobsInv, JobInv, Good
<1>13. CrossedInv'
  <2> SUFFICES ASSUME NEW i \in Going \cup {j}, NEW k \in Going \cup {j},
                      i # k, job'[i].slot = job'[k].slot
               PROVE  {i, k} \subseteq crossed'
    BY <1>7 DEF CrossedInv
  <2>1. CASE i # j /\ k # j
    BY <2>1, <1>5, <1>9 DEF JobsInv, CrossedInv, Going
  <2>2. CASE i = j \/ k = j
    <3>1. {i, k} \subseteq GoingIn(d) \cup {j} /\ GoingIn(d) # {}
      BY <2>2, <1>3, <1>5 DEF GoingIn, Going
    <3> QED
      BY <3>1, <1>4
  <2> QED
    BY <2>1, <2>2
<1>14. SlotKeepsItsRun'
  <2> SUFFICES ASSUME NEW s \in Slots
               PROVE  /\ \A k \in GoingIn(s)' \ crossed' : slot'[s].id = k
                      /\ slot'[s].running => GoingIn(s)' # {}
                      /\ slot'[s].progress # Null /\ slot'[s].progress \notin crossed'
                           => /\ job'[slot'[s].progress].slot = s
                              /\ slot'[s].id \in {Null, slot'[s].progress} \cup crossed'
    BY DEF SlotKeepsItsRun
  <2>1. CASE s = d
    <3>1. GoingIn(s)' = GoingIn(d) \cup {j} /\ slot'[s].id = j /\ slot'[s].progress = Null
      BY <2>1, <1>6, <1>8
    <3>2. GoingIn(d) \subseteq crossed'
      BY <1>4
    <3> QED
      BY <3>1, <3>2
  <2>2. CASE s # d
    <3>1. GoingIn(s)' = GoingIn(s) /\ slot'[s] = slot[s]
      BY <2>2, <1>6, <1>8
    <3>2. slot[s].progress \in DOMAIN job \cup {Null}
      BY SlotFields
    <3> QED
      BY <3>1, <3>2, <1>5, <1>9 DEF JobsInv, SlotKeepsItsRun
  <2> QED
    BY <2>1, <2>2
<1> QED
  BY <1>11, <1>12, <1>13, <1>14 DEF JobsInv

LEMMA JobsRunStep == ASSUME JobsInv, Run PROVE JobsInv'
<1> PICK n \in DOMAIN Jobs :
      /\ Jobs[n] \notin DOMAIN job
      /\ IF open = "backup" THEN Start(Jobs[n], <<>>, [stop |-> TRUE, wrap |-> FALSE])
         ELSE \E file \in Dumps[Jobs[n]], o \in Options[Jobs[n]] :
                (open = "import" => o.wrap) /\ Start(Jobs[n], file, o)
  BY DEF Run
<1> DEFINE j == Jobs[n]
<1>1. j \in Range(Jobs) \ DOMAIN job
  BY DEF Range
<1>2. <<>> \in Files
  BY DEF Files
<1>3. Dumps[j] \subseteq Files /\ Options[j] \subseteq [stop : BOOLEAN, wrap : BOOLEAN]
  BY <1>1, DumpsAssumption DEF Files
<1> HIDE DEF j
<1>4. CASE Start(j, <<>>, [stop |-> TRUE, wrap |-> FALSE])
  BY <1>1, <1>2, <1>4, StartStep
<1>5. ASSUME NEW file \in Dumps[j], NEW o \in Options[j], Start(j, file, o) PROVE JobsInv'
  BY <1>1, <1>3, <1>5, StartStep
<1> QED
  BY <1>4, <1>5 DEF j
-----------------------------------------------------------------------------
LEMMA JobsInitial == JobsInit => JobsInv
<1> SUFFICES ASSUME JobsInit PROVE JobsInv
  OBVIOUS
<1>1. DOMAIN job = {}
  BY DEF JobsInit
<1>2. Going = {} /\ \A s \in Slots : GoingIn(s) = {}
  BY <1>1 DEF Going, GoingIn
<1>3. \A s \in Slots : slot[s] = Idle
  BY DEF JobsInit
<1>4. SlotType
  BY <1>1 DEF JobsInit, SlotType, Idle
<1>5. JobInv /\ CrossedInv
  BY <1>1, <1>2 DEF JobInv, CrossedInv
<1>6. SlotKeepsItsRun
  BY <1>2, <1>3 DEF SlotKeepsItsRun, Idle
<1> QED
  BY <1>4, <1>5, <1>6 DEF JobsInv

LEMMA NextStep == JobsInv /\ [JobsNext]_jobVars => JobsInv'
<1> SUFFICES ASSUME JobsInv, [JobsNext]_jobVars PROVE JobsInv'
  OBVIOUS
<1>1. CASE User
  BY <1>1, DialogSteps, JobsRunStep DEF User
<1>2. CASE Store
  BY <1>2, BeginStep, ProgressStep, AnswerStep, CancelArrivesStep DEF Store
<1>3. CASE Restoring
  BY <1>3, RunStatementStep, ReadFailsStep, EndRestoreStep DEF Restoring
<1>4. CASE BackingUp
  BY <1>4, DumpStep, EndBackupStep DEF BackingUp
<1>5. CASE UNCHANGED jobVars
  BY <1>5 DEF jobVars, JobsInv, SlotType, JobInv, Good, CrossedInv, Going, SlotKeepsItsRun, GoingIn
<1> QED
  BY <1>1, <1>2, <1>3, <1>4, <1>5 DEF JobsNext

LEMMA JobsInvariance == JobsSpec => []JobsInv
BY JobsInitial, NextStep, PTL DEF JobsSpec

(* A restore that says it is complete left the whole of its file, and one that
   says the database is as it was left nothing, whatever failed and whenever the
   cancel came, unless the server committed behind the runner's back. *)
THEOREM RestoresSayTrue == JobsSpec => []RestoreSaysTrue
<1>1. JobsInv => RestoreSaysTrue
  BY DEF JobsInv, JobInv, Good, RestoreTrue, RestoreSaysTrue, EndedJobs, IsBackup, Said
<1> QED
  BY <1>1, JobsInvariance, PTL

(* A file that is said to be a backup is whole, and a cancelled backup leaves none. *)
THEOREM BackupsSayTrue == JobsSpec => []BackupSaysTrue
<1>1. JobsInv => BackupSaysTrue
  BY DEF JobsInv, JobInv, Good, BackupTrue, BackupSaysTrue, EndedJobs, IsBackup, Said
<1> QED
  BY <1>1, JobsInvariance, PTL

(* A slot of the store speaks of its own run, and can cancel it, through every
   reset of its dialog. *)
THEOREM SlotsKeepTheirRuns == JobsSpec => []SlotKeepsItsRun
<1>1. JobsInv => SlotKeepsItsRun
  BY DEF JobsInv
<1> QED
  BY <1>1, JobsInvariance, PTL
===============================================================================
