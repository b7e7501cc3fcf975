--------------------------- MODULE QueryExecutor ---------------------------
(***************************************************************************)
(* Running statements on one live connection and stopping them: the lanes'  *)
(* pools, the batches on the server's threads, the in-flight table a cancel *)
(* reads, the KILL QUERY statements of cancels and of passed deadlines (all *)
(* sent through the shared lane), and a disconnect under all of it.         *)
(***************************************************************************)
EXTENDS Naturals

CONSTANTS
  Runs,          \* calls of execute_routed; each is made once
  Cancels,       \* calls of cancel; each is made once
  Routes,        \* the lanes: the shared one, a tab's session, an agent's
  Interactive,   \* the shared lane
  All,           \* CancelScope::All
  Threads,       \* the server threads of the lanes' connections
  lane,          \* [Threads -> the lane a connection belongs to]
  Bounded,       \* the profile sets a query timeout
  NoRun, NoThread, NoOne

ASSUME Lanes ==
  /\ Interactive \in Routes /\ All \notin Routes
  /\ lane \in [Threads -> Routes]
  /\ Bounded \in BOOLEAN

ASSUME Nobodies ==
  /\ NoRun \notin Runs /\ NoThread \notin Threads /\ NoOne \notin Runs \cup Cancels
  /\ Runs \cap Cancels = {}

VARIABLES
  route,      \* [Runs -> the lane the run draws from]
  pc,         \* [Runs -> where the run stands]
  held,       \* [Runs -> the thread whose connection its stream holds]
  ticket,     \* [Runs -> the thread it registered in the in-flight table]
  reply,      \* [Runs -> what the run returned]
  exec,       \* [Threads -> the run whose batch the server executes there]
  fate,       \* [Runs -> how the server's execution of it ended]
  by,         \* [Runs -> whose KILL cut it short: a cancel's or a run's]
  table,      \* in_flight: [Threads -> the run registered there]
  ck,         \* [Cancels -> where the cancel stands]
  scope,      \* [Cancels -> its CancelScope]
  left,       \* [Cancels -> the threads it still has to kill]
  answer,     \* [Cancels -> what it returned]
  asked,      \* [Cancels -> the runs under way in its scope when it was made]
  up          \* the connection: "up", "closing", "down"

run == <<route, pc, held, ticket, reply>>
server == <<exec, fate, by>>
cancel == <<ck, scope, left, answer, asked>>
vars == <<run, server, table, cancel, up>>

PCs == {"idle", "acquire", "sent", "running", "kill", "drain", "probe", "done"}
Scopes == Routes \cup {All}

(* Every variable has its type, and a run holds a connection of its own lane. *)
TypeOK ==
  /\ route \in [Runs -> Routes] /\ pc \in [Runs -> PCs]
  /\ held \in [Runs -> Threads \cup {NoThread}]
  /\ \A r \in Runs : held[r] # NoThread => lane[held[r]] = route[r]
  /\ ticket \in [Runs -> Threads \cup {NoThread}]
  /\ reply \in [Runs -> {"none", "ok", "error", "timeout"}]
  /\ exec \in [Threads -> Runs \cup {NoRun}]
  /\ fate \in [Runs -> {"none", "ran", "failed", "cut"}]
  /\ by \in [Runs -> Runs \cup Cancels \cup {NoOne}]
  /\ table \in [Threads -> Runs \cup {NoRun}]
  /\ ck \in [Cancels -> {"idle", "killing", "done"}]
  /\ scope \in [Cancels -> Scopes]
  /\ left \in [Cancels -> SUBSET Threads]
  /\ answer \in [Cancels -> {"none", "ok", "error"}]
  /\ asked \in [Cancels -> SUBSET Runs]
  /\ up \in {"up", "closing", "down"}

Init ==
  /\ route \in [Runs -> Routes]
  /\ pc = [r \in Runs |-> "idle"]
  /\ held = [r \in Runs |-> NoThread] /\ ticket = [r \in Runs |-> NoThread]
  /\ reply = [r \in Runs |-> "none"]
  /\ exec = [t \in Threads |-> NoRun]
  /\ fate = [r \in Runs |-> "none"] /\ by = [r \in Runs |-> NoOne]
  /\ table = [t \in Threads |-> NoRun]
  /\ ck = [k \in Cancels |-> "idle"]
  /\ scope \in [Cancels -> Scopes]
  /\ left = [k \in Cancels |-> {}]
  /\ answer = [k \in Cancels |-> "none"]
  /\ asked = [k \in Cancels |-> {}]
  /\ up = "up"

-----------------------------------------------------------------------------
(* The pools and the server *)

(* A connection nobody holds, with nothing left running on it. *)
Free(t) == exec[t] = NoRun /\ \A r \in Runs : held[r] # t

Goto(r, l) == pc' = [pc EXCEPT ![r] = l]

(* The stream is dropped, and with it the connection returned. *)
Drop(r, answered) ==
  /\ held' = [held EXCEPT ![r] = NoThread]
  /\ reply' = [reply EXCEPT ![r] = answered]
  /\ Goto(r, "probe")

(* kill_query is a short statement on a connection of the shared lane: one that
   stays full until the acquire timeout, or is closed, sends nothing. *)
CanKill == up = "up" /\ \E t \in Threads : lane[t] = Interactive /\ Free(t)

(* KILL QUERY ends whatever the thread executes when it arrives. *)
Kill(t, who) ==
  IF exec[t] = NoRun
  THEN UNCHANGED server
  ELSE /\ exec' = [exec EXCEPT ![t] = NoRun]
       /\ fate' = [fate EXCEPT ![exec[t]] = "cut"]
       /\ by' = [by EXCEPT ![exec[t]] = who]

ServerEnds(t) ==
  /\ exec[t] # NoRun
  /\ exec' = [exec EXCEPT ![t] = NoRun]
  /\ \E f \in {"ran", "failed"} : fate' = [fate EXCEPT ![exec[t]] = f]
  /\ UNCHANGED <<run, by, table, cancel, up>>

-----------------------------------------------------------------------------
(* A run *)

(* execute_routed up to the stream: an empty batch, a missing connection or
   the read-only check may end it here. *)
Execute(r) ==
  /\ pc[r] = "idle"
  /\ \/ up = "up" /\ Goto(r, "acquire") /\ UNCHANGED reply
     \/ up = "up" /\ Goto(r, "done") /\ reply' = [reply EXCEPT ![r] = "ok"]
     \/ Goto(r, "done") /\ reply' = [reply EXCEPT ![r] = "error"]
  /\ UNCHANGED <<route, held, ticket, server, table, cancel, up>>

(* The pool hands out a connection and the whole batch is sent on it. *)
TakeConnection(r) ==
  /\ up = "up"
  /\ \E t \in Threads :
       /\ lane[t] = route[r] /\ Free(t)
       /\ held' = [held EXCEPT ![r] = t]
       /\ exec' = [exec EXCEPT ![t] = r]
  /\ UNCHANGED <<route, ticket, reply, fate, by, table, cancel, up>>

Acquire(r) == pc[r] = "acquire" /\ Goto(r, "sent") /\ TakeConnection(r)

(* The acquire timeout, a closed pool, a server that is gone. *)
NoConnection(r) ==
  /\ pc[r] = "acquire"
  /\ Goto(r, "done")
  /\ reply' = [reply EXCEPT ![r] = "error"]
  /\ UNCHANGED <<route, held, ticket, server, table, cancel, up>>

(* The row of SELECT CONNECTION_ID() arrives: the thread is registered. *)
Register(r) ==
  /\ pc[r] = "sent"
  /\ Goto(r, "running")
  /\ ticket' = [ticket EXCEPT ![r] = held[r]]
  /\ table' = [table EXCEPT ![held[r]] = r]
  /\ UNCHANGED <<route, held, reply, server, cancel, up>>

(* The stream ends, or fails, a failure possibly before its first row. *)
StreamEnds(r) ==
  /\ \/ pc[r] = "running" /\ fate[r] # "none"
     \/ pc[r] = "sent" /\ fate[r] \in {"failed", "cut"}
  /\ Drop(r, IF fate[r] = "ran" THEN "ok" ELSE "error")
  /\ UNCHANGED <<route, ticket, server, table, cancel, up>>

(* The memory guard stops the reading, not the statement. *)
MemoryStops(r) ==
  /\ pc[r] = "running"
  /\ Drop(r, "ok")
  /\ UNCHANGED <<route, ticket, server, table, cancel, up>>

(* Mutant: the connection is given back first and the KILL sent after. *)
DeadlineDropsFirst(r) ==
  /\ Bounded
  /\ pc[r] \in {"acquire", "sent", "running"}
  /\ Goto(r, IF pc[r] = "running" THEN "kill" ELSE "drain")
  /\ held' = [held EXCEPT ![r] = NoThread]
  /\ UNCHANGED <<route, ticket, reply, server, table, cancel, up>>

(* The deadline passes, which runs from before the wait for a connection.
   Only a registered run knows its thread. *)
Deadline(r) ==
  /\ Bounded
  /\ pc[r] \in {"acquire", "sent", "running"}
  /\ Goto(r, IF pc[r] = "running" THEN "kill" ELSE "drain")
  /\ UNCHANGED <<route, held, ticket, reply, server, table, cancel, up>>

(* The KILL of a passed deadline, sent while the stream is held. *)
KillOwn(r) ==
  /\ pc[r] = "kill"
  /\ Goto(r, "drain")
  /\ \/ CanKill /\ Kill(ticket[r], r)
     \/ UNCHANGED server
  /\ UNCHANGED <<route, held, ticket, reply, table, cancel, up>>

(* drain_after_kill reads on, so a run still waiting may get its connection. *)
DrainAcquires(r) ==
  pc[r] = "drain" /\ held[r] = NoThread /\ fate[r] = "none" /\ UNCHANGED pc /\ TakeConnection(r)

(* Mutant: the reading on is not bounded. *)
DrainEndsWithStream(r) ==
  /\ pc[r] = "drain" /\ fate[r] # "none"
  /\ Drop(r, "timeout")
  /\ UNCHANGED <<route, ticket, server, table, cancel, up>>

(* ... until the stream ends, or for DRAIN_AFTER_KILL. *)
DrainEnds(r) ==
  /\ pc[r] = "drain"
  /\ Drop(r, "timeout")
  /\ UNCHANGED <<route, ticket, server, table, cancel, up>>

(* Mutant: the entry is removed whoever registered it. *)
ReturnRemovesKey(r) ==
  /\ pc[r] = "probe"
  /\ Goto(r, "done")
  /\ ticket' = [ticket EXCEPT ![r] = NoThread]
  /\ table' = [t \in Threads |-> IF t = ticket[r] THEN NoRun ELSE table[t]]
  /\ UNCHANGED <<route, held, reply, server, cancel, up>>

(* The probe of a session's transaction (which may fail), the return, and the
   ticket's drop: it removes the entry only if it is still this run's. *)
Return(r) ==
  /\ pc[r] = "probe"
  /\ Goto(r, "done")
  /\ ticket' = [ticket EXCEPT ![r] = NoThread]
  /\ table' = [t \in Threads |-> IF table[t] = r THEN NoRun ELSE table[t]]
  /\ UNCHANGED <<route, held, reply, server, cancel, up>>

-----------------------------------------------------------------------------
(* A cancel *)

InScope(rt, s) == s = All \/ rt = s

(* Mutant: every thread of the connection is in scope. *)
threads_of_connection(s) == {t \in Threads : table[t] # NoRun}

(* threads_to_cancel: what the table says is running in the scope. *)
threads_to_cancel(s) == {t \in Threads : table[t] # NoRun /\ InScope(route[table[t]], s)}

(* Asked for, and not returned or still executing. *)
UnderWay(r) == pc[r] \notin {"idle", "done"} \/ \E t \in Threads : exec[t] = r

(* The table is read once; nothing in flight is nothing to do. *)
Cancel(k) ==
  /\ ck[k] = "idle"
  /\ asked' = [asked EXCEPT ![k] = {r \in Runs : UnderWay(r) /\ InScope(route[r], scope[k])}]
  /\ LET found == threads_to_cancel(scope[k]) IN
     \/ /\ found # {} /\ up = "up"
        /\ ck' = [ck EXCEPT ![k] = "killing"]
        /\ left' = [left EXCEPT ![k] = found]
        /\ UNCHANGED answer
     \/ /\ found = {} \/ up # "up"
        /\ ck' = [ck EXCEPT ![k] = "done"]
        /\ answer' = [answer EXCEPT ![k] = IF found = {} THEN "ok" ELSE "error"]
        /\ UNCHANGED left
  /\ UNCHANGED <<run, server, table, scope, up>>

(* One KILL after another, each waiting for a connection of the shared lane;
   one that failed makes the cancel fail, after the others were sent. *)
KillNext(k) ==
  /\ ck[k] = "killing"
  /\ \E t \in left[k] :
       /\ left' = [left EXCEPT ![k] = @ \ {t}]
       /\ ck' = [ck EXCEPT ![k] = IF left[k] = {t} THEN "done" ELSE @]
       /\ \/ CanKill /\ Kill(t, k) /\ answer' = [answer EXCEPT ![k] = IF @ = "none" THEN "ok" ELSE @]
          \/ UNCHANGED server /\ answer' = [answer EXCEPT ![k] = "error"]
  /\ UNCHANGED <<run, table, scope, asked, up>>

-----------------------------------------------------------------------------
(* disconnect: the connection is out of the manager at once, its pools take
   nobody new, and it waits for what they lent to come back, drained of what
   its statement still sends. *)
Disconnect ==
  /\ up = "up"
  /\ up' = "closing"
  /\ UNCHANGED <<run, server, table, cancel>>

PoolsClosed ==
  /\ up = "closing"
  /\ \A t \in Threads : Free(t)
  /\ up' = "down"
  /\ UNCHANGED <<run, server, table, cancel>>

RunStep(r) ==
  \/ Acquire(r) \/ NoConnection(r) \/ Register(r) \/ StreamEnds(r) \/ MemoryStops(r)
  \/ Deadline(r) \/ KillOwn(r) \/ DrainAcquires(r) \/ DrainEnds(r) \/ Return(r)

Next ==
  \/ \E r \in Runs : Execute(r) \/ RunStep(r)
  \/ \E t \in Threads : ServerEnds(t)
  \/ \E k \in Cancels : Cancel(k) \/ KillNext(k)
  \/ Disconnect \/ PoolsClosed

Spec == Init /\ [][Next]_vars

(* Timers fire and awaits are polled.  Nothing is assumed of the server: a
   statement may run for ever. *)
Fairness ==
  /\ WF_vars(PoolsClosed)
  /\ \A k \in Cancels : WF_vars(KillNext(k))
  /\ \A r \in Runs :
       /\ WF_vars(NoConnection(r)) /\ WF_vars(Deadline(r)) /\ WF_vars(KillOwn(r))
       /\ WF_vars(DrainEnds(r)) /\ WF_vars(Return(r))

FairSpec == Spec /\ Fairness

-----------------------------------------------------------------------------
(* Properties *)

(* A run that is being read and has a thread is in the table: no other run's
   end, on a connection they used one after the other, hides it from cancels. *)
RunningIsReachable ==
  \A r \in Runs, t \in Threads : held[r] = t /\ pc[r] \in {"running", "kill"} => table[t] = r

(* The table names no run that has returned, so a cancel never kills for one. *)
TableForgets == \A t \in Threads : table[t] # NoRun => pc[table[t]] # "done"

(* A cancel cuts short statements of its scope only, although the table was
   read before its KILLs arrive and connections change hands in between. *)
CancelStaysInScope ==
  \A r \in Runs : by[r] \in Cancels => InScope(route[r], scope[by[r]])

(* The KILL of a run that passed its deadline reaches no other run. *)
DeadlineKillsItsOwn == \A r \in Runs : by[r] \in Runs => by[r] = r

(* With a query timeout every run returns: whatever the server does, however
   full the lanes are, whether or not its KILL can be sent. *)
RunsReturn == Bounded => \A r \in Runs : pc[r] # "idle" ~> pc[r] = "done"

(* Executing, with nobody reading: a stream that was dropped early. *)
Abandoned(t) == exec[t] # NoRun /\ \A r \in Runs : held[r] # t

(* With a query timeout a disconnect waits for no run for ever, only for a
   statement whose run gave it up and whose KILL was not sent. *)
DisconnectReturns ==
  Bounded => (up = "closing" ~> up = "down" \/ \E t \in Threads : Abandoned(t))

=============================================================================
