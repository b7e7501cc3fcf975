---------------------------- MODULE StagedWrites ----------------------------
(***************************************************************************)
(* The calls run_write, run_ddl and estimate_impact an agent makes on one   *)
(* connection the user shares: the policy check, the transaction a write    *)
(* is staged in, the question put to the window, the dialog's queue, the    *)
(* user's answer, and the two deadlines (the staged write's and the         *)
(* question's), with the user meanwhile editing grants and profiles,        *)
(* disconnecting, or quitting the application.                              *)
(***************************************************************************)
EXTENDS Integers, Sequences

CONSTANTS
  Calls,             \* tool calls; each is made once
  NoCall,            \* no call: nothing read, nothing being sent
  NoPolicy,          \* no policy: not resolved yet, or decided already
  StageDeadline,     \* STAGE_DEADLINE, in ticks
  DecisionTimeout    \* DECISION_TIMEOUT, in ticks

(* The staged write's deadline is the shorter (workspace.rs, STAGE_DEADLINE). *)
ASSUME Deadlines ==
  /\ StageDeadline \in Nat \ {0}
  /\ DecisionTimeout \in Nat
  /\ StageDeadline < DecisionTimeout

ASSUME NoCallIsNoCall == NoCall \notin Calls

VARIABLES
  grant,        \* McpState's grant for the connection: [shared, ddl_unlocked]
  profile,      \* the saved profile: [read_only, production]
  conn,         \* the live connection: [up, read_only], copied at connect
  pc,           \* [Calls -> where the call stands]
  tool,         \* [Calls -> the tool called]
  policy,       \* [Calls -> the ConnectionPolicy it resolved, until it decides]
  verdict,      \* [Calls -> what approve() returned]
  reply,        \* [Calls -> what the agent was told]
  tx,           \* [Calls -> the change, as the server sees it]
  staged,       \* AppWorkspace.staged: writes waiting for an answer
  armed,        \* calls whose expiry task still sleeps
  expiring,     \* calls whose expiry task is rolling back
  age,          \* [Calls -> ticks since the write was staged or asked]
  pending,      \* WindowBridge.pending: requests waiting for an answer
  answer,       \* [Calls -> what went down the request's oneshot]
  emitted,      \* requests sent to the window and not yet handled there
  approvals,    \* agentStore.approvals, the dialog shows its head
  reading,      \* the request the user is reading in the dialog
  sending,      \* the answer the dialog is sending: [call, value]
  consent,      \* [Calls -> what the user decided having read that call]
  alive         \* the application is running

settings == <<grant, profile, conn>>
window == <<emitted, approvals, reading, sending, consent>>
bridge == <<pending, answer>>
register == <<staged, armed, expiring>>
call == <<pc, tool, policy, verdict, reply>>
vars == <<settings, call, tx, register, age, bridge, window, alive>>

Tools == {"run_write", "run_ddl", "estimate_impact"}
VerbClasses == {"Read", "Write", "Ddl", "Admin"}
Policies == [read_only : BOOLEAN, production : BOOLEAN, ddl_unlocked : BOOLEAN]
Answers == {"yes", "no"}
Replies == {"applied", "declined", "measured", "refused", "gone", "error"}
PCs == {"idle", "check", "stage", "running", "ask", "waiting", "commit",
        "committing", "undo", "undoing", "ddl", "ddl_running", "done"}
TxStates == {"none", "running", "open", "loose", "applied", "undone"}
NoSend == [call |-> NoCall, value |-> "no"]

CallsTypeOK ==
  /\ grant \in [shared : BOOLEAN, ddl_unlocked : BOOLEAN]
  /\ profile \in [read_only : BOOLEAN, production : BOOLEAN]
  /\ conn \in [up : BOOLEAN, read_only : BOOLEAN]
  /\ pc \in [Calls -> PCs]
  /\ tool \in [Calls -> Tools]
  /\ policy \in [Calls -> Policies \cup {NoPolicy}]
  /\ verdict \in [Calls -> Answers \cup {"none", "failed"}]
  /\ reply \in [Calls -> Replies \cup {"none"}]
  /\ tx \in [Calls -> TxStates]
  /\ staged \subseteq Calls /\ armed \subseteq Calls /\ expiring \subseteq Calls
  /\ alive \in BOOLEAN

ClockTypeOK == age \in [Calls -> 0 .. DecisionTimeout]

WindowTypeOK ==
  /\ pending \subseteq Calls /\ emitted \subseteq Calls
  /\ answer \in [Calls -> Answers \cup {"none"}]
  /\ approvals \in Seq(Calls)
  /\ reading \in Calls \cup {NoCall}
  /\ sending \in [call : Calls \cup {NoCall}, value : Answers]
  /\ consent \in [Calls -> Answers \cup {"none"}]

(* Every variable has its type. *)
TypeOK == CallsTypeOK /\ ClockTypeOK /\ WindowTypeOK

Init ==
  /\ grant = [shared |-> FALSE, ddl_unlocked |-> FALSE]
  /\ profile \in [read_only : BOOLEAN, production : BOOLEAN]
  /\ conn = [up |-> FALSE, read_only |-> FALSE]
  /\ pc = [c \in Calls |-> "idle"]
  /\ tool \in [Calls -> Tools]
  /\ policy = [c \in Calls |-> NoPolicy]
  /\ verdict = [c \in Calls |-> "none"]
  /\ reply = [c \in Calls |-> "none"]
  /\ tx = [c \in Calls |-> "none"]
  /\ staged = {} /\ armed = {} /\ expiring = {}
  /\ age = [c \in Calls |-> 0]
  /\ pending = {} /\ emitted = {}
  /\ answer = [c \in Calls |-> "none"]
  /\ approvals = <<>>
  /\ reading = NoCall
  /\ sending = NoSend
  /\ consent = [c \in Calls |-> "none"]
  /\ alive = TRUE

-----------------------------------------------------------------------------
(* The policy *)

(* ConnectionPolicy::decide: what to do about a statement of a class. *)
decide(p, class) ==
  CASE class = "Admin" -> "Refuse"
    [] class = "Read"  -> "Allow"
    [] class = "Write" -> IF p.read_only THEN "Refuse" ELSE "Ask"
    [] class = "Ddl"   -> IF p.read_only \/ (p.production /\ ~p.ddl_unlocked)
                          THEN "Refuse" ELSE "Ask"

ClassOf(t) == IF t = "run_ddl" THEN "Ddl" ELSE "Write"

(* run_write and run_ddl go on only if the answer is to ask, estimate_impact
   unless it is to refuse. *)
Admits(t, p) == IF t = "estimate_impact" THEN decide(p, ClassOf(t)) # "Refuse"
                                          ELSE decide(p, ClassOf(t)) = "Ask"

-----------------------------------------------------------------------------
(* A tool call *)

(* Nothing reads the policy once it has decided (Check). *)
Goto(c, l) ==
  /\ pc' = [pc EXCEPT ![c] = l]
  /\ policy' = [policy EXCEPT ![c] = NoPolicy]
  /\ UNCHANGED reply

Finish(c, r) ==
  /\ pc' = [pc EXCEPT ![c] = "done"]
  /\ policy' = [policy EXCEPT ![c] = NoPolicy]
  /\ reply' = [reply EXCEPT ![c] = r]

(* resolve, resolve_database: the saved profile and the grant, read once.  A
   database argument the grant does not cover is refused as well. *)
Resolve(c) ==
  /\ alive /\ pc[c] = "idle"
  /\ \/ /\ grant.shared
        /\ pc' = [pc EXCEPT ![c] = "check"]
        /\ policy' = [policy EXCEPT ![c] = [read_only |-> profile.read_only,
                                            production |-> profile.production,
                                            ddl_unlocked |-> grant.ddl_unlocked]]
        /\ UNCHANGED reply
     \/ Finish(c, "refused")
  /\ UNCHANGED <<settings, tool, verdict, tx, register, age, bridge, window, alive>>

(* within_grant, the statement's class, the policy's decision, the reason and
   the surface, in that order; any of them may refuse, the decision must admit. *)
Check(c) ==
  /\ alive /\ pc[c] = "check"
  /\ \/ \E class \in VerbClasses :
          /\ class = ClassOf(tool[c])
          /\ Admits(tool[c], policy[c])
          /\ Goto(c, IF class = "Ddl" THEN "ask" ELSE "stage")
     \/ Finish(c, "refused")
  /\ UNCHANGED <<settings, tool, verdict, tx, register, age, bridge, window, alive>>

(* AppWorkspace::stage_write and StagedWrite::begin_in up to the statement: a
   connection of the agent's own, taken out of its pool, with a transaction. *)
StageBegin(c) ==
  /\ alive /\ pc[c] = "stage"
  /\ \/ /\ conn.up
        /\ Goto(c, "running")
        /\ tx' = [tx EXCEPT ![c] = "running"]
     \/ Finish(c, "refused") /\ UNCHANGED tx
  /\ UNCHANGED <<settings, tool, verdict, register, age, bridge, window, alive>>

(* The statement ran: the open transaction is registered, its expiry task
   spawned.  estimate_impact has its number and undoes it at once. *)
StatementRan(c) ==
  /\ alive /\ pc[c] = "running"
  /\ tx' = [tx EXCEPT ![c] = "open"]
  /\ staged' = staged \cup {c}
  /\ armed' = armed \cup {c}
  /\ age' = [age EXCEPT ![c] = 0]
  /\ Goto(c, IF tool[c] = "estimate_impact" THEN "undo" ELSE "ask")
  /\ UNCHANGED <<settings, tool, verdict, expiring, bridge, window, alive>>

(* Mutant: the error is returned before the transaction is rolled back. *)
StatementFailedOpen(c) ==
  /\ alive /\ pc[c] = "running"
  /\ tx' = [tx EXCEPT ![c] = "open"]
  /\ Finish(c, "refused")
  /\ UNCHANGED <<settings, tool, verdict, register, age, bridge, window, alive>>

(* It failed, was cancelled or passed the query timeout: rolled back here. *)
StatementFailed(c) ==
  /\ alive /\ pc[c] = "running"
  /\ tx' = [tx EXCEPT ![c] = "undone"]
  /\ Finish(c, "refused")
  /\ UNCHANGED <<settings, tool, verdict, register, age, bridge, window, alive>>

(* Mutant: only a "no" undoes the write. *)
ConcludeUnlessNo(c, v) ==
  /\ verdict' = [verdict EXCEPT ![c] = v]
  /\ \/ tool[c] # "run_ddl" /\ Goto(c, IF v # "no" THEN "commit" ELSE "undo")
     \/ tool[c] = "run_ddl" /\ v # "no" /\ Goto(c, "ddl")
     \/ tool[c] = "run_ddl" /\ v = "no" /\ Finish(c, "declined")

(* What approve() returned decides where the call goes. *)
Conclude(c, v) ==
  /\ verdict' = [verdict EXCEPT ![c] = v]
  /\ \/ tool[c] # "run_ddl" /\ Goto(c, IF v = "yes" THEN "commit" ELSE "undo")
     \/ tool[c] = "run_ddl" /\ v = "yes" /\ Goto(c, "ddl")
     \/ tool[c] = "run_ddl" /\ v = "no" /\ Finish(c, "declined")
     \/ tool[c] = "run_ddl" /\ v = "failed" /\ Finish(c, "refused")

(* WindowBridge::ask: register the request, emit it; no window, or an emit
   that fails, ends the question there. *)
AskWindow(c) ==
  /\ alive /\ pc[c] = "ask"
  /\ \/ /\ pending' = pending \cup {c}
        /\ emitted' = emitted \cup {c}
        /\ age' = [age EXCEPT ![c] = 0]
        /\ Goto(c, "waiting")
        /\ UNCHANGED verdict
     \/ Conclude(c, "failed") /\ UNCHANGED <<pending, emitted, age>>
  /\ UNCHANGED <<settings, tool, tx, register, answer, approvals, reading,
                 sending, consent, alive>>

Receive(c) ==
  /\ alive /\ pc[c] = "waiting"
  /\ answer[c] # "none"
  /\ Conclude(c, answer[c])
  /\ UNCHANGED <<settings, tool, tx, register, age, bridge, window, alive>>

(* Mutant: the request is forgotten, the call goes on waiting. *)
DecisionTimesOutSilently(c) ==
  /\ alive /\ pc[c] = "waiting"
  /\ age[c] >= DecisionTimeout
  /\ pending' = pending \ {c}
  /\ UNCHANGED <<settings, call, tx, register, age, answer, window, alive>>

(* DECISION_TIMEOUT: the request is forgotten, so a late answer finds nothing;
   one that arrives as the timer fires may be lost. *)
DecisionTimesOut(c) ==
  /\ alive /\ pc[c] = "waiting"
  /\ age[c] >= DecisionTimeout
  /\ pending' = pending \ {c}
  /\ Conclude(c, "failed")
  /\ UNCHANGED <<settings, tool, tx, register, age, answer, window, alive>>

-----------------------------------------------------------------------------
(* Keeping or undoing a staged write *)

(* take_staged: whoever removes the entry owns the transaction from then on. *)
take_staged(c) == c \in staged /\ staged' = staged \ {c}

CommitWrite(c) ==
  /\ alive /\ pc[c] = "commit"
  /\ \/ take_staged(c) /\ Goto(c, "committing")
     \/ c \notin staged /\ Finish(c, "gone") /\ UNCHANGED staged
  /\ UNCHANGED <<settings, tool, verdict, tx, armed, expiring, age, bridge, window, alive>>

(* Mutant: an error of COMMIT is reported as success. *)
CommitEndsApplied(c) ==
  /\ alive /\ pc[c] = "committing"
  /\ \E outcome \in {"applied", "loose"} : tx' = [tx EXCEPT ![c] = outcome]
  /\ Finish(c, "applied")
  /\ UNCHANGED <<settings, tool, verdict, register, age, bridge, window, alive>>

(* COMMIT answered, or failed with its outcome unknown on this side. *)
CommitEnds(c) ==
  /\ alive /\ pc[c] = "committing"
  /\ \/ tx' = [tx EXCEPT ![c] = "applied"] /\ Finish(c, "applied")
     \/ tx' = [tx EXCEPT ![c] = "loose"] /\ Finish(c, "error")
  /\ UNCHANGED <<settings, tool, verdict, register, age, bridge, window, alive>>

(* What an undone call reports. *)
UndoneReply(c) == CASE tool[c] = "estimate_impact" -> "measured"
                    [] tool[c] # "estimate_impact" /\ verdict[c] = "no" -> "declined"
                    [] OTHER -> "refused"

(* SqlPilot::undo: a rollback that finds nothing to take is only logged. *)
UndoWrite(c) ==
  /\ alive /\ pc[c] = "undo"
  /\ \/ take_staged(c) /\ Goto(c, "undoing")
     \/ c \notin staged /\ Finish(c, UndoneReply(c)) /\ UNCHANGED staged
  /\ UNCHANGED <<settings, tool, verdict, tx, armed, expiring, age, bridge, window, alive>>

(* ROLLBACK, or an error that drops the connection: undone either way. *)
UndoEnds(c) ==
  /\ alive /\ pc[c] = "undoing"
  /\ tx' = [tx EXCEPT ![c] = "undone"]
  /\ Finish(c, UndoneReply(c))
  /\ UNCHANGED <<settings, tool, verdict, register, age, bridge, window, alive>>

(* Mutant: the entry is dropped from the register and nothing rolls it back. *)
ExpireForgets(c) ==
  /\ alive /\ c \in armed
  /\ age[c] >= StageDeadline
  /\ armed' = armed \ {c}
  /\ staged' = staged \ {c}
  /\ UNCHANGED <<settings, call, tx, expiring, age, bridge, window, alive>>

(* The task stage_write spawned wakes up, once. *)
Expire(c) ==
  /\ alive /\ c \in armed
  /\ age[c] >= StageDeadline
  /\ armed' = armed \ {c}
  /\ \/ take_staged(c) /\ expiring' = expiring \cup {c}
     \/ c \notin staged /\ UNCHANGED <<staged, expiring>>
  /\ UNCHANGED <<settings, call, tx, age, bridge, window, alive>>

ExpireEnds(c) ==
  /\ alive /\ c \in expiring
  /\ expiring' = expiring \ {c}
  /\ tx' = [tx EXCEPT ![c] = "undone"]
  /\ UNCHANGED <<settings, call, staged, armed, age, bridge, window, alive>>

(* An approved schema change: resolve the live connection, let the executor
   refuse a read-only one, then run it. *)
RunDdl(c) ==
  /\ alive /\ pc[c] = "ddl"
  /\ \/ conn.up /\ ~conn.read_only /\ Goto(c, "ddl_running")
     \/ Finish(c, "refused")
  /\ UNCHANGED <<settings, tool, verdict, tx, register, age, bridge, window, alive>>

(* Mutant: an error is reported as if nothing had run. *)
DdlEndsRefused(c) ==
  /\ alive /\ pc[c] = "ddl_running"
  /\ \/ tx' = [tx EXCEPT ![c] = "applied"] /\ Finish(c, "applied")
     \/ tx' = [tx EXCEPT ![c] = "loose"] /\ Finish(c, "refused")
  /\ UNCHANGED <<settings, tool, verdict, register, age, bridge, window, alive>>

(* An error says nothing of what the server did, or will still do. *)
DdlEnds(c) ==
  /\ alive /\ pc[c] = "ddl_running"
  /\ \/ tx' = [tx EXCEPT ![c] = "applied"] /\ Finish(c, "applied")
     \/ tx' = [tx EXCEPT ![c] = "loose"] /\ Finish(c, "error")
  /\ UNCHANGED <<settings, tool, verdict, register, age, bridge, window, alive>>

(* The server settles what the application lost track of. *)
ServerSettles(c) ==
  /\ tx[c] = "loose"
  /\ \E outcome \in {"applied", "undone"} : tx' = [tx EXCEPT ![c] = outcome]
  /\ UNCHANGED <<settings, call, register, age, bridge, window, alive>>

-----------------------------------------------------------------------------
(* The window *)

(* Mutant: the newest request is shown first. *)
ShowApprovalFirst(c) ==
  /\ alive /\ c \in emitted
  /\ emitted' = emitted \ {c}
  /\ approvals' = <<c>> \o approvals
  /\ UNCHANGED <<settings, call, tx, register, age, bridge, reading, sending,
                 consent, alive>>

(* showApproval: queued behind what is waiting, once. *)
ShowApproval(c) ==
  /\ alive /\ c \in emitted
  /\ emitted' = emitted \ {c}
  /\ approvals' = IF \E i \in DOMAIN approvals : approvals[i] = c
                  THEN approvals ELSE Append(approvals, c)
  /\ UNCHANGED <<settings, call, tx, register, age, bridge, reading, sending,
                 consent, alive>>

UserReads ==
  /\ alive /\ approvals # <<>> /\ reading = NoCall
  /\ reading' = Head(approvals)
  /\ UNCHANGED <<settings, call, tx, register, age, bridge, emitted, approvals,
                 sending, consent, alive>>

(* decide: the user makes up their mind about what they are reading, and the
   click answers the request the dialog is showing at that moment. *)
UserDecides(v) ==
  /\ alive /\ reading # NoCall /\ approvals # <<>> /\ sending = NoSend
  /\ consent' = [consent EXCEPT ![reading] = v]
  /\ sending' = [call |-> Head(approvals), value |-> v]
  /\ UNCHANGED <<settings, call, tx, register, age, bridge, emitted, approvals,
                 reading, alive>>

(* clearApproval: the queue without one request, which it holds at most once. *)
Without(queue, c) ==
  IF \E i \in DOMAIN queue : queue[i] = c
  THEN LET gone == CHOOSE i \in DOMAIN queue : queue[i] = c
       IN  [i \in 1 .. Len(queue) - 1 |-> queue[IF i < gone THEN i ELSE i + 1]]
  ELSE queue

(* WindowBridge::answer, then clearApproval: an id nobody waits for is
   ignored, and the dialog closes in any case. *)
AnswerArrives ==
  /\ alive /\ sending # NoSend
  /\ pending' = pending \ {sending.call}
  /\ answer' = IF sending.call \in pending
               THEN [answer EXCEPT ![sending.call] = sending.value] ELSE answer
  /\ approvals' = Without(approvals, sending.call)
  /\ reading' = NoCall
  /\ sending' = NoSend
  /\ UNCHANGED <<settings, call, tx, register, age, emitted, consent, alive>>

-----------------------------------------------------------------------------
(* The user's settings, the clock and the end of the application *)

(* Grants::set keeps an unlock the grant already has. *)
Share ==
  /\ grant' = [grant EXCEPT !.shared = TRUE]
  /\ UNCHANGED <<profile, conn>>

Revoke ==
  /\ grant' = [shared |-> FALSE, ddl_unlocked |-> FALSE]
  /\ UNCHANGED <<profile, conn>>

UnlockDdl ==
  /\ grant.shared
  /\ \E unlocked \in BOOLEAN : grant' = [grant EXCEPT !.ddl_unlocked = unlocked]
  /\ UNCHANGED <<profile, conn>>

EditProfile ==
  /\ profile' \in [read_only : BOOLEAN, production : BOOLEAN]
  /\ UNCHANGED <<grant, conn>>

(* ConnectionManager::connect copies the profile's flag; disconnect closes the
   connection's pools.  A staged write's connection is in none of them. *)
Connect ==
  /\ ~conn.up
  /\ conn' = [up |-> TRUE, read_only |-> profile.read_only]
  /\ UNCHANGED <<grant, profile>>

Disconnect ==
  /\ conn.up
  /\ conn' = [up |-> FALSE, read_only |-> FALSE]
  /\ UNCHANGED <<grant, profile>>

ChangeSettings ==
  /\ alive
  /\ Share \/ Revoke \/ UnlockDdl \/ EditProfile \/ Connect \/ Disconnect
  /\ UNCHANGED <<call, tx, register, age, bridge, window, alive>>

(* Time passes for the calls that wait.  A timer that is due fires before the
   next tick, and so does the question that follows a staged statement. *)
Tick ==
  /\ alive
  /\ \A c \in Calls :
       /\ pc[c] # "ask"
       /\ c \in armed => age[c] < StageDeadline
       /\ pc[c] = "waiting" => age[c] < DecisionTimeout
  /\ \E c \in Calls : pc[c] = "waiting" \/ c \in armed
  /\ age' = [c \in Calls |-> IF pc[c] = "waiting" \/ c \in armed
                             THEN age[c] + 1 ELSE age[c]]
  /\ UNCHANGED <<settings, call, tx, register, bridge, window, alive>>

(* The process ends: the server rolls back every transaction whose connection
   went with it, except that a COMMIT or a DDL already sent may still succeed. *)
Quit ==
  /\ alive
  /\ alive' = FALSE
  /\ tx' = [c \in Calls |->
              IF pc[c] \in {"committing", "ddl_running"} THEN "loose"
              ELSE IF tx[c] \in {"running", "open"} THEN "undone" ELSE tx[c]]
  /\ UNCHANGED <<settings, call, register, age, bridge, window>>

-----------------------------------------------------------------------------
CallStep(c) ==
  \/ Resolve(c) \/ Check(c) \/ StageBegin(c)
  \/ StatementRan(c) \/ StatementFailed(c)
  \/ AskWindow(c) \/ Receive(c) \/ DecisionTimesOut(c)
  \/ CommitWrite(c) \/ CommitEnds(c) \/ UndoWrite(c) \/ UndoEnds(c)
  \/ RunDdl(c) \/ DdlEnds(c)

Next ==
  \/ \E c \in Calls : CallStep(c)
  \/ \E c \in Calls : Expire(c) \/ ExpireEnds(c) \/ ServerSettles(c) \/ ShowApproval(c)
  \/ UserReads
  \/ \E v \in Answers : UserDecides(v)
  \/ AnswerArrives
  \/ ChangeSettings
  \/ Tick
  \/ Quit

Spec == Init /\ [][Next]_vars

(* Timers fire, answered awaits are polled, the server answers a COMMIT or a
   ROLLBACK.  Nothing is assumed of the user, nor of a statement's length. *)
Fairness ==
  /\ WF_vars(Tick)
  /\ \A c \in Calls :
       /\ WF_vars(Expire(c)) /\ WF_vars(ExpireEnds(c))
       /\ WF_vars(AskWindow(c)) /\ WF_vars(Receive(c)) /\ WF_vars(DecisionTimesOut(c))
       /\ WF_vars(CommitWrite(c)) /\ WF_vars(CommitEnds(c))
       /\ WF_vars(UndoWrite(c)) /\ WF_vars(UndoEnds(c))
       /\ WF_vars(RunDdl(c)) /\ WF_vars(DdlEnds(c))

FairSpec == Spec /\ Fairness
-----------------------------------------------------------------------------
(* Properties *)

(* A change an agent asked for is in the database only if the user, having
   read that very request, said yes; a measurement (estimate_impact) never is. *)
ConsentBeforeEffect ==
  \A c \in Calls : tx[c] = "applied" => /\ consent[c] = "yes"
                                       /\ tool[c] # "estimate_impact"

(* What the agent is told is what happened: "applied" only for a change in the
   database, and after "declined", "measured", "refused" or "that change is no
   longer waiting, nothing was applied" the change is not there and no COMMIT
   or DDL is still under way. *)
TruthfulReplies ==
  \A c \in Calls :
    /\ reply[c] = "applied" => tx[c] = "applied"
    /\ reply[c] \in {"declined", "measured", "refused", "gone"} =>
         tx[c] \notin {"applied", "loose"}

(* Who may end an open staged transaction: the register, until somebody takes
   it out; then the tool call or the expiry task that took it. *)
Owners(c) ==
  {o \in {"register", "call", "expiry"} :
     \/ o = "register" /\ c \in staged
     \/ o = "call" /\ pc[c] \in {"committing", "undoing"}
     \/ o = "expiry" /\ c \in expiring}

(* A staged transaction has exactly one owner, so it is neither lost (locks
   nobody will ever release) nor both committed and rolled back. *)
OneOwner ==
  alive => \A c \in Calls :
             IF tx[c] = "open" THEN \E o \in Owners(c) : Owners(c) = {o}
                               ELSE Owners(c) = {}

(* The staged write's wait ends before the dialog's: once its deadline is
   over it is no longer registered, however long the question stays open. *)
LockEndsFirst == \A c \in Calls : age[c] > StageDeadline => c \notin staged

(* A click answers the request the user was reading, also when other requests
   arrive while the dialog is open. *)
ClickIsForWhatWasRead == sending # NoSend => sending.call = reading

(* Disconnecting leaves nothing open on the server.  The comment in
   ConnectionManager::disconnect says so of every connection; a staged write's
   connection, detached from its pool, stays open. *)
DisconnectLeavesNothingOpen == ~conn.up => \A c \in Calls : tx[c] # "open"

(* What is settled stays settled: a change applied or undone is never turned
   into the other, and an agent is told once. *)
SettledNow ==
  \A c \in Calls : /\ tx[c] \in {"applied", "undone"} => tx'[c] = tx[c]
                   /\ reply[c] # "none" => reply'[c] = reply[c]

Settled == [][SettledNow]_vars

(* Row locks are released even if nobody ever answers the dialog. *)
LocksReleased == \A c \in Calls : tx[c] = "open" ~> tx[c] # "open"

(* A question to the window never holds its tool call for ever. *)
CallsReturn == \A c \in Calls : pc[c] = "waiting" ~> (pc[c] = "done" \/ ~alive)

(* StagedWrites implements ApprovedWrites, whose state is seen here as follows. *)
effect == [c \in Calls |-> IF tx[c] = "applied" THEN "applied" ELSE "none"]

told == [c \in Calls |->
           CASE reply[c] \in {"declined", "measured", "refused", "gone"} -> "notApplied"
             [] reply[c] = "error" -> "unknown"
             [] OTHER -> reply[c]]

Promise == INSTANCE ApprovedWrites WITH effect <- effect, told <- told

(* Every step is one the promise allows, or changes nothing it speaks of. *)
ImplementsPromise == Promise!Spec
=============================================================================
