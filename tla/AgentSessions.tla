----------------------------- MODULE AgentSessions -----------------------------
(***************************************************************************)
(* The agent session in the panel: the window's store                      *)
(* (stores/agentSessionStore.ts, agent-transcript.ts), the backend's       *)
(* register of harness processes (mcp/sessions.rs) and the two protocols   *)
(* it speaks with them (mas-agent's acp.rs and claude.rs).                 *)
(*                                                                         *)
(* The window's calls and a session's events are not ordered with one      *)
(* another, and a session has two sources of events: its process's stream  *)
(* and, for ACP, the call that sent a prompt.  Text, tools and plans are   *)
(* left out of the transcript; whose it is, the questions in it and        *)
(* whether it was closed are kept.                                         *)
(***************************************************************************)
EXTENDS Naturals, Sequences, SequencesExt, FiniteSets

CONSTANTS
  Sessions,  \* ids of sessions, each made by one start
  Calls,     \* calls of the window to the backend that may be under way at a time
  Prompts,   \* ids of the permission questions, each asked once
  MaxTurns,  \* bound: messages sent in one session
  Overlaps,  \* whether the user ends a session again while it is being ended
  Null

ASSUME SessionsAssumption ==
  /\ Null \notin Sessions \cup Prompts /\ Null \notin BOOLEAN
  /\ Prompts \cap {"turnEnded", "failed"} = {}
  /\ MaxTurns \in Nat /\ Overlaps \in BOOLEAN

VARIABLES
  panel,    \* the store: session, thinking, failed, starting
  shown,    \* its transcript
  calls,    \* the calls under way
  harness,  \* each session's process, and how many turns it is at
  register, \* AgentSessions.sessions
  waits,    \* AcpClient.permissions: the questions each session waits on
  stream,   \* events on their way from a session's process
  direct,   \* events emitted by the calls that sent a prompt
  sent      \* the messages sent in each session

vars == <<panel, shown, calls, harness, register, waits, stream, direct, sent>>

Kinds == {"acp", "claude"}
Panel == [session : Sessions \cup {Null}, thinking : BOOLEAN, failed : BOOLEAN, starting : BOOLEAN]
Transcript == [of : SUBSET Sessions, prompts : [Prompts -> {"none", "waiting", "answered", "dismissed"}], ended : BOOLEAN]
Blank == [of |-> {}, prompts |-> [p \in Prompts |-> "none"], ended |-> FALSE]
Idle == [op |-> "none", session |-> Null, prompt |-> Null, ok |-> Null]
Call == [op : {"start", "send", "stop", "answer"}, session : Sessions, prompt : Prompts \cup {Null}, ok : {Null, TRUE, FALSE}]
Harness == [kind : Kinds, process : {"none", "alive", "dead"}, turns : Nat]
Event == {"turnEnded", "failed"} \cup Prompts

TypeOK ==
  /\ panel \in Panel /\ shown \in Transcript
  /\ calls \in [Calls -> {Idle} \cup Call]
  /\ harness \in [Sessions -> Harness] /\ register \subseteq Sessions
  /\ waits \in [Sessions -> SUBSET Prompts]
  /\ stream \in [Sessions -> Seq(Event)] /\ direct \in [Sessions -> Seq(Event)]
  /\ sent \in [Sessions -> 0..MaxTurns]

Init ==
  /\ panel = [session |-> Null, thinking |-> FALSE, failed |-> FALSE, starting |-> FALSE]
  /\ shown = Blank /\ calls = [k \in Calls |-> Idle]
  /\ harness \in [Sessions -> [kind : Kinds, process : {"none"}, turns : {0}]]
  /\ register = {} /\ waits = [s \in Sessions |-> {}]
  /\ stream = [s \in Sessions |-> <<>>] /\ direct = [s \in Sessions |-> <<>>]
  /\ sent = [s \in Sessions |-> 0]

(*************************************************************************)
(* What the user does                                                    *)
(*************************************************************************)
Asks(k, op, s, p) ==
  /\ calls[k] = Idle
  /\ calls' = [calls EXCEPT ![k] = [op |-> op, session |-> s, prompt |-> p, ok |-> Null]]
Under(op, s) == \E k \in Calls : calls[k].op = op /\ calls[k].session = s
Fresh(s) == harness[s].process = "none" /\ \A k \in Calls : calls[k].session # s
backend == <<harness, register, waits, stream, direct>>

\* Mutated: a start does not look whether one is under way.
startAgain(k) ==
  /\ panel.session = Null
  /\ \E s \in Sessions : Fresh(s) /\ Asks(k, "start", s, Null)
  /\ panel' = [panel EXCEPT !.starting = TRUE]
  /\ UNCHANGED <<shown, backend, sent>>

\* AgentStart is there while no session is, and its buttons are off while one starts.
start(k) ==
  /\ panel.session = Null /\ ~panel.starting
  /\ \E s \in Sessions : Fresh(s) /\ Asks(k, "start", s, Null)
  /\ panel' = [panel EXCEPT !.starting = TRUE]
  /\ UNCHANGED <<shown, backend, sent>>

\* The message is in the transcript before the backend has it.
send(k) ==
  LET s == panel.session IN
  /\ s # Null /\ ~panel.failed /\ ~panel.thinking /\ sent[s] < MaxTurns
  /\ Asks(k, "send", s, Null)
  /\ sent' = [sent EXCEPT ![s] = @ + 1]
  /\ shown' = [shown EXCEPT !.of = @ \cup {s}]
  /\ panel' = [panel EXCEPT !.thinking = TRUE]
  /\ UNCHANGED <<backend>>

\* The header's End, the composer's new session: the session is left when the call returned.
stop(k) ==
  LET s == panel.session IN
  /\ s # Null /\ (Under("stop", s) => Overlaps)
  /\ Asks(k, "stop", s, Null)
  /\ UNCHANGED <<panel, shown, backend, sent>>

answerPermission(items, p, how) == [items EXCEPT !.prompts[p] = how]
\* A choice or a dismissal; asked of the backend while there is a session.
answer(k) ==
  \E p \in Prompts, how \in {"answered", "dismissed"} :
    /\ shown.prompts[p] = "waiting"
    /\ shown' = answerPermission(shown, p, how)
    /\ IF panel.session = Null THEN UNCHANGED calls ELSE Asks(k, "answer", panel.session, p)
    /\ UNCHANGED <<panel, backend, sent>>

(*************************************************************************)
(* The backend                                                           *)
(*************************************************************************)
Reply(k, ok) == calls' = [calls EXCEPT ![k].ok = ok]
Asked(k, op) == calls[k].op = op /\ calls[k].ok = Null

\* The process runs, and its events are forwarded, before the session is registered.
Spawn(k) ==
  LET s == calls[k].session IN
  /\ Asked(k, "start") /\ harness[s].process = "none"
  /\ harness' = [harness EXCEPT ![s].process = "alive"]
  /\ UNCHANGED <<panel, shown, calls, register, waits, stream, direct, sent>>
Register(k) ==
  LET s == calls[k].session IN
  /\ Asked(k, "start") /\ harness[s].process # "none"
  /\ register' = register \cup {s}
  /\ Reply(k, TRUE)
  /\ UNCHANGED <<panel, shown, harness, waits, stream, direct, sent>>
\* No endpoint, no such program, no handshake: what was spawned is killed with its handle.
StartFails(k) ==
  /\ Asked(k, "start")
  /\ harness' = [harness EXCEPT ![calls[k].session].process = "dead"]
  /\ Reply(k, FALSE)
  /\ UNCHANGED <<panel, shown, register, waits, stream, direct, sent>>

\* A turn begins; to a process that is gone it fails at once, as an event.
TakeSend(k) ==
  LET s == calls[k].session IN
  /\ Asked(k, "send")
  /\ Reply(k, s \in register)
  /\ IF s \in register /\ harness[s].process = "alive" THEN harness' = [harness EXCEPT ![s].turns = @ + 1] ELSE UNCHANGED harness
  /\ direct' = IF s \in register /\ harness[s].process = "dead" THEN [direct EXCEPT ![s] = Append(@, "failed")] ELSE direct
  /\ UNCHANGED <<panel, shown, register, waits, stream, sent>>

TakeAnswer(k) ==
  LET s == calls[k].session IN
  /\ Asked(k, "answer")
  /\ Reply(k, s \in register)
  /\ waits' = IF s \in register THEN [waits EXCEPT ![s] = @ \ {calls[k].prompt}] ELSE waits
  /\ UNCHANGED <<panel, shown, harness, register, stream, direct, sent>>

\* Off the register, and the process is told to end; the agent's statements are cancelled next.
TakeStop(k) ==
  /\ Asked(k, "stop")
  /\ register' = register \ {calls[k].session}
  /\ Reply(k, TRUE)
  /\ UNCHANGED <<panel, shown, harness, waits, stream, direct, sent>>

(*************************************************************************)
(* The harness                                                           *)
(*************************************************************************)
Alive(s) == harness[s].process = "alive"
Emit(s, event) == stream' = [stream EXCEPT ![s] = Append(@, event)]

\* Claude says that it has no database tools, before anything was sent.
NoTools(s) ==
  /\ Alive(s) /\ harness[s].kind = "claude" /\ stream[s] = <<>> /\ sent[s] = 0
  /\ Emit(s, "failed")
  /\ UNCHANGED <<panel, shown, calls, harness, register, waits, direct, sent>>
AskPermission(s) ==
  /\ Alive(s) /\ harness[s].kind = "acp" /\ harness[s].turns > 0
  /\ \E p \in Prompts :
       /\ \A t \in Sessions : p \notin waits[t] /\ ~Contains(stream[t], p)
       /\ shown.prompts[p] = "none" /\ \A k \in Calls : calls[k].prompt # p
       /\ waits' = [waits EXCEPT ![s] = @ \cup {p}]
       /\ Emit(s, p)
  /\ UNCHANGED <<panel, shown, calls, harness, register, direct, sent>>
\* Mutated: a turn that was failed with its process is answered as well.
TurnEndsTwice(s) ==
  /\ harness[s].kind = "acp" /\ sent[s] > 0
  /\ harness' = [harness EXCEPT ![s].turns = @ - 1]
  /\ direct' = [direct EXCEPT ![s] = Append(@, "turnEnded")]
  /\ UNCHANGED <<panel, shown, calls, register, waits, stream, sent>>
\* ACP answers the prompt's call; Claude ends its stream of the turn, with a refusal or an error or without.
TurnEnds(s) ==
  /\ Alive(s) /\ harness[s].turns > 0
  /\ harness' = [harness EXCEPT ![s].turns = @ - 1]
  /\ \/ /\ harness[s].kind = "acp"
        /\ \E event \in {"turnEnded", "failed"} : direct' = [direct EXCEPT ![s] = Append(@, event)]
        /\ UNCHANGED stream
     \/ /\ harness[s].kind = "claude"
        /\ \E events \in {<<"turnEnded">>, <<"failed", "turnEnded">>} : stream' = [stream EXCEPT ![s] = @ \o events]
        /\ UNCHANGED direct
  /\ UNCHANGED <<panel, shown, calls, register, waits, sent>>
\* It ends by itself, or because it was stopped: what waits for it fails.
ProcessEnds(s) ==
  /\ Alive(s)
  /\ harness' = [harness EXCEPT ![s].process = "dead", ![s].turns = 0]
  /\ Emit(s, "failed")
  /\ IF harness[s].kind = "acp"
     THEN /\ waits' = [waits EXCEPT ![s] = {}]
          /\ direct' = [direct EXCEPT ![s] = @ \o [i \in 1..harness[s].turns |-> "failed"]]
     ELSE UNCHANGED <<waits, direct>>
  /\ UNCHANGED <<panel, shown, calls, register, sent>>

(*************************************************************************)
(* What reaches the window                                               *)
(*************************************************************************)
Ending(event) == event \in {"turnEnded", "failed"}
applyEvent(items, s, event) ==
  [items EXCEPT !.of = @ \cup {s}, !.prompts = [p \in Prompts |-> IF p = event THEN "waiting" ELSE @[p]]]
\* Mutated: an event is folded in whosever it is.
receiveAny(s, event) ==
  /\ shown' = applyEvent(shown, s, event)
  /\ panel' = [panel EXCEPT !.thinking = @ /\ ~Ending(event), !.failed = @ \/ event = "failed"]
\* Mutated: only a turn's own end stops the spinner.
receiveTurnsEnd(s, event) ==
  IF s # panel.session THEN UNCHANGED <<panel, shown>>
  ELSE /\ shown' = applyEvent(shown, s, event)
       /\ panel' = [panel EXCEPT !.thinking = @ /\ event # "turnEnded", !.failed = @ \/ event = "failed"]
\* An event of a session that is not the panel's is dropped.
receive(s, event) ==
  IF s # panel.session THEN UNCHANGED <<panel, shown>>
  ELSE /\ shown' = applyEvent(shown, s, event)
       /\ panel' = [panel EXCEPT !.thinking = @ /\ ~Ending(event), !.failed = @ \/ event = "failed"]
StreamArrives(s) ==
  /\ stream[s] # <<>>
  /\ receive(s, Head(stream[s]))
  /\ stream' = [stream EXCEPT ![s] = Tail(@)]
  /\ UNCHANGED <<calls, harness, register, waits, direct, sent>>
DirectArrives(s) ==
  /\ direct[s] # <<>>
  /\ receive(s, Head(direct[s]))
  /\ direct' = [direct EXCEPT ![s] = Tail(@)]
  /\ UNCHANGED <<calls, harness, register, waits, stream, sent>>

\* Mutated: the transcript is closed and its questions keep their buttons.
endSessionAsking(items) == IF items = Blank THEN items ELSE [items EXCEPT !.ended = TRUE]
endSession(items) ==
  IF items = Blank THEN items
  ELSE [items EXCEPT !.ended = TRUE, !.prompts = [p \in Prompts |-> IF @[p] = "waiting" THEN "dismissed" ELSE @[p]]]

Returned(k, op) == calls[k].op = op /\ calls[k].ok # Null /\ calls' = [calls EXCEPT ![k] = Idle]
started(k) ==
  /\ Returned(k, "start")
  /\ IF calls[k].ok
     THEN /\ panel' = [session |-> calls[k].session, thinking |-> FALSE, failed |-> FALSE, starting |-> FALSE]
          /\ shown' = Blank
     ELSE panel' = [panel EXCEPT !.starting = FALSE] /\ UNCHANGED shown
  /\ UNCHANGED <<backend, sent>>
\* A send that was refused ends the spinner, whosever it is by now.
sendReturned(k) ==
  /\ Returned(k, "send")
  /\ panel' = [panel EXCEPT !.thinking = @ /\ calls[k].ok]
  /\ UNCHANGED <<shown, backend, sent>>
stopped(k) ==
  /\ Returned(k, "stop")
  /\ panel' = [panel EXCEPT !.session = Null, !.thinking = FALSE, !.failed = FALSE]
  /\ shown' = endSession(shown)
  /\ UNCHANGED <<backend, sent>>
answerReturned(k) ==
  /\ Returned(k, "answer")
  /\ UNCHANGED <<panel, shown, backend, sent>>

User(k) == start(k) \/ send(k) \/ stop(k) \/ answer(k)
Backend(k) == Spawn(k) \/ Register(k) \/ StartFails(k) \/ TakeSend(k) \/ TakeAnswer(k) \/ TakeStop(k)
Return(k) == started(k) \/ sendReturned(k) \/ stopped(k) \/ answerReturned(k)
Agent(s) == NoTools(s) \/ AskPermission(s) \/ TurnEnds(s) \/ ProcessEnds(s)
Arrive(s) == StreamArrives(s) \/ DirectArrives(s)
Next ==
  \/ \E k \in Calls : User(k) \/ Backend(k) \/ Return(k)
  \/ \E s \in Sessions : Agent(s) \/ Arrive(s)
Spec == Init /\ [][Next]_vars

(*************************************************************************)
(* Properties                                                            *)
(*************************************************************************)
(* The spinner ends: while it turns, the message is on its way to the backend, the
   harness is at the turn, or the event that ends it is on its way, whichever source it
   comes from and however the process ends (send, receive, fail_everything). *)
SpinnerMeansWorking ==
  LET s == panel.session IN
  panel.thinking => s # Null /\ (\/ Under("send", s) \/ harness[s].turns > 0
                                 \/ \E event \in ToSet(stream[s]) \cup ToSet(direct[s]) : Ending(event))

(* A question the agent waits on can be answered: once it has arrived it is in the
   transcript with its buttons, or its answer is on its way.  And with no session there
   is none to answer (answer, endSession). *)
QuestionsCanBeAnswered ==
  LET s == panel.session IN
  IF s = Null THEN \A p \in Prompts : shown.prompts[p] # "waiting"
  ELSE s \in register => \A p \in waits[s] :
         \/ Contains(stream[s], p) \/ shown.prompts[p] = "waiting"
         \/ \E k \in Calls : calls[k].op = "answer" /\ calls[k].prompt = p

(* The transcript is of one session: nothing a session that was replaced still says is
   folded into the next one's (receive, start). *)
OneTranscript == panel.session # Null => shown.of \subseteq {panel.session}

(* No harness runs on where the user cannot reach it: what is registered is the panel's
   session, or on its way in or out (start, stop; one session at a time). *)
NoHarnessLeft == \A s \in register : s = panel.session \/ Under("start", s) \/ Under("stop", s)
=============================================================================
