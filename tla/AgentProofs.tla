---------------------------- MODULE AgentProofs ----------------------------
(***************************************************************************)
(* Theorems about the agent's backend.                                     *)
(*                                                                         *)
(* AgentSessions, for any sessions, calls, questions and numbers of turns: *)
(* one transcript at a time, no harness out of reach, a spinner that ends, *)
(* and questions that can be answered.                                     *)
(*                                                                         *)
(* EndpointLifecycle, for any number of overlapping commands: no listener  *)
(* is orphaned, the slot names a listener that serves, and no endpoint     *)
(* runs without a token.  The components share no variable: a harness is   *)
(* given the endpoint once, as its session starts.                         *)
(***************************************************************************)
EXTENDS AgentSessions, EndpointLifecycle, TLAPS

Is(k, op) == calls[k].op = op
In(q, e)  == \E i \in DOMAIN q : q[i] = e
Ended(q)  == In(q, "turnEnded") \/ In(q, "failed")

(* One start at a time, while the panel has no session; its session is new to
   everything, and registered only as the call succeeds. *)
StartInv ==
  /\ \A k \in Calls : Is(k, "start") =>
       LET s == calls[k].session IN
       /\ panel.session = Null /\ panel.starting
       /\ calls[k].ok # TRUE => s \notin register
       /\ harness[s].turns = 0 /\ waits[s] = {}
       /\ \A l \in Calls : Is(l, "start") \/ calls[l].session = s => l = k
  /\ \A s \in Sessions : harness[s].process = "none"
       => s \notin register /\ harness[s].turns = 0 /\ waits[s] = {}

(* Ended once, a session is the panel's until the answer is there. *)
StopInv ==
  /\ \A k \in Calls : Is(k, "stop") =>
       /\ calls[k].session = panel.session
       /\ calls[k].ok # Null => calls[k].session \notin register
       /\ \A l \in Calls : Is(l, "stop") => l = k
  /\ NoHarnessLeft

(* A message the backend has not taken or has refused, a turn, or the event
   that ends one. *)
Working(s) ==
  \/ \E k \in Calls : Is(k, "send") /\ calls[k].session = s /\ calls[k].ok # TRUE
  \/ harness[s].turns > 0
  \/ Ended(stream[s]) \/ Ended(direct[s])
SpinnerInv == panel.thinking => panel.session # Null /\ Working(panel.session)

(* A question belongs to one session, wherever it is. *)
OwnerInv ==
  /\ \A p \in Prompts, s, t \in Sessions : p \in waits[t] /\ In(stream[s], p) => t = s
  /\ \A p \in Prompts, t \in Sessions : p \in waits[t] /\ shown.prompts[p] = "waiting" => t = panel.session
  /\ \A k \in Calls, t \in Sessions : Is(k, "answer") /\ calls[k].prompt \in waits[t] => t = calls[k].session

(* The agent's questions are on their way, on screen, or being answered. *)
QuestionInv ==
  /\ panel.session = Null => \A p \in Prompts : shown.prompts[p] # "waiting"
  /\ \A s \in register : s = panel.session => \A p \in waits[s] :
       \/ In(stream[s], p) \/ shown.prompts[p] = "waiting"
       \/ \E k \in Calls : Is(k, "answer") /\ calls[k].prompt = p /\ calls[k].ok = Null

DirectInv == \A s \in Sessions : direct[s] \in Seq({"turnEnded", "failed"})

IInv == TypeOK /\ DirectInv /\ StartInv /\ (~Overlaps => StopInv) /\ OneTranscript /\ SpinnerInv
        /\ OwnerInv /\ QuestionInv
-----------------------------------------------------------------------------
(* Types.  A call that is made or answered, and what the window receives. *)
LEMMA AsksType ==
  ASSUME calls \in [Calls -> {Idle} \cup Call], NEW k \in Calls, NEW op \in {"start", "send", "stop", "answer"},
         NEW s \in Sessions, NEW p \in Prompts \cup {Null}, Asks(k, op, s, p)
  PROVE  calls' \in [Calls -> {Idle} \cup Call]
BY DEF Asks, Call

LEMMA ReplyType ==
  ASSUME calls \in [Calls -> {Idle} \cup Call], NEW k \in Calls, calls[k] # Idle, NEW ok \in BOOLEAN, Reply(k, ok)
  PROVE  calls' \in [Calls -> {Idle} \cup Call]
<1>1. calls[k] \in Call
  OBVIOUS
<1>2. [calls[k] EXCEPT !.ok = ok] \in Call
  BY <1>1 DEF Call
<1> QED
  BY <1>2 DEF Reply

LEMMA CallShape ==
  ASSUME TypeOK, NEW k \in Calls, calls[k].op # "none"
  PROVE  calls[k] \in Call /\ calls[k] # Idle /\ calls[k].session \in Sessions
<1>1. calls[k] \in {Idle} \cup Call
  BY DEF TypeOK
<1>2. Idle.op = "none"
  BY DEF Idle
<1>3. calls[k] \in Call /\ calls[k] # Idle
  BY <1>1, <1>2
<1> QED
  BY <1>3 DEF Call

LEMMA UserType == ASSUME TypeOK, NEW k \in Calls, User(k) PROVE TypeOK'
<1> USE DEF TypeOK
<1>1. ASSUME start(k) PROVE TypeOK'
  BY <1>1, AsksType DEF start, Panel, backend
<1>2. ASSUME send(k) PROVE TypeOK'
  <2>1. panel.session \in Sessions /\ sent[panel.session] < MaxTurns
    BY <1>2 DEF send, Panel
  <2>2. sent' \in [Sessions -> 0..MaxTurns]
    BY <1>2, <2>1, SessionsAssumption DEF send
  <2>3. shown' \in Transcript /\ panel' \in Panel
    BY <1>2, <2>1 DEF send, Transcript, Panel
  <2> QED
    BY <1>2, <2>1, <2>2, <2>3, AsksType DEF send, backend
<1>3. ASSUME stop(k) PROVE TypeOK'
  BY <1>3, AsksType DEF stop, Panel, backend
<1>4. ASSUME answer(k) PROVE TypeOK'
  <2>1. PICK p \in Prompts, how \in {"answered", "dismissed"} :
           /\ shown' = answerPermission(shown, p, how)
           /\ IF panel.session = Null THEN UNCHANGED calls ELSE Asks(k, "answer", panel.session, p)
           /\ UNCHANGED <<panel, backend, sent>>
    BY <1>4 DEF answer
  <2>2. shown' \in Transcript
    BY <2>1 DEF answerPermission, Transcript
  <2>3. calls' \in [Calls -> {Idle} \cup Call]
    BY <2>1, AsksType DEF Panel
  <2> QED
    BY <2>1, <2>2, <2>3 DEF backend
<1> QED
  BY <1>1, <1>2, <1>3, <1>4 DEF User

LEMMA BackendType == ASSUME TypeOK, NEW k \in Calls, Backend(k) PROVE TypeOK'
<1> DEFINE s == calls[k].session
<1>1. calls[k] \in Call /\ calls[k] # Idle /\ s \in Sessions
  BY CallShape DEF Backend, Spawn, Register, StartFails, TakeSend, TakeAnswer, TakeStop, Asked
<1> HIDE DEF s
<1>2. harness[s] \in Harness
  BY <1>1 DEF TypeOK
<1> USE DEF TypeOK
<1>3. ASSUME Spawn(k) \/ StartFails(k) \/ TakeSend(k) PROVE harness' \in [Sessions -> Harness]
  <2>1. \A h \in Harness, x \in {"alive", "dead"} : [h EXCEPT !.process = x] \in Harness
    BY DEF Harness
  <2>2. [harness[s] EXCEPT !.turns = @ + 1] \in Harness
    <3>1. harness[s].turns + 1 \in Nat
      BY <1>2 DEF Harness
    <3> QED
      BY <1>2, <3>1 DEF Harness
  <2>3. CASE Spawn(k) \/ StartFails(k)
    BY <1>1, <1>2, <2>1, <2>3 DEF Spawn, StartFails, s
  <2>4. CASE TakeSend(k)
    <3>1. harness' = harness \/ harness' = [harness EXCEPT ![s] = [harness[s] EXCEPT !.turns = @ + 1]]
      BY <2>4 DEF TakeSend, s
    <3> QED
      BY <1>1, <2>2, <3>1
  <2> QED
    BY <1>3, <2>3, <2>4
<1>0. ASSUME NEW x, Reply(k, x \in register) PROVE calls' \in [Calls -> {Idle} \cup Call]
  <2>1. CASE x \in register
    <3>1. Reply(k, TRUE)
      BY <1>0, <2>1 DEF Reply
    <3> QED
      BY <1>1, <3>1, ReplyType
  <2>2. CASE x \notin register
    <3>0. (x \in register) = FALSE
      BY <2>2
    <3>1. Reply(k, FALSE)
      BY <1>0, <3>0, Zenon DEF Reply
    <3> QED
      BY <1>1, <3>1, ReplyType
  <2> QED
    BY <2>1, <2>2
<1>4. ASSUME Spawn(k) PROVE TypeOK'
  BY <1>3, <1>4 DEF Spawn
<1>5. ASSUME Register(k) PROVE TypeOK'
  BY <1>1, <1>5, ReplyType DEF Register, s
<1>6. ASSUME StartFails(k) PROVE TypeOK'
  BY <1>1, <1>3, <1>6, ReplyType DEF StartFails
<1>7. ASSUME TakeSend(k) PROVE TypeOK'
  <2>1. direct' \in [Sessions -> Seq(Event)]
    BY <1>1, <1>7 DEF TakeSend, Event, s
  <2> QED
    BY <1>1, <1>3, <1>7, <2>1, <1>0 DEF TakeSend
<1>8. ASSUME TakeAnswer(k) PROVE TypeOK'
  <2>1. waits' \in [Sessions -> SUBSET Prompts]
    BY <1>1, <1>8 DEF TakeAnswer, s
  <2> QED
    BY <1>1, <1>8, <2>1, <1>0 DEF TakeAnswer
<1>9. ASSUME TakeStop(k) PROVE TypeOK'
  BY <1>1, <1>9, ReplyType DEF TakeStop
<1> QED
  BY <1>4, <1>5, <1>6, <1>7, <1>8, <1>9 DEF Backend

LEMMA AgentType == ASSUME TypeOK, NEW s \in Sessions, Agent(s) PROVE TypeOK'
<1> USE DEF TypeOK
<1>1. harness[s] \in Harness
  OBVIOUS
<1>2. ASSUME NEW e \in Event, Emit(s, e) PROVE stream' \in [Sessions -> Seq(Event)]
  BY <1>2 DEF Emit
<1>3. ASSUME NoTools(s) PROVE TypeOK'
  BY <1>2, <1>3 DEF NoTools, Event
<1>4. ASSUME AskPermission(s) PROVE TypeOK'
  <2>1. PICK p \in Prompts : waits' = [waits EXCEPT ![s] = @ \cup {p}] /\ Emit(s, p)
    BY <1>4 DEF AskPermission
  <2>2. waits' \in [Sessions -> SUBSET Prompts] /\ stream' \in [Sessions -> Seq(Event)]
    BY <1>2, <2>1 DEF Event
  <2> QED
    BY <1>4, <2>2 DEF AskPermission
<1>5. ASSUME TurnEnds(s) PROVE TypeOK'
  <2>1. [harness[s] EXCEPT !.turns = @ - 1] \in Harness
    <3>1. harness[s].turns \in Nat /\ harness[s].turns > 0
      BY <1>1, <1>5 DEF TurnEnds, Harness
    <3>2. harness[s].turns - 1 \in Nat
      BY <3>1
    <3> QED
      BY <1>1, <3>2 DEF Harness
  <2>2. harness' \in [Sessions -> Harness]
    BY <1>5, <2>1 DEF TurnEnds
  <2>3. stream' \in [Sessions -> Seq(Event)] /\ direct' \in [Sessions -> Seq(Event)]
    <3>1. CASE \E e \in {"turnEnded", "failed"} : direct' = [direct EXCEPT ![s] = Append(@, e)] /\ stream' = stream
      BY <3>1 DEF Event
    <3>2. CASE /\ \E q \in {<<"turnEnded">>, <<"failed", "turnEnded">>} : stream' = [stream EXCEPT ![s] = @ \o q]
               /\ direct' = direct
      <4>1. PICK q \in {<<"turnEnded">>, <<"failed", "turnEnded">>} : stream' = [stream EXCEPT ![s] = @ \o q]
        BY <3>2
      <4>2. q \in Seq(Event)
        <5>1. "turnEnded" \in Event /\ "failed" \in Event
          BY DEF Event
        <5>2. <<"turnEnded">> \in Seq(Event) /\ <<"failed", "turnEnded">> \in Seq(Event)
          BY <5>1
        <5> QED
          BY <5>2
      <4>3. stream[s] \o q \in Seq(Event)
        BY <4>2
      <4> QED
        BY <3>2, <4>1, <4>3
    <3> QED
      BY <1>5, <3>1, <3>2 DEF TurnEnds
  <2> QED
    BY <1>5, <2>2, <2>3 DEF TurnEnds
<1>6. ASSUME ProcessEnds(s) PROVE TypeOK'
  <2>1. [harness[s] EXCEPT !.process = "dead", !.turns = 0] \in Harness
    BY <1>1 DEF Harness
  <2>2. harness' \in [Sessions -> Harness] /\ waits' \in [Sessions -> SUBSET Prompts]
    BY <1>6, <2>1 DEF ProcessEnds
  <2>3. stream' \in [Sessions -> Seq(Event)]
    BY <1>2, <1>6 DEF ProcessEnds, Event
  <2>4. direct' \in [Sessions -> Seq(Event)]
    <3> DEFINE q == [i \in 1..harness[s].turns |-> "failed"]
    <3>1. q \in Seq(Event)
      <4>1. harness[s].turns \in Nat
        BY <1>1 DEF Harness
      <4> QED
        BY <4>1 DEF Event
    <3> HIDE DEF q
    <3>2. direct[s] \o q \in Seq(Event)
      BY <3>1
    <3> QED
      BY <1>6, <3>2 DEF ProcessEnds, q
  <2> QED
    BY <1>6, <2>2, <2>3, <2>4 DEF ProcessEnds
<1> QED
  BY <1>3, <1>4, <1>5, <1>6 DEF Agent

LEMMA ArriveType == ASSUME TypeOK, NEW s \in Sessions, Arrive(s) PROVE TypeOK'
<1> USE DEF TypeOK
<1>1. ASSUME NEW e, receive(s, e) PROVE panel' \in Panel /\ shown' \in Transcript
  <2>1. applyEvent(shown, s, e) \in Transcript
    BY DEF applyEvent, Transcript
  <2>2. [panel EXCEPT !.thinking = @ /\ ~Ending(e), !.failed = @ \/ e = "failed"] \in Panel
    BY DEF Panel
  <2> QED
    BY <1>1, <2>1, <2>2 DEF receive
<1>2. ASSUME StreamArrives(s) PROVE TypeOK'
  BY <1>1, <1>2 DEF StreamArrives
<1>3. ASSUME DirectArrives(s) PROVE TypeOK'
  BY <1>1, <1>3 DEF DirectArrives
<1> QED
  BY <1>2, <1>3 DEF Arrive

LEMMA ReturnType == ASSUME TypeOK, NEW k \in Calls, Return(k) PROVE TypeOK'
<1> USE DEF TypeOK
<1>1. calls[k] \in Call /\ calls[k].ok \in BOOLEAN /\ calls' \in [Calls -> {Idle} \cup Call]
  BY CallShape DEF Return, started, sendReturned, stopped, answerReturned, Returned, Call
<1>2. calls[k].session \in Sessions
  BY <1>1 DEF Call
<1>3. Blank \in Transcript /\ endSession(shown) \in Transcript
  BY DEF Blank, Transcript, endSession
<1>4. ASSUME started(k) PROVE TypeOK'
  <2>1. panel' \in Panel /\ shown' \in Transcript
    <3>1. CASE calls[k].ok
      <4>1. /\ panel' = [session |-> calls[k].session, thinking |-> FALSE, failed |-> FALSE, starting |-> FALSE]
            /\ shown' = Blank
        BY <1>4, <3>1 DEF started
      <4> QED
        BY <1>2, <1>3, <4>1 DEF Panel
    <3>2. CASE ~calls[k].ok
      <4>1. panel' = [panel EXCEPT !.starting = FALSE] /\ shown' = shown
        BY <1>1, <1>4, <3>2 DEF started
      <4> QED
        BY <4>1 DEF Panel
    <3> QED
      BY <3>1, <3>2
  <2> QED
    BY <1>1, <1>4, <2>1 DEF started, backend
<1>5. ASSUME sendReturned(k) PROVE TypeOK'
  <2>1. [panel EXCEPT !.thinking = @ /\ calls[k].ok] \in Panel
    BY <1>1 DEF Panel
  <2> QED
    BY <1>1, <1>5, <2>1 DEF sendReturned, backend
<1>6. ASSUME stopped(k) PROVE TypeOK'
  BY <1>1, <1>3, <1>6 DEF stopped, Panel, backend
<1>7. ASSUME answerReturned(k) PROVE TypeOK'
  BY <1>1, <1>7 DEF answerReturned, backend
<1> QED
  BY <1>4, <1>5, <1>6, <1>7 DEF Return

LEMMA TypeStep == ASSUME TypeOK, [Next]_vars PROVE TypeOK'
<1>1. CASE UNCHANGED vars
  BY <1>1 DEF vars, TypeOK
<1> QED
  BY <1>1, UserType, BackendType, ReturnType, AgentType, ArriveType DEF Next
-----------------------------------------------------------------------------
(* The calls after one was made, answered by the backend, or has returned. *)
LEMMA AsksCalls ==
  ASSUME TypeOK, NEW k \in Calls, NEW op, NEW s, NEW p, Asks(k, op, s, p)
  PROVE  /\ calls[k] = Idle /\ calls'[k] = [op |-> op, session |-> s, prompt |-> p, ok |-> Null]
         /\ \A l \in Calls : l # k => calls'[l] = calls[l]
BY DEF Asks, TypeOK

LEMMA ReplyCalls ==
  ASSUME TypeOK, NEW k \in Calls, calls[k].op # "none", NEW ok, Reply(k, ok)
  PROVE  /\ calls'[k].op = calls[k].op /\ calls'[k].session = calls[k].session
         /\ calls'[k].prompt = calls[k].prompt /\ calls'[k].ok = ok
         /\ \A l \in Calls : l # k => calls'[l] = calls[l]
<1>1. calls[k] \in Call
  BY CallShape
<1> QED
  BY <1>1 DEF Reply, TypeOK, Call

LEMMA ReturnedCalls ==
  ASSUME TypeOK, NEW k \in Calls, NEW op, Returned(k, op)
  PROVE  /\ calls[k].op = op /\ calls[k].ok # Null /\ calls'[k] = Idle
         /\ \A l \in Calls : l # k => calls'[l] = calls[l]
BY DEF Returned, TypeOK

LEMMA IdleIs == Idle.op = "none" /\ Idle.session = Null /\ Idle.prompt = Null /\ Idle.ok = Null
BY DEF Idle

(* Steps that add no start, register nobody and leave turns and questions of a
   session whose start is under way alone. *)
LEMMA StartKept ==
  ASSUME TypeOK, StartInv,
         \A k \in Calls : calls'[k].op = "start" => calls'[k] = calls[k],
         \A k, l \in Calls : Is(k, "start") /\ l # k => calls'[l].session # calls[k].session,
         (\E k \in Calls : Is(k, "start")) => panel'.session = panel.session /\ panel'.starting = panel.starting,
         register' \subseteq register,
         \A s \in Sessions : harness[s].process = "none" => harness'[s] = harness[s] /\ waits'[s] = waits[s],
         \A s \in Sessions : harness'[s].process = "none" => harness[s].process = "none",
         \A s \in Sessions : harness[s].turns = 0 /\ waits[s] = {} /\ (\E k \in Calls : Is(k, "start") /\ calls[k].session = s)
                               => harness'[s].turns = 0 /\ waits'[s] = {}
  PROVE  StartInv'
<1>1. \A k \in Calls : Is(k, "start") => calls[k].session \in Sessions
  BY CallShape DEF Is
<1>2. \A k \in Calls : Is(k, "start")' => Is(k, "start")
  BY DEF Is
<1>3. ASSUME NEW k \in Calls, Is(k, "start")'
      PROVE  LET s == calls'[k].session IN
             /\ panel'.session = Null /\ panel'.starting
             /\ calls'[k].ok # TRUE => s \notin register'
             /\ harness'[s].turns = 0 /\ waits'[s] = {}
             /\ \A l \in Calls : Is(l, "start")' \/ calls'[l].session = s => l = k
  <2>1. Is(k, "start") /\ calls'[k] = calls[k]
    BY <1>3, <1>2 DEF Is
  <2>2. /\ panel.session = Null /\ panel.starting
        /\ calls[k].ok # TRUE => calls[k].session \notin register
        /\ harness[calls[k].session].turns = 0 /\ waits[calls[k].session] = {}
        /\ \A l \in Calls : Is(l, "start") \/ calls[l].session = calls[k].session => l = k
    BY <2>1 DEF StartInv
  <2> DEFINE s == calls[k].session
  <2>3. calls'[k].session = s /\ calls'[k].ok = calls[k].ok /\ s \in Sessions
    BY <1>1, <2>1
  <2>4. panel'.session = Null /\ panel'.starting /\ (calls[k].ok # TRUE => s \notin register')
    BY <2>1, <2>2
  <2>5. harness'[s].turns = 0 /\ waits'[s] = {}
    BY <2>1, <2>2, <2>3
  <2>6. \A l \in Calls : Is(l, "start")' \/ calls'[l].session = s => l = k
    BY <1>2, <2>1, <2>2
  <2> QED
    BY <2>3, <2>4, <2>5, <2>6
<1>4. \A s \in Sessions : harness'[s].process = "none"
        => s \notin register' /\ harness'[s].turns = 0 /\ waits'[s] = {}
  BY DEF StartInv
<1> QED
  BY <1>3, <1>4 DEF StartInv

LEMMA UserStart == ASSUME TypeOK, StartInv, NEW k \in Calls, User(k) PROVE StartInv'
<1>1. CASE start(k)
  <2>1. PICK s \in Sessions : Fresh(s) /\ Asks(k, "start", s, Null)
    BY <1>1 DEF start
  <2>2. /\ panel.session = Null /\ ~panel.starting /\ panel' = [panel EXCEPT !.starting = TRUE]
        /\ UNCHANGED <<harness, register, waits>>
    BY <1>1 DEF start, backend
  <2>3. panel'.session = Null /\ panel'.starting
    BY <2>2 DEF TypeOK, Panel
  <2>4. \A l \in Calls : ~Is(l, "start") /\ calls[l].session # s
    BY <2>1, <2>2 DEF StartInv, Fresh
  <2>5. harness[s].process = "none" /\ s \notin register /\ harness[s].turns = 0 /\ waits[s] = {}
    BY <2>1 DEF Fresh, StartInv
  <2>6. /\ calls'[k] = [op |-> "start", session |-> s, prompt |-> Null, ok |-> Null]
        /\ \A l \in Calls : l # k => calls'[l] = calls[l]
    BY <2>1, AsksCalls
  <2>7. \A l \in Calls : l # k => ~Is(l, "start")' /\ calls'[l].session # s
    BY <2>4, <2>6 DEF Is
  <2>8. calls'[k].session = s
    BY <2>6
  <2>9. \A x \in Sessions : harness[x].process = "none" => x \notin register /\ harness[x].turns = 0 /\ waits[x] = {}
    BY DEF StartInv
  <2> QED
    BY <2>2, <2>3, <2>5, <2>7, <2>8, <2>9 DEF StartInv
<1>2. ASSUME NEW op \in {"send", "stop", "answer"}, NEW p, Asks(k, op, panel.session, p), panel.session # Null,
             panel'.starting = panel.starting, panel'.session = panel.session, UNCHANGED <<harness, register, waits>>
      PROVE  StartInv'
  <2>1. \A l \in Calls : ~Is(l, "start")
    BY <1>2 DEF StartInv
  <2>2. /\ calls'[k] = [op |-> op, session |-> panel.session, prompt |-> p, ok |-> Null]
        /\ \A l \in Calls : l # k => calls'[l] = calls[l]
    BY <1>2, AsksCalls
  <2>3. \A l \in Calls : calls'[l].op # "start"
    BY <2>1, <2>2 DEF Is
  <2> QED
    BY <1>2, <2>1, <2>3, StartKept
<1>3. CASE send(k)
  <2>1. panel'.starting = panel.starting /\ panel'.session = panel.session
    BY <1>3 DEF send, TypeOK, Panel
  <2> QED
    BY <1>2, <1>3, <2>1 DEF send, backend
<1>4. CASE stop(k)
  BY <1>2, <1>4 DEF stop, backend
<1>5. CASE answer(k)
  <2>1. CASE panel.session # Null
    BY <1>2, <1>5, <2>1 DEF answer, backend
  <2>2. CASE panel.session = Null
    <3>1. UNCHANGED <<calls, panel, harness, register, waits>>
      BY <1>5, <2>2 DEF answer, backend
    <3> QED
      BY <3>1 DEF StartInv, Is
  <2> QED
    BY <2>1, <2>2
<1> QED
  BY <1>1, <1>3, <1>4, <1>5 DEF User

LEMMA BackendStart == ASSUME TypeOK, StartInv, NEW k \in Calls, Backend(k) PROVE StartInv'
<1> DEFINE s == calls[k].session
<1>1. calls[k].op # "none" /\ calls[k] \in Call /\ s \in Sessions /\ calls[k].ok = Null
  BY CallShape DEF Backend, Spawn, Register, StartFails, TakeSend, TakeAnswer, TakeStop, Asked
<1>2. panel' = panel
  BY DEF Backend, Spawn, Register, StartFails, TakeSend, TakeAnswer, TakeStop
<1>3. ASSUME NEW ok, Reply(k, ok)
      PROVE  /\ calls'[k].op = calls[k].op /\ calls'[k].session = s /\ calls'[k].ok = ok
             /\ \A l \in Calls : l # k => calls'[l] = calls[l]
  BY <1>1, <1>3, ReplyCalls
<1>4. CASE Is(k, "start")
  <2>0. /\ panel.session = Null /\ panel.starting /\ harness[s].turns = 0 /\ waits[s] = {}
        /\ \A l \in Calls : Is(l, "start") \/ calls[l].session = s => l = k
        /\ calls[k].ok # TRUE => s \notin register
    BY <1>4 DEF StartInv
  <2>9. Spawn(k) \/ Register(k) \/ StartFails(k)
    BY <1>4 DEF Backend, TakeSend, TakeAnswer, TakeStop, Asked, Is
  <2>10. waits' = waits /\ (harness' = harness \/ \E x : harness' = [harness EXCEPT ![s].process = x])
    BY <2>9 DEF Spawn, Register, StartFails
  <2>1. /\ waits' = waits /\ harness'[s].turns = 0
        /\ \A x \in Sessions : x # s => harness'[x] = harness[x]
    <3>1. harness[s] \in Harness /\ harness \in [Sessions -> Harness]
      BY <1>1 DEF TypeOK
    <3>2. \A x : [harness[s] EXCEPT !.process = x].turns = harness[s].turns
      BY <3>1 DEF Harness
    <3>3. CASE harness' = harness
      BY <2>0, <2>10, <3>3
    <3>4. CASE \E x : harness' = [harness EXCEPT ![s].process = x]
      <4>1. PICK x : harness' = [harness EXCEPT ![s].process = x]
        BY <3>4
      <4>2. harness'[s] = [harness[s] EXCEPT !.process = x] /\ \A y \in Sessions : y # s => harness'[y] = harness[y]
        BY <1>1, <3>1, <4>1
      <4> QED
        BY <2>0, <2>10, <3>2, <4>2
    <3> QED
      BY <2>10, <3>3, <3>4
  <2>2. /\ \A l \in Calls : l # k => calls'[l] = calls[l]
        /\ calls'[k].op = "start" /\ calls'[k].session = s
    <3>1. CASE Spawn(k)
      BY <1>4, <3>1 DEF Spawn, Is
    <3>2. CASE Register(k) \/ StartFails(k)
      BY <1>3, <1>4, <3>2 DEF Register, StartFails, Is
    <3> QED
      BY <1>4, <3>1, <3>2 DEF Backend, TakeSend, TakeAnswer, TakeStop, Asked, Is
  <2>3. /\ register' \subseteq register \cup {s}
        /\ calls'[k].ok # TRUE => s \notin register'
        /\ harness'[s].process = "none" => s \notin register'
    <3>1. CASE Spawn(k)
      <4>1. register' = register /\ calls' = calls /\ harness'[s].process = "alive"
        BY <1>1, <3>1 DEF Spawn, TypeOK, Harness
      <4> QED
        BY <2>0, <4>1
    <3>2. CASE Register(k)
      <4>1. register' = register \cup {s} /\ harness' = harness /\ harness[s].process # "none"
        BY <3>2 DEF Register
      <4> QED
        BY <1>3, <3>2, <4>1 DEF Register
    <3>3. CASE StartFails(k)
      <4>1. s \notin register
        BY <1>1, <2>0, SessionsAssumption
      <4> QED
        BY <3>3, <4>1 DEF StartFails
    <3> QED
      BY <1>4, <3>1, <3>2, <3>3 DEF Backend, TakeSend, TakeAnswer, TakeStop, Asked, Is
  <2>4. \A l \in Calls : l # k => ~Is(l, "start")' /\ calls'[l].session # s
    BY <2>0, <2>2 DEF Is
  <2>5. \A x \in Sessions : harness[x].process = "none" => x \notin register /\ harness[x].turns = 0 /\ waits[x] = {}
    BY DEF StartInv
  <2>6. \A x \in Sessions : harness'[x].process = "none" => x \notin register' /\ harness'[x].turns = 0 /\ waits'[x] = {}
    BY <2>0, <2>1, <2>3, <2>5
  <2> HIDE DEF s
  <2>7. \A l \in Calls : Is(l, "start")' => l = k
    BY <2>4
  <2>8. panel'.session = Null /\ panel'.starting
    BY <1>2, <2>0, <2>1, <2>2
  <2>11. /\ calls'[k].ok # TRUE => calls'[k].session \notin register'
        /\ harness'[calls'[k].session].turns = 0 /\ waits'[calls'[k].session] = {}
        /\ \A l \in Calls : Is(l, "start")' \/ calls'[l].session = calls'[k].session => l = k
    BY <2>0, <2>1, <2>2, <2>3, <2>4
  <2> QED
    BY <2>6, <2>7, <2>8, <2>11 DEF StartInv, Is
<1>5. CASE ~Is(k, "start")
  <2>1. TakeSend(k) \/ TakeAnswer(k) \/ TakeStop(k)
    BY <1>5 DEF Backend, Spawn, Register, StartFails, Asked, Is
  <2>2. PICK ok : Reply(k, ok)
    BY <2>1 DEF TakeSend, TakeAnswer, TakeStop
  <2>3. /\ calls'[k].op = calls[k].op /\ calls'[k].session = s
        /\ \A l \in Calls : l # k => calls'[l] = calls[l]
    BY <1>3, <2>2
  <2>4. \A l \in Calls : calls'[l].op = "start" => calls'[l] = calls[l]
    BY <1>5, <2>3 DEF Is
  <2>5. \A j, l \in Calls : Is(j, "start") /\ l # j => calls'[l].session # calls[j].session
    <3>1. \A j, l \in Calls : Is(j, "start") /\ l # j => calls[l].session # calls[j].session
      BY DEF StartInv
    <3>2. \A l \in Calls : calls'[l].session = calls[l].session
      BY <2>3
    <3> QED
      BY <3>1, <3>2
  <2>6. register' \subseteq register
    BY <2>1 DEF TakeSend, TakeAnswer, TakeStop
  <2>7. \A x \in Sessions : x # s \/ harness[x].process # "alive" => harness'[x] = harness[x]
    BY <1>1, <2>1 DEF TakeSend, TakeAnswer, TakeStop, TypeOK
  <2>8. \A x \in Sessions : harness'[x].process = harness[x].process
    <3>1. harness[s] \in Harness /\ harness \in [Sessions -> Harness]
      BY <1>1 DEF TypeOK
    <3>2. harness' = harness \/ harness' = [harness EXCEPT ![s].turns = @ + 1]
      BY <2>1 DEF TakeSend, TakeAnswer, TakeStop
    <3>3. \A n : [harness[s] EXCEPT !.turns = n].process = harness[s].process
      BY <3>1 DEF Harness
    <3>4. \/ harness' = harness
          \/ \E n : harness' = [harness EXCEPT ![s] = [harness[s] EXCEPT !.turns = n]]
      BY <3>2
    <3>5. CASE harness' = harness
      BY <3>5
    <3>6. ASSUME NEW n, harness' = [harness EXCEPT ![s] = [harness[s] EXCEPT !.turns = n]]
          PROVE  \A x \in Sessions : harness'[x].process = harness[x].process
      <4> DEFINE h == [harness[s] EXCEPT !.turns = n]
      <4>1. h.process = harness[s].process
        BY <3>3
      <4> HIDE DEF h
      <4>2. harness' = [harness EXCEPT ![s] = h]
        BY <3>6 DEF h
      <4> QED
        BY <3>1, <4>1, <4>2
    <3> QED
      BY <3>4, <3>5, <3>6
  <2>9. \A x \in Sessions : waits'[x] \subseteq waits[x] /\ (x # s => waits'[x] = waits[x])
    <3>1. waits' = waits \/ waits' = [waits EXCEPT ![s] = waits[s] \ {calls[k].prompt}]
      BY <2>1 DEF TakeSend, TakeAnswer, TakeStop
    <3>2. \E W : waits \in [Sessions -> W]
      BY <1>1 DEF TypeOK
    <3> QED
      BY <3>1, <3>2
  <2>10. \A j \in Calls : Is(j, "start") => calls[j].session # s
    BY <1>5 DEF StartInv
  <2>11. \A x \in Sessions : harness[x].process = "none" => waits[x] = {}
    BY DEF StartInv
  <2> HIDE DEF s
  <2>12. \A x \in Sessions : harness[x].process = "none" => harness'[x] = harness[x] /\ waits'[x] = waits[x]
    BY <2>7, <2>9, <2>11
  <2>13. \A x \in Sessions : harness[x].turns = 0 /\ waits[x] = {} /\ (\E j \in Calls : Is(j, "start") /\ calls[j].session = x)
                               => harness'[x].turns = 0 /\ waits'[x] = {}
    BY <2>7, <2>9, <2>10
  <2> QED
    BY <1>2, <2>4, <2>5, <2>6, <2>8, <2>12, <2>13, StartKept
<1> QED
  BY <1>4, <1>5

LEMMA AgentStart == ASSUME TypeOK, StartInv, NEW s \in Sessions, Agent(s) PROVE StartInv'
<1>1. calls' = calls /\ panel' = panel /\ register' = register /\ harness[s].process = "alive"
  BY DEF Agent, NoTools, AskPermission, TurnEnds, ProcessEnds, Alive
<1>2. \A x \in Sessions : x # s => harness'[x] = harness[x] /\ waits'[x] = waits[x]
  BY DEF Agent, NoTools, AskPermission, TurnEnds, ProcessEnds, TypeOK
<1>3. harness'[s].process \in {"alive", "dead"}
  BY <1>1 DEF Agent, NoTools, AskPermission, TurnEnds, ProcessEnds, TypeOK, Harness
<1>4. harness[s].turns = 0 /\ waits[s] = {} => harness'[s].turns = 0 /\ waits'[s] = {}
  <2>1. ASSUME AskPermission(s) \/ TurnEnds(s) PROVE harness[s].turns # 0
    BY <2>1 DEF AskPermission, TurnEnds
  <2>2. ASSUME NoTools(s) PROVE harness' = harness /\ waits' = waits
    BY <2>2 DEF NoTools
  <2>3. ASSUME ProcessEnds(s) PROVE harness'[s].turns = 0 /\ (waits'[s] = waits[s] \/ waits'[s] = {})
    BY <2>3 DEF ProcessEnds, TypeOK, Harness
  <2> QED
    BY <2>1, <2>2, <2>3 DEF Agent
<1>5. \A k, l \in Calls : Is(k, "start") /\ l # k => calls'[l].session # calls[k].session
  BY <1>1 DEF StartInv
<1> QED
  BY <1>1, <1>2, <1>3, <1>4, <1>5, StartKept

LEMMA ReturnStart == ASSUME TypeOK, StartInv, NEW k \in Calls, Return(k) PROVE StartInv'
<1>1. PICK op : op \in {"start", "send", "stop", "answer"} /\ Returned(k, op)
  BY DEF Return, started, sendReturned, stopped, answerReturned
<1>2. calls[k].op # "none" /\ calls'[k] = Idle /\ \A l \in Calls : l # k => calls'[l] = calls[l]
  BY <1>1, ReturnedCalls
<1>3. UNCHANGED <<harness, register, waits>>
  BY DEF Return, started, sendReturned, stopped, answerReturned, backend
<1>4. \A l \in Calls : calls'[l].op = "start" => calls'[l] = calls[l]
  BY <1>2, IdleIs
<1>5. \A j, l \in Calls : Is(j, "start") /\ l # j => calls'[l].session # calls[j].session
  <2>1. \A j \in Calls : Is(j, "start") => calls[j].session # Null
    BY CallShape, SessionsAssumption DEF Is
  <2>2. \A j, l \in Calls : Is(j, "start") /\ l # j => calls[l].session # calls[j].session
    BY DEF StartInv
  <2>3. calls'[k].session = Null
    BY <1>2, IdleIs
  <2> QED
    BY <1>2, <2>1, <2>2, <2>3
<1>6. CASE Is(k, "start")
  <2>1. \A l \in Calls : ~Is(l, "start")'
    BY <1>2, <1>6, IdleIs DEF StartInv, Is
  <2> QED
    BY <1>3, <2>1 DEF StartInv
<1>7. CASE ~Is(k, "start")
  <2>1. ~started(k)
    BY <1>7 DEF started, Returned, Is
  <2>2. \/ panel'.session = panel.session /\ panel'.starting = panel.starting
        \/ panel'.session = Null /\ panel'.starting = panel.starting
    BY <2>1 DEF Return, sendReturned, stopped, answerReturned, TypeOK, Panel
  <2>3. (\E j \in Calls : Is(j, "start")) => panel'.session = panel.session /\ panel'.starting = panel.starting
    BY <2>2 DEF StartInv
  <2> QED
    BY <1>3, <1>4, <1>5, <2>3, StartKept
<1> QED
  BY <1>6, <1>7

(* What an event changes. *)
LEMMA Received ==
  ASSUME TypeOK, NEW s \in Sessions, Arrive(s)
  PROVE  /\ calls' = calls /\ harness' = harness /\ register' = register /\ waits' = waits
         /\ panel'.session = panel.session /\ panel'.starting = panel.starting
<1>1. \A e : receive(s, e) => panel'.session = panel.session /\ panel'.starting = panel.starting
  BY DEF receive, TypeOK, Panel
<1> QED
  BY <1>1 DEF Arrive, StreamArrives, DirectArrives

LEMMA StartStep == ASSUME TypeOK, StartInv, [Next]_vars PROVE StartInv'
<1>1. ASSUME NEW s \in Sessions, Arrive(s) PROVE StartInv'
  <2>1. /\ calls' = calls /\ harness' = harness /\ register' = register /\ waits' = waits
        /\ panel'.session = panel.session /\ panel'.starting = panel.starting
    BY <1>1, Received
  <2> QED
    BY <2>1 DEF StartInv, Is
<1>2. CASE UNCHANGED vars
  BY <1>2 DEF vars, StartInv, Is
<1> QED
  BY <1>1, <1>2, UserStart, BackendStart, ReturnStart, AgentStart DEF Next
-----------------------------------------------------------------------------
(* Sessions that end.  Steps that start and end nothing. *)
LEMMA StopKept ==
  ASSUME StopInv,
         \A k \in Calls : calls'[k].op = "stop" => calls'[k] = calls[k],
         \A k \in Calls : Is(k, "start") \/ Is(k, "stop")
           => calls'[k].op = calls[k].op /\ calls'[k].session = calls[k].session,
         register' = register, panel'.session = panel.session
  PROVE  StopInv'
<1>1. ASSUME NEW k \in Calls, Is(k, "stop")'
      PROVE  /\ calls'[k].session = panel'.session
             /\ calls'[k].ok # Null => calls'[k].session \notin register'
             /\ \A l \in Calls : Is(l, "stop")' => l = k
  <2>1. \A l \in Calls : Is(l, "stop")' => Is(l, "stop") /\ calls'[l] = calls[l]
    BY DEF Is
  <2> QED
    BY <1>1, <2>1 DEF StopInv
<1>2. \A s, op : op \in {"start", "stop"} /\ Under(op, s) => Under(op, s)'
  BY DEF Under, Is
<1>3. NoHarnessLeft'
  BY <1>2 DEF StopInv, NoHarnessLeft
<1> QED
  BY <1>1, <1>3 DEF StopInv

LEMMA UserStop == ASSUME TypeOK, StopInv, ~Overlaps, NEW k \in Calls, User(k) PROVE StopInv'
<1>1. ASSUME NEW op \in {"start", "send", "answer"}, NEW s, NEW p, Asks(k, op, s, p),
             panel'.session = panel.session, register' = register
      PROVE  StopInv'
  <2>1. /\ calls[k] = Idle /\ calls'[k] = [op |-> op, session |-> s, prompt |-> p, ok |-> Null]
        /\ \A l \in Calls : l # k => calls'[l] = calls[l]
    BY <1>1, AsksCalls
  <2>2. calls[k].op = "none" /\ calls'[k].op = op
    BY <2>1, IdleIs
  <2> QED
    BY <1>1, <2>1, <2>2, StopKept DEF Is
<1>2. CASE start(k)
  <2>1. panel'.session = panel.session /\ register' = register
    BY <1>2 DEF start, backend, TypeOK, Panel
  <2> QED
    BY <1>1, <1>2, <2>1 DEF start
<1>3. CASE send(k)
  <2>1. panel'.session = panel.session /\ register' = register
    BY <1>3 DEF send, backend, TypeOK, Panel
  <2> QED
    BY <1>1, <1>3, <2>1 DEF send
<1>4. CASE stop(k)
  <2> DEFINE s == panel.session
  <2>1. Asks(k, "stop", s, Null) /\ ~Under("stop", s) /\ panel' = panel /\ register' = register
    BY <1>4 DEF stop, backend
  <2>2. \A l \in Calls : ~Is(l, "stop")
    BY <2>1 DEF Under, StopInv, Is
  <2>3. /\ calls[k] = Idle /\ calls'[k] = [op |-> "stop", session |-> s, prompt |-> Null, ok |-> Null]
        /\ \A l \in Calls : l # k => calls'[l] = calls[l]
    BY <2>1, AsksCalls
  <2>4. calls[k].op = "none" /\ calls'[k].ok = Null /\ calls'[k].session = s
    BY <2>3, IdleIs
  <2>5. \A x, op : op \in {"start", "stop"} /\ Under(op, x) => Under(op, x)'
    BY <2>3, <2>4 DEF Under
  <2>6. NoHarnessLeft'
    BY <2>1, <2>5 DEF StopInv, NoHarnessLeft
  <2>7. \A l \in Calls : Is(l, "stop")' => l = k
    BY <2>2, <2>3 DEF Is
  <2> QED
    BY <2>1, <2>4, <2>6, <2>7 DEF StopInv
<1>5. CASE answer(k)
  <2>1. panel' = panel /\ register' = register
    BY <1>5 DEF answer, backend
  <2>2. CASE panel.session = Null
    <3>1. calls' = calls
      BY <1>5, <2>2 DEF answer
    <3> QED
      BY <2>1, <3>1, StopKept
  <2>3. CASE panel.session # Null
    BY <1>1, <1>5, <2>1, <2>3 DEF answer
  <2> QED
    BY <2>2, <2>3
<1> QED
  BY <1>2, <1>3, <1>4, <1>5 DEF User

LEMMA BackendStop == ASSUME TypeOK, StartInv, StopInv, NEW k \in Calls, Backend(k) PROVE StopInv'
<1> DEFINE s == calls[k].session
<1>1. calls[k].op # "none" /\ s \in Sessions
  BY CallShape DEF Backend, Spawn, Register, StartFails, TakeSend, TakeAnswer, TakeStop, Asked
<1>2. panel' = panel
  BY DEF Backend, Spawn, Register, StartFails, TakeSend, TakeAnswer, TakeStop
<1>3. ASSUME NEW ok, Reply(k, ok)
      PROVE  /\ calls'[k].op = calls[k].op /\ calls'[k].session = s /\ calls'[k].ok = ok
             /\ \A l \in Calls : l # k => calls'[l] = calls[l]
  BY <1>1, <1>3, ReplyCalls
<1>4. ASSUME NEW ok, Reply(k, ok), ~Is(k, "stop"), register' = register PROVE StopInv'
  BY <1>2, <1>3, <1>4, StopKept DEF Is
<1>5. CASE Spawn(k)
  BY <1>5, <1>2, StopKept DEF Spawn
<1>6. CASE StartFails(k) \/ TakeSend(k) \/ TakeAnswer(k)
  BY <1>4, <1>6 DEF StartFails, TakeSend, TakeAnswer, Asked, Is
<1>7. CASE Register(k)
  <2>1. Reply(k, TRUE) /\ register' = register \cup {s} /\ Is(k, "start")
    BY <1>7 DEF Register, Asked, Is
  <2>2. /\ calls'[k].op = "start" /\ calls'[k].session = s
        /\ \A l \in Calls : l # k => calls'[l] = calls[l]
    BY <1>3, <2>1 DEF Is
  <2>3. \A l \in Calls : Is(l, "stop")' => Is(l, "stop") /\ calls'[l] = calls[l] /\ l # k
    BY <2>2 DEF Is
  <2>4. \A l \in Calls : l # k => calls[l].session # s
    BY <2>1 DEF StartInv
  <2>5. \A x, op : op \in {"start", "stop"} /\ Under(op, x) => Under(op, x)'
    BY <2>1, <2>2 DEF Under, Is
  <2>6. \A x : x = s => Under("start", x)'
    BY <2>2 DEF Under
  <2>7. \A x \in register : x = panel.session \/ Under("start", x) \/ Under("stop", x)
    BY DEF StopInv, NoHarnessLeft
  <2> HIDE DEF s
  <2>8. NoHarnessLeft'
    BY <1>2, <2>1, <2>5, <2>6, <2>7 DEF NoHarnessLeft
  <2>9. ASSUME NEW l \in Calls, Is(l, "stop")'
        PROVE  /\ calls'[l].session = panel'.session
               /\ calls'[l].ok # Null => calls'[l].session \notin register'
               /\ \A m \in Calls : Is(m, "stop")' => m = l
    BY <1>2, <2>1, <2>3, <2>4, <2>9 DEF StopInv
  <2> QED
    BY <2>8, <2>9 DEF StopInv
<1>8. CASE TakeStop(k)
  <2>1. Reply(k, TRUE) /\ register' = register \ {s} /\ Is(k, "stop")
    BY <1>8 DEF TakeStop, Asked, Is
  <2>2. /\ calls'[k].op = "stop" /\ calls'[k].session = s
        /\ \A l \in Calls : l # k => calls'[l] = calls[l]
    BY <1>3, <2>1 DEF Is
  <2>3. \A l \in Calls : Is(l, "stop") => l = k
    BY <2>1 DEF StopInv
  <2>4. \A l \in Calls : Is(l, "stop")' => l = k
    BY <2>2, <2>3 DEF Is
  <2>5. \A x, op : op \in {"start", "stop"} /\ Under(op, x) => Under(op, x)'
    BY <2>1, <2>2 DEF Under, Is
  <2>6. s = panel.session
    BY <2>1 DEF StopInv
  <2>7. \A x \in register : x = panel.session \/ Under("start", x) \/ Under("stop", x)
    BY DEF StopInv, NoHarnessLeft
  <2> HIDE DEF s
  <2>8. NoHarnessLeft'
    BY <1>2, <2>1, <2>5, <2>7 DEF NoHarnessLeft
  <2> QED
    BY <1>2, <2>1, <2>2, <2>4, <2>6, <2>8 DEF StopInv
<1> QED
  BY <1>5, <1>6, <1>7, <1>8 DEF Backend

LEMMA ReturnStop == ASSUME TypeOK, StartInv, StopInv, NEW k \in Calls, Return(k) PROVE StopInv'
<1>1. PICK op : op \in {"start", "send", "stop", "answer"} /\ Returned(k, op)
  BY DEF Return, started, sendReturned, stopped, answerReturned
<1>2. /\ calls[k].op # "none" /\ calls[k].ok # Null /\ calls'[k] = Idle
      /\ \A l \in Calls : l # k => calls'[l] = calls[l]
  BY <1>1, ReturnedCalls
<1>3. register' = register
  BY DEF Return, started, sendReturned, stopped, answerReturned, backend
<1>4. \A l \in Calls, o \in {"start", "stop"} : Is(l, o)' => Is(l, o) /\ l # k /\ calls'[l] = calls[l]
  BY <1>2, IdleIs DEF Is
<1>5. \A l \in Calls : calls[l].op # "none" => calls[l].session \in Sessions
  BY CallShape
<1>6. \A x \in register : x = panel.session \/ Under("start", x) \/ Under("stop", x)
  BY DEF StopInv, NoHarnessLeft
<1>7. register \subseteq Sessions
  BY DEF TypeOK
<1>8. CASE started(k)
  <2>1. Is(k, "start")
    BY <1>8 DEF started, Returned, Is
  <2>2. panel.session = Null /\ (calls[k].ok # TRUE => calls[k].session \notin register)
        /\ \A l \in Calls : Is(l, "start") => l = k
    BY <2>1 DEF StartInv
  <2>3. \A l \in Calls : ~Is(l, "stop")
    BY <1>5, <2>2, SessionsAssumption DEF StopInv, Is
  <2>4. \A x \in register : x = calls[k].session
    BY <1>6, <1>7, <2>2, <2>3, SessionsAssumption DEF Under, Is
  <2>5. \A l \in Calls : ~Is(l, "stop")'
    BY <1>4, <2>3
  <2>6. calls[k].ok \in {TRUE, FALSE}
    BY <1>2, CallShape DEF Call
  <2>7. CASE calls[k].ok = TRUE
    <3>1. panel'.session = calls[k].session
      BY <1>8, <2>7 DEF started
    <3> QED
      BY <1>3, <2>4, <2>5, <3>1 DEF StopInv, NoHarnessLeft
  <2>8. CASE calls[k].ok = FALSE
    <3>1. register = {}
      BY <2>2, <2>4, <2>8
    <3> QED
      BY <1>3, <2>5, <3>1 DEF StopInv, NoHarnessLeft
  <2> QED
    BY <2>6, <2>7, <2>8
<1>9. CASE sendReturned(k) \/ answerReturned(k)
  <2>1. panel'.session = panel.session /\ ~Is(k, "start") /\ ~Is(k, "stop")
    BY <1>9 DEF sendReturned, answerReturned, Returned, Is, TypeOK, Panel
  <2>2. \A l \in Calls : calls'[l].op = "stop" => calls'[l] = calls[l]
    BY <1>4 DEF Is
  <2>3. \A l \in Calls : Is(l, "start") \/ Is(l, "stop") => calls'[l] = calls[l]
    BY <1>2, <2>1
  <2> QED
    BY <1>3, <2>1, <2>2, <2>3, StopKept
<1>10. CASE stopped(k)
  <2>1. Is(k, "stop") /\ panel'.session = Null
    BY <1>10 DEF stopped, Returned, Is, TypeOK, Panel
  <2>2. /\ calls[k].session = panel.session /\ calls[k].session \notin register
        /\ \A l \in Calls : Is(l, "stop") => l = k
    BY <1>2, <2>1 DEF StopInv
  <2>3. \A l \in Calls : ~Is(l, "stop")'
    BY <1>4, <2>2
  <2>4. \A x \in register : Under("start", x)
    BY <1>6, <2>1, <2>2 DEF Under, Is
  <2>5. \A x : Under("start", x) => Under("start", x)'
    BY <1>2, <2>1 DEF Under, Is
  <2> QED
    BY <1>3, <2>3, <2>4, <2>5 DEF StopInv, NoHarnessLeft
<1> QED
  BY <1>8, <1>9, <1>10 DEF Return

LEMMA StopStep == ASSUME TypeOK, StartInv, StopInv, ~Overlaps, [Next]_vars PROVE StopInv'
<1>1. ASSUME NEW s \in Sessions, Arrive(s) PROVE StopInv'
  BY <1>1, Received, StopKept
<1>2. ASSUME NEW s \in Sessions, Agent(s) PROVE StopInv'
  <2>1. calls' = calls /\ panel' = panel /\ register' = register
    BY <1>2 DEF Agent, NoTools, AskPermission, TurnEnds, ProcessEnds
  <2> QED
    BY <2>1, StopKept
<1>3. CASE UNCHANGED vars
  BY <1>3, StopKept DEF vars
<1> QED
  BY <1>1, <1>2, <1>3, UserStop, BackendStop, ReturnStop DEF Next
-----------------------------------------------------------------------------
(* The transcript is of the panel's session. *)
LEMMA TranscriptStep == ASSUME TypeOK, OneTranscript, StartInv, [Next]_vars PROVE OneTranscript'
<1>1. ASSUME NEW k \in Calls, User(k) PROVE OneTranscript'
  <2>1. CASE start(k) \/ stop(k)
    <3>1. panel'.session = panel.session /\ shown' = shown
      BY <2>1 DEF start, stop, TypeOK, Panel
    <3> QED
      BY <3>1 DEF OneTranscript
  <2>2. CASE send(k)
    <3>1. panel'.session = panel.session /\ shown'.of = shown.of \cup {panel.session}
      BY <2>2 DEF send, TypeOK, Panel, Transcript
    <3> QED
      BY <3>1 DEF OneTranscript
  <2>3. CASE answer(k)
    <3>1. panel' = panel /\ shown'.of = shown.of
      BY <2>3 DEF answer, answerPermission, TypeOK, Transcript
    <3> QED
      BY <3>1 DEF OneTranscript
  <2> QED
    BY <1>1, <2>1, <2>2, <2>3 DEF User
<1>2. ASSUME NEW k \in Calls, Backend(k) PROVE OneTranscript'
  BY <1>2 DEF Backend, Spawn, Register, StartFails, TakeSend, TakeAnswer, TakeStop, OneTranscript
<1>3. ASSUME NEW s \in Sessions, Agent(s) PROVE OneTranscript'
  BY <1>3 DEF Agent, NoTools, AskPermission, TurnEnds, ProcessEnds, OneTranscript
<1>4. ASSUME NEW s \in Sessions, Arrive(s) PROVE OneTranscript'
  <2>1. PICK e : receive(s, e)
    BY <1>4 DEF Arrive, StreamArrives, DirectArrives
  <2>2. panel'.session = panel.session
    BY <1>4, Received
  <2>3. shown'.of = IF s = panel.session THEN shown.of \cup {s} ELSE shown.of
    BY <2>1 DEF receive, applyEvent, TypeOK, Transcript
  <2> QED
    BY <2>2, <2>3 DEF OneTranscript
<1>5. ASSUME NEW k \in Calls, Return(k) PROVE OneTranscript'
  <2>1. CASE started(k)
    <3>1. panel.session = Null
      BY <2>1 DEF started, Returned, StartInv, Is
    <3>2. \/ shown' = Blank
          \/ panel'.session = Null
      BY <2>1, <3>1 DEF started, TypeOK, Panel
    <3> QED
      BY <3>2 DEF OneTranscript, Blank
  <2>2. CASE sendReturned(k) \/ answerReturned(k)
    <3>1. panel'.session = panel.session /\ shown' = shown
      BY <2>2 DEF sendReturned, answerReturned, TypeOK, Panel
    <3> QED
      BY <3>1 DEF OneTranscript
  <2>3. CASE stopped(k)
    BY <2>3 DEF stopped, OneTranscript, TypeOK, Panel
  <2> QED
    BY <1>5, <2>1, <2>2, <2>3 DEF Return
<1>6. CASE UNCHANGED vars
  BY <1>6 DEF vars, OneTranscript
<1> QED
  BY <1>1, <1>2, <1>3, <1>4, <1>5, <1>6 DEF Next
-----------------------------------------------------------------------------
(* Queues: what is in one after an event was added, taken, or several were added. *)
LEMMA InAppend ==
  ASSUME NEW S, NEW q \in Seq(S), NEW x \in S, NEW e
  PROVE  In(Append(q, x), e) <=> In(q, e) \/ e = x
<1>1. /\ Append(q, x) \in Seq(S) /\ Len(Append(q, x)) = Len(q) + 1 /\ Append(q, x)[Len(q) + 1] = x
      /\ \A i \in 1..Len(q) : Append(q, x)[i] = q[i]
  OBVIOUS
<1>2. DOMAIN q = 1..Len(q) /\ DOMAIN Append(q, x) = 1..(Len(q) + 1) /\ Len(q) \in Nat
  BY <1>1
<1>3. \A i \in 1..(Len(q) + 1) : i \in 1..Len(q) \/ i = Len(q) + 1
  BY <1>2
<1>4. \A i \in 1..Len(q) : i \in 1..(Len(q) + 1)
  BY <1>2
<1>5. Len(q) + 1 \in 1..(Len(q) + 1)
  BY <1>2
<1> HIDE <1>2
<1> QED
  BY <1>1, <1>2, <1>3, <1>4, <1>5 DEF In

LEMMA InTail ==
  ASSUME NEW S, NEW q \in Seq(S), q # <<>>, NEW e
  PROVE  Head(q) \in S /\ (In(q, e) <=> In(Tail(q), e) \/ e = Head(q))
<1>1. /\ Tail(q) \in Seq(S) /\ Len(q) \in Nat /\ Len(q) > 0 /\ Len(Tail(q)) = Len(q) - 1
      /\ Head(q) = q[1] /\ \A i \in 1..(Len(q) - 1) : Tail(q)[i] = q[i + 1]
  OBVIOUS
<1>2. DOMAIN q = 1..Len(q) /\ DOMAIN Tail(q) = 1..(Len(q) - 1)
  BY <1>1
<1>3. \A i \in 1..Len(q) : i = 1 \/ (i - 1 \in 1..(Len(q) - 1) /\ (i - 1) + 1 = i)
  BY <1>1
<1>4. \A i \in 1..(Len(q) - 1) : i + 1 \in 1..Len(q)
  BY <1>1
<1>5. 1 \in 1..Len(q)
  BY <1>1
<1>6. ASSUME In(q, e) PROVE In(Tail(q), e) \/ e = Head(q)
  <2>1. PICK i \in 1..Len(q) : q[i] = e
    BY <1>2, <1>6 DEF In
  <2>2. CASE i = 1
    BY <1>1, <2>1, <2>2
  <2>3. CASE i - 1 \in 1..(Len(q) - 1) /\ (i - 1) + 1 = i
    <3>1. Tail(q)[i - 1] = q[(i - 1) + 1]
      BY <1>1, <2>3
    <3> QED
      BY <1>2, <2>1, <2>3, <3>1 DEF In
  <2> QED
    BY <1>3, <2>1, <2>2, <2>3
<1>7. ASSUME In(Tail(q), e) PROVE In(q, e)
  <2>1. PICK i \in 1..(Len(q) - 1) : Tail(q)[i] = e
    BY <1>2, <1>7 DEF In
  <2>2. q[i + 1] = e /\ i + 1 \in DOMAIN q
    BY <1>1, <1>2, <1>4, <2>1
  <2> QED
    BY <2>2 DEF In
<1>8. In(q, Head(q)) /\ Head(q) \in S
  BY <1>1, <1>2, <1>5 DEF In
<1> QED
  BY <1>6, <1>7, <1>8

LEMMA InConcat ==
  ASSUME NEW S, NEW q \in Seq(S), NEW r \in Seq(S), NEW e
  PROVE  In(q \o r, e) <=> In(q, e) \/ In(r, e)
<1>1. /\ q \o r \in Seq(S) /\ Len(q) \in Nat /\ Len(r) \in Nat /\ Len(q \o r) = Len(q) + Len(r)
      /\ \A i \in 1..(Len(q) + Len(r)) : (q \o r)[i] = IF i <= Len(q) THEN q[i] ELSE r[i - Len(q)]
  OBVIOUS
<1>2. DOMAIN q = 1..Len(q) /\ DOMAIN r = 1..Len(r) /\ DOMAIN (q \o r) = 1..(Len(q) + Len(r))
  BY <1>1
<1>3. \A i \in 1..Len(q) : i \in 1..(Len(q) + Len(r)) /\ (q \o r)[i] = q[i]
  BY <1>1
<1>4. \A i \in 1..Len(r) : Len(q) + i \in 1..(Len(q) + Len(r)) /\ (q \o r)[Len(q) + i] = r[i]
  <2>1. \A i \in 1..Len(r) : Len(q) + i \in 1..(Len(q) + Len(r)) /\ ~(Len(q) + i <= Len(q)) /\ (Len(q) + i) - Len(q) = i
    BY <1>1
  <2> QED
    BY <1>1, <2>1
<1>5. \A i \in 1..(Len(q) + Len(r)) :
        \/ i \in 1..Len(q) /\ (q \o r)[i] = q[i]
        \/ i - Len(q) \in 1..Len(r) /\ (q \o r)[i] = r[i - Len(q)]
  <2> TAKE i \in 1..(Len(q) + Len(r))
  <2>1. CASE i <= Len(q)
    <3>1. i \in 1..Len(q)
      BY <1>1, <2>1
    <3> QED
      BY <1>3, <3>1
  <2>2. CASE ~(i <= Len(q))
    <3>1. i - Len(q) \in 1..Len(r)
      BY <1>1, <2>2
    <3>2. (q \o r)[i] = r[i - Len(q)]
      BY <1>1, <2>2
    <3> QED
      BY <3>1, <3>2
  <2> QED
    BY <2>1, <2>2
<1> QED
  BY <1>2, <1>3, <1>4, <1>5 DEF In

LEMMA NotPrompts == "turnEnded" \notin Prompts /\ "failed" \notin Prompts
BY SessionsAssumption

(* What each party leaves alone. *)
LEMMA BackendCalls ==
  ASSUME TypeOK, NEW k \in Calls, Backend(k)
  PROVE  /\ calls[k].op # "none" /\ calls[k].session \in Sessions /\ calls[k].ok = Null
         /\ \A l \in Calls : /\ calls'[l].op = calls[l].op /\ calls'[l].session = calls[l].session
                             /\ calls'[l].prompt = calls[l].prompt
                             /\ l # k => calls'[l] = calls[l]
         /\ panel' = panel /\ shown' = shown /\ stream' = stream
<1>1. calls[k].op # "none" /\ calls[k].session \in Sessions /\ calls[k].ok = Null
  BY CallShape DEF Backend, Spawn, Register, StartFails, TakeSend, TakeAnswer, TakeStop, Asked
<1>2. panel' = panel /\ shown' = shown /\ stream' = stream
  BY DEF Backend, Spawn, Register, StartFails, TakeSend, TakeAnswer, TakeStop
<1>3. calls' = calls \/ \E ok : Reply(k, ok)
  BY DEF Backend, Spawn, Register, StartFails, TakeSend, TakeAnswer, TakeStop
<1> QED
  BY <1>1, <1>2, <1>3, ReplyCalls

LEMMA ReturnCalls ==
  ASSUME TypeOK, NEW k \in Calls, Return(k)
  PROVE  /\ calls[k].op # "none" /\ calls[k].ok # Null /\ calls'[k].op = "none"
         /\ \A l \in Calls : l # k => calls'[l] = calls[l]
         /\ UNCHANGED <<harness, register, waits, stream, direct>>
<1>1. PICK op : op \in {"start", "send", "stop", "answer"} /\ Returned(k, op)
  BY DEF Return, started, sendReturned, stopped, answerReturned
<1>2. UNCHANGED <<harness, register, waits, stream, direct>>
  BY DEF Return, started, sendReturned, stopped, answerReturned, backend
<1> QED
  BY <1>1, <1>2, ReturnedCalls, IdleIs

(* A user's action makes at most one call. *)
LEMMA UserCalls ==
  ASSUME TypeOK, NEW k \in Calls, User(k)
  PROVE  /\ UNCHANGED <<harness, register, waits, stream, direct>>
         /\ panel'.session = panel.session
         /\ \A l \in Calls : calls[l].op # "none" => calls'[l] = calls[l]
         /\ \A l \in Calls : l # k => calls'[l] = calls[l]
         /\ ~answer(k) => shown'.prompts = shown.prompts /\ calls'[k].op # "answer"
<1>1. UNCHANGED <<harness, register, waits, stream, direct>>
  BY DEF User, start, send, stop, answer, backend
<1>2. panel'.session = panel.session
  BY DEF User, start, send, stop, answer, TypeOK, Panel
<1>3. calls' = calls \/ \E op, s, p : Asks(k, op, s, p)
  BY DEF User, start, send, stop, answer
<1>4. \A l \in Calls : (calls[l].op # "none" \/ l # k) => calls'[l] = calls[l]
  BY <1>3, AsksCalls, IdleIs
<1>5. ASSUME ~answer(k) PROVE shown'.prompts = shown.prompts /\ calls'[k].op # "answer"
  <2>1. shown'.prompts = shown.prompts
    BY <1>5 DEF User, start, send, stop, TypeOK, Transcript
  <2>2. \E op \in {"start", "send", "stop"} : \E s : Asks(k, op, s, Null)
    BY <1>5 DEF User, start, send, stop
  <2>3. calls'[k].op # "answer"
    <3>0. PICK op \in {"start", "send", "stop"} : \E s : Asks(k, op, s, Null)
      BY <2>2
    <3>1. PICK s : Asks(k, op, s, Null)
      BY <3>0
    <3>2. calls'[k] = [op |-> op, session |-> s, prompt |-> Null, ok |-> Null]
      BY <3>1, AsksCalls
    <3> QED
      BY <3>2
  <2> QED
    BY <2>1, <2>3
<1> QED
  BY <1>1, <1>2, <1>4, <1>5

LEMMA AgentCalls ==
  ASSUME TypeOK, NEW s \in Sessions, Agent(s)
  PROVE  /\ panel' = panel /\ shown' = shown /\ calls' = calls /\ register' = register
         /\ \A x \in Sessions : x # s => harness'[x] = harness[x] /\ waits'[x] = waits[x] /\ stream'[x] = stream[x] /\ direct'[x] = direct[x]
         /\ \A e \in Prompts : In(stream'[s], e) <=> In(stream[s], e) \/ (AskPermission(s) /\ e \in waits'[s] /\ e \notin waits[s])
         /\ \A e : In(stream[s], e) => In(stream'[s], e)
         /\ \A e : In(direct[s], e) => In(direct'[s], e)
         /\ harness'[s].turns = harness[s].turns \/ Ended(stream'[s]) \/ Ended(direct'[s])
         /\ ~AskPermission(s) => waits'[s] \subseteq waits[s]
<1>1. panel' = panel /\ shown' = shown /\ calls' = calls /\ register' = register
  BY DEF Agent, NoTools, AskPermission, TurnEnds, ProcessEnds
<1>2. \A x \in Sessions : x # s => harness'[x] = harness[x] /\ waits'[x] = waits[x] /\ stream'[x] = stream[x] /\ direct'[x] = direct[x]
  BY DEF Agent, NoTools, AskPermission, TurnEnds, ProcessEnds, Emit, TypeOK
<1>3. stream[s] \in Seq(Event) /\ direct[s] \in Seq(Event) /\ "failed" \in Event /\ "turnEnded" \in Event /\ Prompts \subseteq Event
  BY DEF TypeOK, Event
<1>4. ASSUME NEW x \in Event, Emit(s, x)
      PROVE  \A e : In(stream'[s], e) <=> In(stream[s], e) \/ e = x
  <2>1. stream'[s] = Append(stream[s], x)
    BY <1>4 DEF Emit, TypeOK
  <2> QED
    BY <1>3, <2>1, InAppend
<1>5. CASE NoTools(s)
  <2>1. Emit(s, "failed") /\ harness' = harness /\ waits' = waits /\ direct' = direct
    BY <1>5 DEF NoTools
  <2>2. \A e : In(stream'[s], e) <=> In(stream[s], e) \/ e = "failed"
    BY <1>3, <1>4, <2>1
  <2> QED
    BY <1>1, <1>2, <2>1, <2>2, NotPrompts
<1>6. CASE AskPermission(s)
  <2>1. PICK p \in Prompts : /\ p \notin waits[s] /\ Emit(s, p) /\ waits' = [waits EXCEPT ![s] = @ \cup {p}]
                             /\ harness' = harness /\ direct' = direct
    BY <1>6 DEF AskPermission
  <2>2. \A e : In(stream'[s], e) <=> In(stream[s], e) \/ e = p
    BY <1>3, <1>4, <2>1
  <2>3. waits'[s] = waits[s] \cup {p}
    BY <2>1 DEF TypeOK
  <2> QED
    BY <1>1, <1>2, <1>6, <2>1, <2>2, <2>3
<1>7. CASE TurnEnds(s)
  <2>1. waits' = waits
    BY <1>7 DEF TurnEnds
  <2>2. CASE \E x \in {"turnEnded", "failed"} : direct' = [direct EXCEPT ![s] = Append(@, x)] /\ stream' = stream
    <3>1. PICK x \in {"turnEnded", "failed"} : direct' = [direct EXCEPT ![s] = Append(@, x)] /\ stream' = stream
      BY <2>2
    <3>2. direct'[s] = Append(direct[s], x) /\ x \in Event
      BY <1>3, <3>1 DEF TypeOK
    <3>3. \A e : In(direct'[s], e) <=> In(direct[s], e) \/ e = x
      BY <1>3, <3>2, InAppend
    <3>4. Ended(direct'[s])
      BY <3>3, <3>1 DEF Ended
    <3>5. ~AskPermission(s)
      <4>1. direct' # direct
        <5>1. Len(Append(direct[s], x)) # Len(direct[s])
          BY <1>3, <3>2
        <5> QED
          BY <3>2, <5>1
      <4> QED
        BY <4>1 DEF AskPermission
    <3> QED
      BY <1>1, <1>2, <2>1, <3>1, <3>3, <3>4, <3>5
  <2>3. CASE \E r \in {<<"turnEnded">>, <<"failed", "turnEnded">>} : stream' = [stream EXCEPT ![s] = @ \o r] /\ direct' = direct
    <3>1. PICK r \in {<<"turnEnded">>, <<"failed", "turnEnded">>} : stream' = [stream EXCEPT ![s] = @ \o r] /\ direct' = direct
      BY <2>3
    <3>2. <<"turnEnded">> \in Seq(Event) /\ <<"failed", "turnEnded">> \in Seq(Event)
      BY <1>3
    <3>3. r \in Seq(Event) /\ stream'[s] = stream[s] \o r
      BY <3>1, <3>2 DEF TypeOK
    <3>4. \A e : In(stream'[s], e) <=> In(stream[s], e) \/ In(r, e)
      BY <1>3, <3>3, InConcat
    <3>5. In(r, "turnEnded") /\ \A e : In(r, e) => e \in {"turnEnded", "failed"}
      <4>1. CASE r = <<"turnEnded">>
        <5>1. DOMAIN r = {1} /\ r[1] = "turnEnded"
          BY <4>1
        <5> QED
          BY <5>1 DEF In
      <4>2. CASE r = <<"failed", "turnEnded">>
        <5>1. DOMAIN r = {1, 2} /\ r[1] = "failed" /\ r[2] = "turnEnded"
          BY <4>2
        <5> QED
          BY <5>1 DEF In
      <4> QED
        BY <3>1, <4>1, <4>2
    <3>6. Ended(stream'[s])
      BY <3>4, <3>5 DEF Ended
    <3>7. \A e \in Prompts : ~In(r, e)
      BY <3>5, NotPrompts
    <3> QED
      BY <1>1, <1>2, <2>1, <3>1, <3>4, <3>6, <3>7
  <2> QED
    BY <1>7, <2>2, <2>3 DEF TurnEnds
<1>8. CASE ProcessEnds(s)
  <2>1. Emit(s, "failed") /\ (waits' = waits \/ waits' = [waits EXCEPT ![s] = {}])
    BY <1>8 DEF ProcessEnds
  <2>2. \A e : In(stream'[s], e) <=> In(stream[s], e) \/ e = "failed"
    BY <1>3, <1>4, <2>1
  <2>3. waits'[s] \subseteq waits[s]
    BY <2>1 DEF TypeOK
  <2>4. \A e : In(direct[s], e) => In(direct'[s], e)
    <3> DEFINE r == [i \in 1..harness[s].turns |-> "failed"]
    <3>1. r \in Seq(Event)
      <4>1. harness[s].turns \in Nat
        BY DEF TypeOK, Harness
      <4> QED
        BY <1>3, <4>1
    <3>2. direct' = direct \/ direct'[s] = direct[s] \o r
      BY <1>8 DEF ProcessEnds, TypeOK
    <3> HIDE DEF r
    <3>3. \A e : In(direct[s] \o r, e) <=> In(direct[s], e) \/ In(r, e)
      BY <1>3, <3>1, InConcat
    <3> QED
      BY <3>2, <3>3
  <2>5. Ended(stream'[s])
    BY <2>2 DEF Ended
  <2> QED
    BY <1>1, <1>2, <2>2, <2>3, <2>4, <2>5, NotPrompts
<1> QED
  BY <1>5, <1>6, <1>7, <1>8 DEF Agent

(* Events that arrive: one less on its way, and shown when it is of the panel's session. *)
LEMMA ArriveCalls ==
  ASSUME TypeOK, DirectInv, NEW s \in Sessions, Arrive(s)
  PROVE  /\ calls' = calls /\ harness' = harness /\ register' = register /\ waits' = waits
         /\ panel'.session = panel.session
         /\ \A x \in Sessions : x # s => stream'[x] = stream[x] /\ direct'[x] = direct[x]
         /\ s # panel.session => panel' = panel /\ shown' = shown
         /\ \A e : In(stream'[s], e) => In(stream[s], e)
         /\ \A p \in Prompts : /\ In(stream[s], p) => In(stream'[s], p) \/ s # panel.session \/ shown'.prompts[p] = "waiting"
                               /\ shown.prompts[p] = "waiting" => shown'.prompts[p] = "waiting"
                               /\ shown'.prompts[p] = "waiting" =>
                                    shown.prompts[p] = "waiting" \/ (s = panel.session /\ In(stream[s], p))
         /\ panel'.thinking => panel.thinking
         /\ s = panel.session /\ panel'.thinking =>
              (Ended(stream[s]) => Ended(stream'[s])) /\ (Ended(direct[s]) => Ended(direct'[s]))
<1>1. /\ calls' = calls /\ harness' = harness /\ register' = register /\ waits' = waits
      /\ panel'.session = panel.session
  BY Received
<1>2. stream[s] \in Seq(Event) /\ direct[s] \in Seq({"turnEnded", "failed"})
  BY DEF TypeOK, DirectInv
<1>3. ASSUME NEW e, receive(s, e), s = panel.session
      PROVE  /\ \A p \in Prompts : shown'.prompts[p] = IF p = e THEN "waiting" ELSE shown.prompts[p]
             /\ panel'.thinking => panel.thinking /\ e # "turnEnded" /\ e # "failed"
  <2>1. \A p \in Prompts : shown'.prompts[p] = IF p = e THEN "waiting" ELSE shown.prompts[p]
    <3>1. shown' = [shown EXCEPT !.of = @ \cup {s}, !.prompts = [p \in Prompts |-> IF p = e THEN "waiting" ELSE @[p]]]
      BY <1>3 DEF receive, applyEvent
    <3>2. shown \in Transcript
      BY DEF TypeOK
    <3>3. shown'.prompts = [p \in Prompts |-> IF p = e THEN "waiting" ELSE shown.prompts[p]]
      BY <3>1, <3>2 DEF Transcript
    <3> QED
      BY <3>3
  <2>2. panel'.thinking = (panel.thinking /\ ~Ending(e))
    BY <1>3 DEF receive, TypeOK, Panel
  <2> QED
    BY <2>1, <2>2 DEF Ending
<1>4. ASSUME NEW e, receive(s, e), s # panel.session PROVE panel' = panel /\ shown' = shown
  BY <1>4 DEF receive
<1>5. CASE StreamArrives(s)
  <2> DEFINE e == Head(stream[s])
  <2>1. /\ stream[s] # <<>> /\ receive(s, e) /\ direct' = direct
        /\ stream'[s] = Tail(stream[s]) /\ \A x \in Sessions : x # s => stream'[x] = stream[x]
    BY <1>5 DEF StreamArrives, TypeOK
  <2>2. \A x : In(stream[s], x) <=> In(stream'[s], x) \/ x = e
    BY <1>2, <2>1, InTail
  <2> HIDE DEF e
  <2>3. CASE s # panel.session
    BY <1>1, <1>4, <2>1, <2>2, <2>3
  <2>4. CASE s = panel.session
    <3>1. /\ \A p \in Prompts : shown'.prompts[p] = IF p = e THEN "waiting" ELSE shown.prompts[p]
          /\ panel'.thinking => panel.thinking /\ e # "turnEnded" /\ e # "failed"
      BY <1>3, <2>1, <2>4
    <3>2. panel'.thinking => (Ended(stream[s]) => Ended(stream'[s]))
      BY <2>2, <3>1 DEF Ended
    <3> QED
      BY <1>1, <2>1, <2>2, <2>4, <3>1, <3>2
  <2> QED
    BY <2>3, <2>4
<1>6. CASE DirectArrives(s)
  <2> DEFINE e == Head(direct[s])
  <2>1. /\ direct[s] # <<>> /\ receive(s, e) /\ stream' = stream
        /\ direct'[s] = Tail(direct[s]) /\ \A x \in Sessions : x # s => direct'[x] = direct[x]
    BY <1>6 DEF DirectArrives, TypeOK
  <2>2. e \in {"turnEnded", "failed"} /\ \A x : In(direct[s], x) <=> In(direct'[s], x) \/ x = e
    BY <1>2, <2>1, InTail
  <2>3. \A p \in Prompts : p # e
    BY <2>2, NotPrompts
  <2> HIDE DEF e
  <2>4. CASE s # panel.session
    BY <1>1, <1>4, <2>1, <2>4
  <2>5. CASE s = panel.session
    <3>1. /\ \A p \in Prompts : shown'.prompts[p] = IF p = e THEN "waiting" ELSE shown.prompts[p]
          /\ panel'.thinking => panel.thinking /\ e # "turnEnded" /\ e # "failed"
      BY <1>3, <2>1, <2>5
    <3> QED
      BY <1>1, <2>1, <2>2, <2>3, <2>5, <3>1
  <2> QED
    BY <2>4, <2>5
<1> QED
  BY <1>5, <1>6 DEF Arrive

LEMMA DirectStep == ASSUME TypeOK, DirectInv, [Next]_vars PROVE DirectInv'
<1> DEFINE E == {"turnEnded", "failed"}
<1>0. direct \in [Sessions -> Seq(Event)] /\ \A s \in Sessions : direct[s] \in Seq(E)
  BY DEF TypeOK, DirectInv
<1>1. ASSUME direct' = direct PROVE DirectInv'
  BY <1>1 DEF DirectInv
<1>2. ASSUME NEW s \in Sessions, NEW r \in Seq(E), direct' = [direct EXCEPT ![s] = r] PROVE DirectInv'
  BY <1>0, <1>2 DEF DirectInv
<1>3. ASSUME NEW s \in Sessions, NEW e \in E PROVE Append(direct[s], e) \in Seq(E)
  BY <1>0, <1>3
<1>4. ASSUME NEW k \in Calls, User(k) PROVE DirectInv'
  BY <1>1, <1>4, UserCalls
<1>5. ASSUME NEW k \in Calls, Return(k) PROVE DirectInv'
  BY <1>1, <1>5, ReturnCalls
<1>6. ASSUME NEW k \in Calls, Backend(k) PROVE DirectInv'
  <2>1. direct' = direct \/ direct' = [direct EXCEPT ![calls[k].session] = Append(@, "failed")]
    BY <1>6 DEF Backend, Spawn, Register, StartFails, TakeSend, TakeAnswer, TakeStop
  <2>2. calls[k].session \in Sessions
    BY <1>6, BackendCalls
  <2> QED
    BY <1>1, <1>2, <1>3, <2>1, <2>2
<1>7. ASSUME NEW s \in Sessions, Agent(s) PROVE DirectInv'
  <2>1. CASE NoTools(s) \/ AskPermission(s)
    BY <1>1, <2>1 DEF NoTools, AskPermission
  <2>2. CASE TurnEnds(s)
    <3>1. direct' = direct \/ \E e \in E : direct' = [direct EXCEPT ![s] = Append(@, e)]
      BY <2>2 DEF TurnEnds
    <3> QED
      BY <1>1, <1>2, <1>3, <3>1
  <2>3. CASE ProcessEnds(s)
    <3> DEFINE r == [i \in 1..harness[s].turns |-> "failed"]
    <3>1. r \in Seq(E)
      <4>1. harness[s].turns \in Nat
        BY DEF TypeOK, Harness
      <4> QED
        BY <4>1
    <3>2. direct' = direct \/ direct' = [direct EXCEPT ![s] = @ \o r]
      BY <2>3 DEF ProcessEnds
    <3> HIDE DEF r
    <3>3. direct[s] \o r \in Seq(E)
      BY <1>0, <3>1
    <3> QED
      BY <1>1, <1>2, <3>2, <3>3
  <2> QED
    BY <1>7, <2>1, <2>2, <2>3 DEF Agent
<1>8. ASSUME NEW s \in Sessions, Arrive(s) PROVE DirectInv'
  <2>1. direct' = direct \/ (direct[s] # <<>> /\ direct' = [direct EXCEPT ![s] = Tail(@)])
    BY <1>8 DEF Arrive, StreamArrives, DirectArrives
  <2>2. direct[s] # <<>> => Tail(direct[s]) \in Seq(E)
    BY <1>0
  <2> QED
    BY <1>1, <1>2, <2>1, <2>2
<1>9. CASE UNCHANGED vars
  BY <1>1, <1>9 DEF vars
<1> QED
  BY <1>4, <1>5, <1>6, <1>7, <1>8, <1>9 DEF Next
-----------------------------------------------------------------------------
(* The spinner. *)
LEMMA SpinnerStep == ASSUME TypeOK, DirectInv, StartInv, SpinnerInv, [Next]_vars PROVE SpinnerInv'
<1>0. panel.thinking => panel.session \in Sessions /\ Working(panel.session)
  BY DEF SpinnerInv, TypeOK, Panel
<1>1. ASSUME panel'.session = panel.session, panel'.thinking => panel.thinking,
             ASSUME NEW s \in Sessions, s = panel.session, panel'.thinking, Working(s)
             PROVE  Working(s)'
      PROVE  SpinnerInv'
  BY <1>0, <1>1 DEF SpinnerInv
<1>2. ASSUME NEW k \in Calls, User(k) PROVE SpinnerInv'
  <2>0. /\ UNCHANGED <<harness, stream, direct>> /\ panel'.session = panel.session
        /\ \A l \in Calls : calls[l].op # "none" => calls'[l] = calls[l]
    BY <1>2, UserCalls
  <2>1. CASE panel'.thinking = panel.thinking
    <3>1. ASSUME NEW s, Working(s) PROVE Working(s)'
      BY <2>0, <3>1 DEF Working, Is
    <3> QED
      BY <1>1, <2>0, <2>1, <3>1
  <2>2. CASE send(k)
    <3>1. panel.session # Null /\ Asks(k, "send", panel.session, Null)
      BY <2>2 DEF send
    <3>2. calls'[k].op = "send" /\ calls'[k].session = panel.session /\ calls'[k].ok # TRUE
      <4>1. calls'[k] = [op |-> "send", session |-> panel.session, prompt |-> Null, ok |-> Null]
        BY <3>1, AsksCalls
      <4>2. Null # TRUE
        BY SessionsAssumption
      <4>3. calls'[k].op = "send" /\ calls'[k].session = panel.session /\ calls'[k].ok = Null
        BY <4>1
      <4> QED
        BY <4>2, <4>3, Zenon
    <3> QED
      BY <2>0, <3>1, <3>2 DEF SpinnerInv, Working, Is
  <2> QED
    BY <1>2, <2>1, <2>2 DEF User, start, stop, answer, TypeOK, Panel
<1>3. ASSUME NEW k \in Calls, Backend(k) PROVE SpinnerInv'
  <2>0. /\ calls[k].session \in Sessions /\ panel' = panel /\ stream' = stream /\ calls[k].ok = Null
        /\ \A l \in Calls : /\ calls'[l].op = calls[l].op /\ calls'[l].session = calls[l].session
                            /\ l # k => calls'[l] = calls[l]
    BY <1>3, BackendCalls
  <2>1. ASSUME NEW s \in Sessions, Working(s), ~Is(k, "send"), harness'[s].turns = harness[s].turns, direct' = direct PROVE Working(s)'
    BY <2>0, <2>1 DEF Working, Is
  <2>2. CASE ~TakeSend(k)
    <3>1. direct' = direct /\ ~Is(k, "send")
      BY <1>3, <2>2 DEF Backend, Spawn, Register, StartFails, TakeAnswer, TakeStop, Asked, Is
    <3>2. harness' = harness \/ \E x : harness' = [harness EXCEPT ![calls[k].session].process = x]
      BY <1>3, <2>2 DEF Backend, Spawn, Register, StartFails, TakeAnswer, TakeStop
    <3>3. \A s \in Sessions : harness[s] \in Harness
      BY DEF TypeOK
    <3>4. \A s \in Sessions : \A x : [harness[s] EXCEPT !.process = x].turns = harness[s].turns
      BY <3>3 DEF Harness
    <3>5. \A s \in Sessions : harness'[s] = harness[s] \/ \E x : harness'[s] = [harness[s] EXCEPT !.process = x]
      <4>1. CASE harness' = harness
        BY <4>1
      <4>2. CASE \E x : harness' = [harness EXCEPT ![calls[k].session].process = x]
        <5>1. PICK x : harness' = [harness EXCEPT ![calls[k].session].process = x]
          BY <4>2
        <5> QED
          BY <2>0, <5>1 DEF TypeOK
      <4> QED
        BY <3>2, <4>1, <4>2
    <3>6. ASSUME NEW s \in Sessions PROVE harness'[s].turns = harness[s].turns
      <4>1. CASE harness'[s] = harness[s]
        BY <4>1
      <4>2. CASE \E x : harness'[s] = [harness[s] EXCEPT !.process = x]
        <5>1. PICK x : harness'[s] = [harness[s] EXCEPT !.process = x]
          BY <4>2
        <5> QED
          BY <3>4, <5>1
      <4> QED
        BY <3>5, <4>1, <4>2
    <3> QED
      BY <1>1, <2>0, <2>1, <3>1, <3>6
  <2>3. CASE TakeSend(k)
    <3>0. PICK s \in Sessions : s = calls[k].session
      BY <2>0
    <3>1. /\ Is(k, "send") /\ Reply(k, s \in register) /\ harness[s] \in Harness
          /\ IF s \in register /\ harness[s].process = "alive" THEN harness' = [harness EXCEPT ![s].turns = @ + 1] ELSE harness' = harness
          /\ direct' = IF s \in register /\ harness[s].process = "dead" THEN [direct EXCEPT ![s] = Append(@, "failed")] ELSE direct
      BY <2>3, <3>0 DEF TakeSend, Asked, Is, TypeOK
    <3>2. calls'[k].op = "send" /\ calls'[k].session = s /\ calls'[k].ok = (s \in register)
      BY <2>0, <3>0, <3>1, ReplyCalls DEF Is
    <3>3. Working(s)'
      <4>1. CASE s \notin register
        BY <2>0, <3>2, <4>1 DEF Working, Is
      <4>2. CASE s \in register /\ harness[s].process = "alive"
        <5>1. harness'[s] = [harness[s] EXCEPT !.turns = @ + 1]
          BY <2>0, <3>1, <4>2 DEF TypeOK
        <5>2. harness'[s].turns = harness[s].turns + 1
          BY <3>1, <5>1 DEF Harness
        <5>3. harness[s].turns + 1 > 0
          BY <3>1 DEF Harness
        <5> QED
          BY <5>2, <5>3 DEF Working
      <4>3. CASE s \in register /\ harness[s].process = "dead"
        <5>1. direct'[s] = Append(direct[s], "failed") /\ direct[s] \in Seq(Event) /\ "failed" \in Event
          BY <2>0, <3>1, <4>3 DEF TypeOK, Event
        <5>2. Ended(direct'[s])
          BY <5>1, InAppend DEF Ended
        <5> QED
          BY <5>2 DEF Working
      <4>4. harness[s].process # "none" \/ s \notin register
        BY DEF StartInv
      <4> QED
        BY <3>1, <4>1, <4>2, <4>3, <4>4 DEF Harness
    <3>4. \A x \in Sessions : x # s => harness'[x] = harness[x] /\ direct'[x] = direct[x]
      BY <2>0, <3>1 DEF TypeOK
    <3>5. ASSUME NEW x \in Sessions, x # s, Working(x) PROVE Working(x)'
      BY <2>0, <3>0, <3>2, <3>4, <3>5 DEF Working, Is
    <3>6. ASSUME NEW x \in Sessions, Working(x) PROVE Working(x)'
      <4>1. CASE x = s
        BY <3>3, <4>1 DEF Working
      <4> QED
        BY <3>5, <3>6, <4>1
    <3> QED
      BY <1>1, <2>0, <3>6
  <2> QED
    BY <2>2, <2>3
<1>4. ASSUME NEW k \in Calls, Return(k) PROVE SpinnerInv'
  <2>0. /\ \A l \in Calls : l # k => calls'[l] = calls[l]
        /\ UNCHANGED <<harness, register, waits, stream, direct>>
    BY <1>4, ReturnCalls
  <2>1. CASE started(k)
    <3>1. panel.session = Null
      BY <2>1 DEF started, Returned, StartInv, Is
    <3>2. panel'.thinking = FALSE \/ panel'.thinking = panel.thinking
      BY <2>1 DEF started, TypeOK, Panel
    <3> QED
      BY <3>1, <3>2 DEF SpinnerInv
  <2>2. CASE stopped(k)
    BY <2>2 DEF stopped, TypeOK, Panel, SpinnerInv
  <2>3. CASE sendReturned(k)
    <3>1. panel'.session = panel.session /\ panel'.thinking = (panel.thinking /\ calls[k].ok) /\ calls[k].ok \in BOOLEAN
      BY <2>3, CallShape DEF sendReturned, Returned, TypeOK, Panel, Call
    <3>2. ASSUME NEW s, Working(s), panel'.thinking PROVE Working(s)'
      <4>1. calls[k].ok = TRUE
        BY <3>1, <3>2
      <4> QED
        BY <2>0, <3>2, <4>1 DEF Working, Is
    <3> QED
      BY <1>1, <3>1, <3>2
  <2>4. CASE answerReturned(k)
    <3>1. panel' = panel /\ ~Is(k, "send")
      BY <2>4 DEF answerReturned, Returned, Is
    <3>2. ASSUME NEW s, Working(s) PROVE Working(s)'
      BY <2>0, <3>1, <3>2 DEF Working, Is
    <3> QED
      BY <1>1, <3>1, <3>2
  <2> QED
    BY <1>4, <2>1, <2>2, <2>3, <2>4 DEF Return
<1>5. ASSUME NEW t \in Sessions, Agent(t) PROVE SpinnerInv'
  <2>0. /\ panel' = panel /\ calls' = calls
        /\ \A x \in Sessions : x # t => harness'[x] = harness[x] /\ stream'[x] = stream[x] /\ direct'[x] = direct[x]
        /\ \A e : In(stream[t], e) => In(stream'[t], e)
        /\ \A e : In(direct[t], e) => In(direct'[t], e)
        /\ harness'[t].turns = harness[t].turns \/ Ended(stream'[t]) \/ Ended(direct'[t])
    BY <1>5, AgentCalls
  <2>1. ASSUME NEW s \in Sessions, Working(s) PROVE Working(s)'
    <3>1. CASE s # t
      BY <2>0, <2>1, <3>1 DEF Working, Is
    <3>2. CASE s = t
      <4>1. Working(t)
        BY <2>1, <3>2
      <4>2. Working(t)'
        BY <2>0, <4>1 DEF Working, Is, Ended
      <4> QED
        BY <3>2, <4>2
    <3> QED
      BY <3>1, <3>2
  <2> QED
    BY <1>1, <2>0, <2>1
<1>6. ASSUME NEW t \in Sessions, Arrive(t) PROVE SpinnerInv'
  <2>0. /\ calls' = calls /\ harness' = harness /\ panel'.session = panel.session
        /\ \A x \in Sessions : x # t => stream'[x] = stream[x] /\ direct'[x] = direct[x]
        /\ panel'.thinking => panel.thinking
        /\ t = panel.session /\ panel'.thinking =>
             (Ended(stream[t]) => Ended(stream'[t])) /\ (Ended(direct[t]) => Ended(direct'[t]))
    BY <1>6, ArriveCalls
  <2>1. ASSUME NEW s \in Sessions, s = panel.session, panel'.thinking, Working(s) PROVE Working(s)'
    <3>1. CASE s # t
      BY <2>0, <2>1, <3>1 DEF Working, Is
    <3>2. CASE s = t
      <4>1. Working(t) /\ t = panel.session
        BY <2>1, <3>2
      <4>2. Working(t)'
        BY <2>0, <2>1, <4>1 DEF Working, Is
      <4> QED
        BY <3>2, <4>2
    <3> QED
      BY <3>1, <3>2
  <2> QED
    BY <1>1, <2>0, <2>1
<1>7. CASE UNCHANGED vars
  <2>1. ASSUME NEW s, Working(s) PROVE Working(s)'
    BY <1>7, <2>1 DEF vars, Working, Is
  <2> QED
    BY <1>1, <1>7, <2>1 DEF vars
<1> QED
  BY <1>2, <1>3, <1>4, <1>5, <1>6, <1>7 DEF Next
-----------------------------------------------------------------------------
(* Questions. *)
LEMMA OwnerStep == ASSUME TypeOK, DirectInv, OwnerInv, [Next]_vars PROVE OwnerInv'
<1> DEFINE O1(p, s, t) == p \in waits[t] /\ In(stream[s], p) => t = s
           O2(p, t) == p \in waits[t] /\ shown.prompts[p] = "waiting" => t = panel.session
           O3(k, t) == Is(k, "answer") /\ calls[k].prompt \in waits[t] => t = calls[k].session
<1>0. /\ \A p \in Prompts, s, t \in Sessions : O1(p, s, t)
      /\ \A p \in Prompts, t \in Sessions : O2(p, t)
      /\ \A k \in Calls, t \in Sessions : O3(k, t)
  BY DEF OwnerInv
<1>1. ASSUME \A t \in Sessions : waits'[t] \subseteq waits[t],
             \A s \in Sessions, p \in Prompts : In(stream'[s], p) => In(stream[s], p),
             panel'.session = panel.session,
             \A p \in Prompts : shown'.prompts[p] = "waiting" => shown.prompts[p] = "waiting",
             \A k \in Calls : calls'[k].op = "answer" => /\ calls[k].op = "answer" /\ calls'[k].prompt = calls[k].prompt
                                                         /\ calls'[k].session = calls[k].session
      PROVE  OwnerInv'
  BY <1>0, <1>1 DEF OwnerInv, Is
<1>2. ASSUME NEW k \in Calls, User(k) PROVE OwnerInv'
  <2>0. /\ UNCHANGED <<harness, register, waits, stream, direct>>
        /\ panel'.session = panel.session
        /\ \A l \in Calls : calls[l].op # "none" => calls'[l] = calls[l]
        /\ \A l \in Calls : l # k => calls'[l] = calls[l]
        /\ ~answer(k) => shown'.prompts = shown.prompts /\ calls'[k].op # "answer"
    BY <1>2, UserCalls
  <2>1. CASE ~answer(k)
    BY <1>1, <2>0, <2>1
  <2>2. CASE answer(k)
    <3>1. PICK p \in Prompts, how \in {"answered", "dismissed"} :
             /\ shown.prompts[p] = "waiting" /\ shown' = answerPermission(shown, p, how)
             /\ IF panel.session = Null THEN UNCHANGED calls ELSE Asks(k, "answer", panel.session, p)
      BY <2>2 DEF answer
    <3>2. \A q \in Prompts : shown'.prompts[q] = "waiting" => shown.prompts[q] = "waiting"
      BY <3>1 DEF answerPermission, TypeOK, Transcript
    <3>3. CASE panel.session = Null
      BY <1>1, <2>0, <3>1, <3>2, <3>3
    <3>4. CASE panel.session # Null
      <4>1. calls'[k] = [op |-> "answer", session |-> panel.session, prompt |-> p, ok |-> Null]
        BY <3>1, <3>4, AsksCalls
      <4>2. calls'[k].op = "answer" /\ calls'[k].session = panel.session /\ calls'[k].prompt = p
        BY <4>1
      <4>3. \A t \in Sessions : p \in waits[t] => t = panel.session
        BY <1>0, <3>1
      <4>4. \A l \in Calls, t \in Sessions : O3(l, t)'
        BY <1>0, <2>0, <4>2, <4>3 DEF Is
      <4>5. \A q \in Prompts, t \in Sessions : O2(q, t)'
        BY <1>0, <2>0, <3>2
      <4>6. \A q \in Prompts, s, t \in Sessions : O1(q, s, t)'
        BY <1>0, <2>0
      <4> QED
        BY <4>4, <4>5, <4>6 DEF OwnerInv
    <3> QED
      BY <3>3, <3>4
  <2> QED
    BY <2>1, <2>2
<1>3. ASSUME NEW k \in Calls, Backend(k) PROVE OwnerInv'
  <2>1. /\ calls[k].session \in Sessions /\ panel' = panel /\ shown' = shown /\ stream' = stream
        /\ \A l \in Calls : /\ calls'[l].op = calls[l].op /\ calls'[l].session = calls[l].session
                            /\ calls'[l].prompt = calls[l].prompt
    BY <1>3, BackendCalls
  <2>2. waits' = waits \/ waits' = [waits EXCEPT ![calls[k].session] = @ \ {calls[k].prompt}]
    BY <1>3 DEF Backend, Spawn, Register, StartFails, TakeSend, TakeAnswer, TakeStop
  <2>3. \A t \in Sessions : waits'[t] \subseteq waits[t]
    BY <2>1, <2>2 DEF TypeOK
  <2> QED
    BY <1>1, <2>1, <2>3
<1>4. ASSUME NEW k \in Calls, Return(k) PROVE OwnerInv'
  <2>0. /\ calls[k].op # "none" /\ calls'[k].op = "none"
        /\ \A l \in Calls : l # k => calls'[l] = calls[l]
        /\ UNCHANGED <<harness, register, waits, stream, direct>>
    BY <1>4, ReturnCalls
  <2>1. ASSUME \A p \in Prompts : shown'.prompts[p] = "waiting" => FALSE PROVE OwnerInv'
    <3>1. \A p \in Prompts, s, t \in Sessions : O1(p, s, t)'
      BY <1>0, <2>0
    <3>2. \A p \in Prompts, t \in Sessions : O2(p, t)'
      BY <2>1
    <3>3. \A l \in Calls, t \in Sessions : O3(l, t)'
      BY <1>0, <2>0 DEF Is
    <3> QED
      BY <3>1, <3>2, <3>3 DEF OwnerInv
  <2>2. CASE panel'.session = panel.session /\ shown' = shown
    BY <1>1, <2>0, <2>2
  <2>3. CASE shown' = Blank
    BY <2>1, <2>3 DEF Blank
  <2>4. CASE shown' = endSession(shown)
    <3>1. \A p \in Prompts : endSession(shown).prompts[p] # "waiting"
      BY DEF endSession, Blank, TypeOK, Transcript
    <3> QED
      BY <2>1, <2>4, <3>1
  <2> QED
    BY <1>4, <2>2, <2>3, <2>4 DEF Return, started, sendReturned, stopped, answerReturned, TypeOK, Panel
<1>5. ASSUME NEW s \in Sessions, Agent(s) PROVE OwnerInv'
  <2>0. /\ panel' = panel /\ shown' = shown /\ calls' = calls
        /\ \A x \in Sessions : x # s => waits'[x] = waits[x] /\ stream'[x] = stream[x]
        /\ \A e \in Prompts : In(stream'[s], e) <=> In(stream[s], e) \/ (AskPermission(s) /\ e \in waits'[s] /\ e \notin waits[s])
        /\ ~AskPermission(s) => waits'[s] \subseteq waits[s]
    BY <1>5, AgentCalls
  <2>1. CASE ~AskPermission(s)
    <3>1. \A x \in Sessions : waits'[x] \subseteq waits[x] /\ \A e \in Prompts : In(stream'[x], e) => In(stream[x], e)
      BY <2>0, <2>1
    <3> QED
      BY <1>1, <2>0, <3>1
  <2>2. CASE AskPermission(s)
    <3>1. PICK p \in Prompts : /\ \A t \in Sessions : p \notin waits[t] /\ ~Contains(stream[t], p)
                               /\ shown.prompts[p] = "none" /\ \A k \in Calls : calls[k].prompt # p
                               /\ waits' = [waits EXCEPT ![s] = @ \cup {p}]
      BY <2>2 DEF AskPermission
    <3>2. \A x \in Sessions : waits'[x] = IF x = s THEN waits[s] \cup {p} ELSE waits[x]
      BY <3>1 DEF TypeOK
    <3>3. \A t \in Sessions : ~In(stream[t], p)
      <4>1. \A t \in Sessions : \A i \in 1..Len(stream[t]) : stream[t][i] # p
        BY <3>1 DEF Contains
      <4>2. \A t \in Sessions : DOMAIN stream[t] = 1..Len(stream[t])
        BY DEF TypeOK
      <4> QED
        BY <4>1, <4>2 DEF In
    <3>4. \A x \in Sessions, q \in Prompts : In(stream'[x], q) <=> In(stream[x], q) \/ (x = s /\ q = p)
      BY <2>0, <2>2, <3>1, <3>2
    <3>5. \A q \in Prompts, x, t \in Sessions : O1(q, x, t)'
      BY <1>0, <3>1, <3>2, <3>3, <3>4
    <3>6. \A q \in Prompts, t \in Sessions : O2(q, t)'
      BY <1>0, <2>0, <3>1, <3>2
    <3>7. \A k \in Calls, t \in Sessions : O3(k, t)'
      BY <1>0, <2>0, <3>1, <3>2 DEF Is
    <3> QED
      BY <3>5, <3>6, <3>7 DEF OwnerInv
  <2> QED
    BY <2>1, <2>2
<1>6. ASSUME NEW s \in Sessions, Arrive(s) PROVE OwnerInv'
  <2>0. /\ calls' = calls /\ waits' = waits /\ panel'.session = panel.session
        /\ \A x \in Sessions : x # s => stream'[x] = stream[x]
        /\ \A e : In(stream'[s], e) => In(stream[s], e)
        /\ \A p \in Prompts : shown'.prompts[p] = "waiting" =>
                                    shown.prompts[p] = "waiting" \/ (s = panel.session /\ In(stream[s], p))
    BY <1>6, ArriveCalls
  <2>1. \A p \in Prompts, x, t \in Sessions : O1(p, x, t)'
    BY <1>0, <2>0
  <2>2. \A p \in Prompts, t \in Sessions : O2(p, t)'
    BY <1>0, <2>0
  <2>3. \A k \in Calls, t \in Sessions : O3(k, t)'
    BY <1>0, <2>0 DEF Is
  <2> QED
    BY <2>1, <2>2, <2>3 DEF OwnerInv
<1>7. CASE UNCHANGED vars
  BY <1>1, <1>7 DEF vars
<1> QED
  BY <1>2, <1>3, <1>4, <1>5, <1>6, <1>7 DEF Next

LEMMA QuestionStep == ASSUME TypeOK, DirectInv, StartInv, OwnerInv, QuestionInv, [Next]_vars PROVE QuestionInv'
<1> DEFINE Answering(p) == \E k \in Calls : Is(k, "answer") /\ calls[k].prompt = p /\ calls[k].ok = Null
           Open(s, p) == In(stream[s], p) \/ shown.prompts[p] = "waiting" \/ Answering(p)
<1>0. /\ panel.session = Null => \A p \in Prompts : shown.prompts[p] # "waiting"
      /\ \A s \in register : s = panel.session => \A p \in waits[s] : Open(s, p)
      /\ register \subseteq Sessions
  BY DEF QuestionInv, TypeOK
<1>1. ASSUME panel'.session = Null => \A p \in Prompts : shown'.prompts[p] # "waiting",
             ASSUME NEW s \in Sessions, s \in register', s = panel'.session, NEW p \in Prompts, p \in waits'[s]
             PROVE  Open(s, p)',
             TypeOK'
      PROVE  QuestionInv'
  <2>1. register' \subseteq Sessions /\ \A s \in Sessions : waits'[s] \subseteq Prompts
    BY <1>1 DEF TypeOK
  <2> QED
    BY <1>1, <2>1 DEF QuestionInv
<1>2. TypeOK'
  BY TypeStep
<1>kept. ASSUME register' \subseteq register, waits' = waits, stream' = stream, panel'.session = panel.session,
             \A p : Answering(p) => Answering(p)',
             \A p \in Prompts : shown.prompts[p] = "waiting" => shown'.prompts[p] = "waiting" \/ Answering(p)',
             panel.session = Null => \A p \in Prompts : shown'.prompts[p] = "waiting" => shown.prompts[p] = "waiting"
      PROVE  QuestionInv'
  <2>1. panel'.session = Null => \A p \in Prompts : shown'.prompts[p] # "waiting"
    BY <1>0, <1>kept
  <2>2. ASSUME NEW s \in Sessions, s \in register', s = panel'.session, NEW p \in Prompts, p \in waits'[s]
        PROVE  Open(s, p)'
    <3>1. Open(s, p)
      BY <1>0, <1>kept, <2>2
    <3> QED
      BY <1>kept, <3>1
  <2> QED
    BY <1>1, <1>2, <2>1, <2>2
<1>3. ASSUME NEW k \in Calls, User(k) PROVE QuestionInv'
  <2>0. /\ UNCHANGED <<harness, register, waits, stream, direct>>
        /\ panel'.session = panel.session
        /\ \A l \in Calls : calls[l].op # "none" => calls'[l] = calls[l]
        /\ ~answer(k) => shown'.prompts = shown.prompts /\ calls'[k].op # "answer"
    BY <1>3, UserCalls
  <2>1. \A p : Answering(p) => Answering(p)'
    BY <2>0 DEF Is
  <2>2. CASE ~answer(k)
    BY <1>kept, <2>0, <2>1, <2>2
  <2>3. CASE answer(k)
    <3>1. PICK p \in Prompts, how \in {"answered", "dismissed"} :
             /\ shown.prompts[p] = "waiting" /\ shown' = answerPermission(shown, p, how)
             /\ IF panel.session = Null THEN UNCHANGED calls ELSE Asks(k, "answer", panel.session, p)
      BY <2>3 DEF answer
    <3>2. panel.session # Null
      BY <1>0, <3>1
    <3>3. \A q \in Prompts : q # p => shown'.prompts[q] = shown.prompts[q]
      BY <3>1 DEF answerPermission, TypeOK, Transcript
    <3>4. calls'[k] = [op |-> "answer", session |-> panel.session, prompt |-> p, ok |-> Null]
      BY <3>1, <3>2, AsksCalls
    <3>5. Answering(p)'
      BY <3>4 DEF Is
    <3> QED
      BY <1>kept, <2>0, <2>1, <3>2, <3>3, <3>5
  <2> QED
    BY <2>2, <2>3
<1>4. ASSUME NEW k \in Calls, Backend(k) PROVE QuestionInv'
  <2>0. /\ calls[k].session \in Sessions /\ panel' = panel /\ shown' = shown /\ stream' = stream /\ calls[k].ok = Null
        /\ \A l \in Calls : /\ calls'[l].op = calls[l].op /\ calls'[l].session = calls[l].session
                            /\ calls'[l].prompt = calls[l].prompt
                            /\ l # k => calls'[l] = calls[l]
    BY <1>4, BackendCalls
  <2>1. \A p : Answering(p) /\ ~(Is(k, "answer") /\ calls[k].prompt = p) => Answering(p)'
    BY <2>0 DEF Is
  <2>2. CASE Register(k)
    <3>1. Is(k, "start")
      BY <2>2 DEF Register, Asked, Is
    <3>2. panel.session = Null
      BY <3>1 DEF StartInv
    <3>3. panel'.session = Null /\ \A s \in Sessions : s # panel'.session
      BY <2>0, <3>2, SessionsAssumption
    <3> QED
      BY <1>0, <1>1, <1>2, <2>0, <3>3
  <2>3. CASE TakeAnswer(k)
    <3>1. /\ Is(k, "answer") /\ register' = register
          /\ waits' = IF calls[k].session \in register THEN [waits EXCEPT ![calls[k].session] = @ \ {calls[k].prompt}] ELSE waits
      BY <2>3 DEF TakeAnswer, Asked, Is
    <3>2. ASSUME NEW s \in Sessions, s \in register', s = panel'.session, NEW p \in Prompts, p \in waits'[s]
          PROVE  Open(s, p)'
      <4>1. p \in waits[s] /\ (s = calls[k].session => p # calls[k].prompt)
        BY <2>0, <3>1, <3>2 DEF TypeOK
      <4>2. Open(s, p)
        BY <1>0, <2>0, <3>1, <3>2, <4>1
      <4>3. p # calls[k].prompt
        BY <3>1, <4>1 DEF OwnerInv
      <4> QED
        BY <2>0, <2>1, <4>2, <4>3
    <3> QED
      BY <1>0, <1>1, <1>2, <2>0, <3>2
  <2>4. CASE Spawn(k) \/ StartFails(k) \/ TakeSend(k) \/ TakeStop(k)
    <3>1. register' \subseteq register /\ waits' = waits /\ ~Is(k, "answer")
      BY <2>4 DEF Spawn, StartFails, TakeSend, TakeStop, Asked, Is
    <3>2. \A p : Answering(p) => Answering(p)'
      BY <2>1, <3>1
    <3> QED
      BY <1>kept, <2>0, <3>1, <3>2
  <2> QED
    BY <1>4, <2>2, <2>3, <2>4 DEF Backend
<1>5. ASSUME NEW k \in Calls, Return(k) PROVE QuestionInv'
  <2>0. /\ calls[k].op # "none" /\ calls[k].ok # Null
        /\ \A l \in Calls : l # k => calls'[l] = calls[l]
        /\ UNCHANGED <<harness, register, waits, stream, direct>>
    BY <1>5, ReturnCalls
  <2>1. \A p : Answering(p) => Answering(p)'
    BY <2>0 DEF Is
  <2>2. CASE panel'.session = panel.session /\ shown' = shown
    BY <1>kept, <2>0, <2>1, <2>2
  <2>3. CASE started(k) /\ calls[k].ok
    <3>1. panel'.session = calls[k].session /\ Is(k, "start") /\ calls[k].session \in Sessions
      BY <2>3, CallShape DEF started, Returned, Is
    <3>2. waits[calls[k].session] = {}
      BY <3>1 DEF StartInv
    <3> QED
      BY <1>1, <1>2, <2>0, <3>1, <3>2, SessionsAssumption
  <2>4. CASE stopped(k)
    <3>1. panel'.session = Null /\ shown' = endSession(shown)
      BY <2>4 DEF stopped, TypeOK, Panel
    <3>2. \A p \in Prompts : endSession(shown).prompts[p] # "waiting"
      BY DEF endSession, Blank, TypeOK, Transcript
    <3> QED
      BY <1>1, <1>2, <3>1, <3>2, SessionsAssumption
  <2> QED
    BY <1>5, <2>2, <2>3, <2>4 DEF Return, started, sendReturned, answerReturned, TypeOK, Panel
<1>6. ASSUME NEW t \in Sessions, Agent(t) PROVE QuestionInv'
  <2>0. /\ panel' = panel /\ shown' = shown /\ calls' = calls /\ register' = register
        /\ \A x \in Sessions : x # t => waits'[x] = waits[x] /\ stream'[x] = stream[x]
        /\ \A e \in Prompts : In(stream'[t], e) <=> In(stream[t], e) \/ (AskPermission(t) /\ e \in waits'[t] /\ e \notin waits[t])
        /\ ~AskPermission(t) => waits'[t] \subseteq waits[t]
    BY <1>6, AgentCalls
  <2>1. \A p : Answering(p) => Answering(p)'
    BY <2>0 DEF Is
  <2>2. ASSUME NEW s \in Sessions, s \in register', s = panel'.session, NEW p \in Prompts, p \in waits'[s]
        PROVE  Open(s, p)'
    <3>1. CASE p \in waits[s]
      <4>1. Open(s, p)
        BY <1>0, <2>0, <2>2, <3>1
      <4>2. In(stream[s], p) => In(stream'[s], p)
        BY <2>0
      <4> QED
        BY <2>0, <2>1, <4>1, <4>2
    <3>2. CASE p \notin waits[s]
      <4>1. s = t /\ AskPermission(t)
        BY <2>0, <2>2, <3>2
      <4>2. In(stream'[s], p)
        BY <2>0, <2>2, <3>2, <4>1
      <4> QED
        BY <4>2
    <3> QED
      BY <3>1, <3>2
  <2> QED
    BY <1>0, <1>1, <1>2, <2>0, <2>2
<1>7. ASSUME NEW t \in Sessions, Arrive(t) PROVE QuestionInv'
  <2>0. /\ calls' = calls /\ register' = register /\ waits' = waits
        /\ panel'.session = panel.session
        /\ \A x \in Sessions : x # t => stream'[x] = stream[x]
        /\ t # panel.session => shown' = shown
        /\ \A p \in Prompts : /\ In(stream[t], p) => In(stream'[t], p) \/ t # panel.session \/ shown'.prompts[p] = "waiting"
                              /\ shown.prompts[p] = "waiting" => shown'.prompts[p] = "waiting"
    BY <1>7, ArriveCalls
  <2>1. \A p : Answering(p) => Answering(p)'
    BY <2>0 DEF Is
  <2>2. panel'.session = Null => \A p \in Prompts : shown'.prompts[p] # "waiting"
    BY <1>0, <2>0, SessionsAssumption
  <2>3. ASSUME NEW s \in Sessions, s \in register', s = panel'.session, NEW p \in Prompts, p \in waits'[s]
        PROVE  Open(s, p)'
    <3>1. Open(s, p)
      BY <1>0, <2>0, <2>3
    <3>2. In(stream[s], p) => In(stream'[s], p) \/ shown'.prompts[p] = "waiting"
      BY <2>0, <2>3
    <3> QED
      BY <2>0, <2>1, <3>1, <3>2
  <2> QED
    BY <1>1, <1>2, <2>2, <2>3
<1>8. CASE UNCHANGED vars
  BY <1>8 DEF vars, QuestionInv, Is
<1> QED
  BY <1>3, <1>4, <1>5, <1>6, <1>7, <1>8 DEF Next
-----------------------------------------------------------------------------
LEMMA InitInv == Init => IInv
<1> SUFFICES ASSUME Init PROVE IInv
  OBVIOUS
<1>1. /\ panel = [session |-> Null, thinking |-> FALSE, failed |-> FALSE, starting |-> FALSE]
      /\ shown = Blank /\ calls = [k \in Calls |-> Idle] /\ register = {}
      /\ waits = [s \in Sessions |-> {}] /\ direct = [s \in Sessions |-> <<>>]
      /\ stream = [s \in Sessions |-> <<>>] /\ sent = [s \in Sessions |-> 0]
      /\ harness \in [Sessions -> [kind : Kinds, process : {"none"}, turns : {0}]]
  BY DEF Init
<1>2. \A k \in Calls : calls[k].op = "none"
  BY <1>1 DEF Idle
<1>3. TypeOK
  <2>1. panel \in Panel /\ shown \in Transcript
    BY <1>1 DEF Panel, Transcript, Blank
  <2>2. harness \in [Sessions -> Harness]
    BY <1>1 DEF Harness
  <2>3. 0 \in 0..MaxTurns
    BY SessionsAssumption
  <2> QED
    BY <1>1, <2>1, <2>2, <2>3 DEF TypeOK
<1>4. DirectInv
  BY <1>1 DEF DirectInv
<1>5. StartInv
  BY <1>1, <1>2 DEF StartInv, Is
<1>6. StopInv
  BY <1>1, <1>2 DEF StopInv, NoHarnessLeft, Is
<1>7. OneTranscript /\ SpinnerInv
  BY <1>1 DEF OneTranscript, SpinnerInv
<1>8. OwnerInv
  BY <1>1, <1>2 DEF OwnerInv, Is
<1>9. QuestionInv
  BY <1>1 DEF QuestionInv, Blank
<1> QED
  BY <1>3, <1>4, <1>5, <1>6, <1>7, <1>8, <1>9 DEF IInv

LEMMA Inductive == IInv /\ [Next]_vars => IInv'
<1> SUFFICES ASSUME IInv, [Next]_vars PROVE IInv'
  OBVIOUS
<1>1. TypeOK /\ DirectInv /\ StartInv /\ OneTranscript /\ SpinnerInv /\ OwnerInv /\ QuestionInv
  BY DEF IInv
<1>2. TypeOK' /\ DirectInv' /\ StartInv'
  BY <1>1, TypeStep, DirectStep, StartStep
<1>3. ~Overlaps => StopInv'
  BY <1>1, StopStep DEF IInv
<1>4. OneTranscript' /\ SpinnerInv' /\ OwnerInv' /\ QuestionInv'
  BY <1>1, TranscriptStep, SpinnerStep, OwnerStep, QuestionStep
<1> QED
  BY <1>2, <1>3, <1>4 DEF IInv

LEMMA Invariance == Spec => []IInv
BY InitInv, Inductive, PTL DEF Spec

(* Whatever the window receives and in whatever order its calls return, its state,
   the register and the queues have their types. *)
THEOREM TypeCorrect == Spec => []TypeOK
<1>1. IInv => TypeOK
  BY DEF IInv
<1> QED
  BY <1>1, Invariance, PTL

(* The transcript is of the panel's session alone, for any number of sessions. *)
THEOREM TranscriptIsOne == Spec => []OneTranscript
<1>1. IInv => OneTranscript
  BY DEF IInv
<1> QED
  BY <1>1, Invariance, PTL

(* A harness that is registered is the panel's, or on its way in or out, where a
   session is not ended again while it is being ended. *)
THEOREM HarnessReachable == ASSUME ~Overlaps PROVE Spec => []NoHarnessLeft
<1>1. IInv => NoHarnessLeft
  BY DEF IInv, StopInv
<1> QED
  BY <1>1, Invariance, PTL

(* A spinner that turns has a message on its way, a turn under way, or the event
   that ends it in one of the two queues. *)
THEOREM SpinnerEnds == Spec => []SpinnerMeansWorking
<1>1. IInv => SpinnerMeansWorking
  <2> SUFFICES ASSUME IInv, panel.thinking PROVE SpinnerMeansWorking
    BY DEF SpinnerMeansWorking
  <2>1. panel.session # Null /\ Working(panel.session)
    BY DEF IInv, SpinnerInv
  <2>2. \A q : Ended(q) => \E event \in ToSet(q) : Ending(event)
    BY DEF Ended, In, ToSet, Ending
  <2> QED
    BY <2>1, <2>2 DEF SpinnerMeansWorking, Working, Under, Is
<1> QED
  BY <1>1, Invariance, PTL

(* A question the agent waits on is on its way, on screen or being answered, and
   without a session none asks for an answer. *)
THEOREM QuestionsAnswerable == Spec => []QuestionsCanBeAnswered
<1>1. IInv => QuestionsCanBeAnswered
  <2> SUFFICES ASSUME IInv PROVE QuestionsCanBeAnswered
    OBVIOUS
  <2>1. QuestionInv /\ TypeOK
    BY DEF IInv
  <2>2. \A s \in Sessions, p \in Prompts : In(stream[s], p) => Contains(stream[s], p)
    <3>1. \A s \in Sessions : DOMAIN stream[s] = 1..Len(stream[s])
      BY <2>1 DEF TypeOK
    <3> QED
      BY <3>1 DEF In, Contains
  <2>3. register \subseteq Sessions /\ \A s \in Sessions : waits[s] \subseteq Prompts
    BY <2>1 DEF TypeOK
  <2> QED
    BY <2>1, <2>2, <2>3 DEF QuestionsCanBeAnswered, QuestionInv, Is
<1> QED
  BY <1>1, Invariance, PTL

(***************************************************************************)
(* The endpoint                                                            *)
(***************************************************************************)
Unbound == {"idle", "check", "read", "create", "creating", "rotate", "rotating",
            "bind", "take"}

(* A command binds at most one listener, after it has a token, and hands it to
   the slot in its next step. *)
ListenerInv ==
  \A o \in Ops :
    /\ pc[o] \in Unbound => listener[o] = "none"
    /\ pc[o] = "install" => listener[o] = "serving"
    /\ running = o => listener[o] = "serving" /\ pc[o] \in {"hand", "done"}
    /\ listener[o] = "serving" => running = o \/ pc[o] = "install"

(* A token is at hand from the moment a command goes on to bind. *)
TokenInv ==
  \A o \in Ops : pc[o] = "bind" \/ listener[o] # "none" => read[o] # NoOp

EndpointInv == EndpointTypeOK /\ ListenerInv /\ TokenInv

-----------------------------------------------------------------------------
(* Every step keeps the types. *)
LEMMA EndpointTypeStep ==
  ASSUME EndpointTypeOK, ListenerInv, NoOpIsNoOp, [EndpointNext]_endpointVars
  PROVE  EndpointTypeOK'
<1> USE DEF EndpointTypeOK, ListenerInv, Unbound, Commands, PCs, Ids, Goto, NoOpIsNoOp
<1>1. ASSUME NEW o \in Ops, Invoke(o) PROVE EndpointTypeOK'
  BY <1>1 DEF Invoke
<1>2. ASSUME NEW o \in Ops, CheckRunning(o) PROVE EndpointTypeOK'
  BY <1>2 DEF CheckRunning, Started
<1>3. ASSUME NEW o \in Ops, ReadToken(o) PROVE EndpointTypeOK'
  BY <1>3 DEF ReadToken
<1>4. ASSUME NEW o \in Ops, Truncate(o) PROVE EndpointTypeOK'
  BY <1>4 DEF Truncate
<1>5. ASSUME NEW o \in Ops, WriteToken(o) PROVE EndpointTypeOK'
  BY <1>5 DEF WriteToken
<1>6. ASSUME NEW o \in Ops, Bind(o) PROVE EndpointTypeOK'
  <2>1. CASE failed' = TRUE /\ Goto(o, "done") /\ UNCHANGED <<listener, port>>
    BY <1>6, <2>1 DEF Bind
  <2>2. ASSUME NEW p \in {"preferred", "other"}, port' = [port EXCEPT ![o] = p],
               listener' = [listener EXCEPT ![o] = "serving"],
               Goto(o, "install"), UNCHANGED failed
        PROVE  EndpointTypeOK'
    BY <1>6, <2>2 DEF Bind
  <2>3. QED
    BY <1>6, <2>1, <2>2 DEF Bind
<1>7. ASSUME NEW o \in Ops, Install(o) PROVE EndpointTypeOK'
  BY <1>7 DEF Install, Started
<1>8. ASSUME NEW o \in Ops, Take(o) PROVE EndpointTypeOK'
  BY <1>8 DEF Take
<1>9. ASSUME NEW o \in Ops, Hand(o) PROVE EndpointTypeOK'
  BY <1>9 DEF Hand
<1>10. ASSUME NEW o \in Ops, Close(o) PROVE EndpointTypeOK'
  BY <1>10 DEF Close
<1>11. CASE UNCHANGED endpointVars
  BY <1>11 DEF endpointVars
<1>12. QED
  BY <1>1, <1>2, <1>3, <1>4, <1>5, <1>6, <1>7, <1>8, <1>9, <1>10, <1>11 DEF EndpointNext, Step

(* Every step keeps what is known of the listeners. *)
LEMMA ListenerStep ==
  ASSUME EndpointTypeOK, ListenerInv, NoOpIsNoOp, [EndpointNext]_endpointVars
  PROVE  ListenerInv'
<1> USE DEF EndpointTypeOK, ListenerInv, Unbound, PCs, Ids, Goto, NoOpIsNoOp
<1>1. ASSUME NEW o \in Ops, Invoke(o) PROVE ListenerInv'
  BY <1>1 DEF Invoke
<1>2. ASSUME NEW o \in Ops, CheckRunning(o) PROVE ListenerInv'
  BY <1>2 DEF CheckRunning, Started
<1>3. ASSUME NEW o \in Ops, ReadToken(o) PROVE ListenerInv'
  BY <1>3 DEF ReadToken
<1>4. ASSUME NEW o \in Ops, Truncate(o) PROVE ListenerInv'
  BY <1>4 DEF Truncate
<1>5. ASSUME NEW o \in Ops, WriteToken(o) PROVE ListenerInv'
  BY <1>5 DEF WriteToken
<1>6. ASSUME NEW o \in Ops, Bind(o) PROVE ListenerInv'
  BY <1>6 DEF Bind, Held
<1>7. ASSUME NEW o \in Ops, Install(o) PROVE ListenerInv'
  BY <1>7 DEF Install, Started
<1>8. ASSUME NEW o \in Ops, Take(o) PROVE ListenerInv'
  BY <1>8 DEF Take
<1>9. ASSUME NEW o \in Ops, Hand(o) PROVE ListenerInv'
  BY <1>9 DEF Hand
<1>10. ASSUME NEW o \in Ops, Close(o) PROVE ListenerInv'
  BY <1>10 DEF Close
<1>11. CASE UNCHANGED endpointVars
  BY <1>11 DEF endpointVars
<1>12. QED
  BY <1>1, <1>2, <1>3, <1>4, <1>5, <1>6, <1>7, <1>8, <1>9, <1>10, <1>11 DEF EndpointNext, Step

(* Every step keeps what is known of the tokens. *)
LEMMA TokenStep ==
  ASSUME EndpointTypeOK, ListenerInv, TokenInv, NoOpIsNoOp, [EndpointNext]_endpointVars
  PROVE  TokenInv'
<1> USE DEF EndpointTypeOK, ListenerInv, TokenInv, Unbound, PCs, Ids, Goto, NoOpIsNoOp
<1>1. ASSUME NEW o \in Ops, Invoke(o) PROVE TokenInv'
  BY <1>1 DEF Invoke
<1>2. ASSUME NEW o \in Ops, CheckRunning(o) PROVE TokenInv'
  BY <1>2 DEF CheckRunning, Started
<1>3. ASSUME NEW o \in Ops, ReadToken(o) PROVE TokenInv'
  BY <1>3 DEF ReadToken
<1>4. ASSUME NEW o \in Ops, Truncate(o) PROVE TokenInv'
  BY <1>4 DEF Truncate
<1>5. ASSUME NEW o \in Ops, WriteToken(o) PROVE TokenInv'
  BY <1>5 DEF WriteToken
<1>6. ASSUME NEW o \in Ops, Bind(o) PROVE TokenInv'
  BY <1>6 DEF Bind, Held
<1>7. ASSUME NEW o \in Ops, Install(o) PROVE TokenInv'
  BY <1>7 DEF Install, Started
<1>8. ASSUME NEW o \in Ops, Take(o) PROVE TokenInv'
  BY <1>8 DEF Take
<1>9. ASSUME NEW o \in Ops, Hand(o) PROVE TokenInv'
  BY <1>9 DEF Hand
<1>10. ASSUME NEW o \in Ops, Close(o) PROVE TokenInv'
  BY <1>10 DEF Close
<1>11. CASE UNCHANGED endpointVars
  BY <1>11 DEF endpointVars
<1>12. QED
  BY <1>1, <1>2, <1>3, <1>4, <1>5, <1>6, <1>7, <1>8, <1>9, <1>10, <1>11 DEF EndpointNext, Step

(* The inductive invariant holds of every reachable state. *)
THEOREM EndpointInvariance == EndpointSpec => []EndpointInv
<1>1. EndpointInit => EndpointInv
  <2> SUFFICES ASSUME EndpointInit PROVE EndpointInv
    OBVIOUS
  <2>1. /\ pc \in [Ops -> PCs] /\ read \in [Ops -> Ids] /\ given \in [Ops -> Ids]
        /\ file \in Ids /\ running \in Ids
    BY DEF EndpointInit, PCs, Ids
  <2>2. /\ listener \in [Ops -> {"none", "serving", "stopping", "closed"}]
        /\ port \in [Ops -> {"none", "preferred", "other"}]
        /\ \A o \in Ops : port[o] = "none" <=> listener[o] = "none"
    BY DEF EndpointInit
  <2>3. EndpointTypeOK
    BY <2>1, <2>2 DEF EndpointInit, EndpointTypeOK
  <2>4. \A o \in Ops : pc[o] = "idle" /\ listener[o] = "none" /\ running # o
    BY NoOpIsNoOp DEF EndpointInit
  <2>5. ListenerInv /\ TokenInv
    BY <2>4 DEF ListenerInv, TokenInv
  <2>6. QED
    BY <2>3, <2>5 DEF EndpointInv
<1>2. EndpointInv /\ [EndpointNext]_endpointVars => EndpointInv'
  BY EndpointTypeStep, ListenerStep, TokenStep, NoOpIsNoOp DEF EndpointInv
<1>3. QED
  BY <1>1, <1>2, PTL DEF EndpointSpec

(* Types are kept, whatever commands overlap. *)
THEOREM EndpointTypeCorrect == EndpointSpec => []EndpointTypeOK
<1>1. EndpointInv => EndpointTypeOK
  BY DEF EndpointInv
<1>2. QED
  BY <1>1, EndpointInvariance, PTL

(* No overlap of starts, stops and rotations leaves a listener that cannot be
   stopped (agent_state.rs, start: overwriting the slot drops the endpoint). *)
THEOREM NoOrphans == EndpointSpec => []NoOrphan
<1>1. EndpointInv => NoOrphan
  BY DEF EndpointInv, ListenerInv, NoOrphan
<1>2. QED
  BY <1>1, EndpointInvariance, PTL

(* status() never names an endpoint that was told to stop (agent_state.rs). *)
THEOREM SlotIsLive == EndpointSpec => []SlotServes
<1>1. EndpointInv => SlotServes
  BY DEF EndpointInv, EndpointTypeOK, Ids, ListenerInv, SlotServes
<1>2. QED
  BY <1>1, EndpointInvariance, PTL

(* No endpoint runs without a token, also when the token file was read half
   written (endpoint.rs, load_or_create_token and write_private). *)
THEOREM AlwaysAToken == EndpointSpec => []TokenAlwaysAsked
<1>1. EndpointInv => TokenAlwaysAsked
  BY DEF EndpointInv, TokenInv, TokenAlwaysAsked
<1>2. QED
  BY <1>1, EndpointInvariance, PTL
-----------------------------------------------------------------------------
(* Where nothing runs, somebody is bringing the endpoint up: a start that has
   not seen it running, or a rotation that took it down. *)
Raising == {"check", "read", "create", "creating", "bind", "install"}
Raises(o) == \/ kind[o] \in {"start", "session"} /\ pc[o] \in Raising \cup {"idle"}
             \/ kind[o] = "rotate" /\ pc[o] \in Raising

(* Only stops and rotations take the endpoint down, and a rotation is the
   only command at its own places. *)
KindInv == \A o \in Ops : /\ pc[o] = "take" => kind[o] \in {"stop", "rotate"}
                          /\ pc[o] \in {"rotate", "rotating"} => kind[o] = "rotate"

Wanted == /\ ~failed
          /\ \E o \in Ops : kind[o] \in {"start", "session"}
          /\ \A o \in Ops : kind[o] # "stop"

RaisedInv == Wanted => running # NoOp \/ \E o \in Ops : Raises(o)

LEMMA KindStep == ASSUME EndpointTypeOK, KindInv, [EndpointNext]_endpointVars PROVE KindInv' /\ kind' = kind
<1> USE DEF EndpointTypeOK, KindInv, PCs, Commands, Goto
<1>1. ASSUME NEW o \in Ops, Invoke(o) PROVE KindInv' /\ kind' = kind
  BY <1>1 DEF Invoke
<1>2. ASSUME NEW o \in Ops, CheckRunning(o) \/ ReadToken(o) \/ Truncate(o) \/ WriteToken(o)
      PROVE  KindInv' /\ kind' = kind
  BY <1>2 DEF CheckRunning, ReadToken, Truncate, WriteToken, Started
<1>3. ASSUME NEW o \in Ops, Bind(o) \/ Install(o) \/ Take(o) \/ Hand(o) \/ Close(o)
      PROVE  KindInv' /\ kind' = kind
  BY <1>3 DEF Bind, Install, Take, Hand, Close, Started
<1>4. CASE UNCHANGED endpointVars
  BY <1>4 DEF endpointVars
<1> QED
  BY <1>1, <1>2, <1>3, <1>4 DEF EndpointNext, Step

(* A command that is bringing the endpoint up goes on doing so, or has. *)
LEMMA RaisedStep ==
  ASSUME EndpointTypeOK, KindInv, RaisedInv, NoOpIsNoOp, [EndpointNext]_endpointVars
  PROVE  RaisedInv'
<1> SUFFICES ASSUME Wanted' PROVE running' # NoOp \/ \E o \in Ops : Raises(o)'
  BY DEF RaisedInv
<1>1. kind' = kind /\ (failed => failed')
  BY KindStep DEF EndpointNext, Step, Invoke, CheckRunning, ReadToken, Truncate, WriteToken, Bind, Install, Take,
                  Hand, Close, endpointVars
<1>2. /\ \A o \in Ops : kind[o] # "stop"
      /\ running # NoOp \/ \E o \in Ops : Raises(o)
  BY <1>1 DEF Wanted, RaisedInv
<1> USE DEF EndpointTypeOK, PCs, Commands, Goto, Raises, Raising
<1>3. ASSUME NEW o \in Ops, Invoke(o) \/ CheckRunning(o) \/ ReadToken(o) \/ Truncate(o) \/ WriteToken(o)
      PROVE  running' # NoOp \/ \E x \in Ops : Raises(x)'
  <2>1. running' = running /\ \A x \in Ops : x # o => pc'[x] = pc[x]
    BY <1>3 DEF Invoke, CheckRunning, ReadToken, Truncate, WriteToken
  <2>2. running = NoOp /\ Raises(o) => Raises(o)'
    BY <1>1, <1>3 DEF Invoke, CheckRunning, ReadToken, Truncate, WriteToken
  <2> QED
    BY <1>1, <1>2, <2>1, <2>2
<1>4. ASSUME NEW o \in Ops, Bind(o) PROVE running' # NoOp \/ \E x \in Ops : Raises(x)'
  <2>1. running' = running /\ \A x \in Ops : x # o => pc'[x] = pc[x]
    BY <1>4 DEF Bind
  <2>2. Raises(o) => Raises(o)'
    BY <1>1, <1>4 DEF Bind, Wanted
  <2> QED
    BY <1>1, <1>2, <2>1, <2>2
<1>5. ASSUME NEW o \in Ops, Install(o) PROVE running' # NoOp
  BY <1>5, NoOpIsNoOp DEF Install
<1>6. ASSUME NEW o \in Ops, Take(o) PROVE \E x \in Ops : Raises(x)'
  <2>1. kind[o] = "rotate" /\ \A x \in Ops : x # o => pc'[x] = pc[x]
    BY <1>2, <1>6 DEF Take, KindInv
  <2>2. CASE running # NoOp
    BY <1>1, <1>6, <2>1, <2>2 DEF Take
  <2>3. CASE running = NoOp
    BY <1>1, <1>2, <1>6, <2>1, <2>3 DEF Take
  <2> QED
    BY <2>2, <2>3
<1>7. ASSUME NEW o \in Ops, Hand(o) \/ Close(o) PROVE running' # NoOp \/ \E x \in Ops : Raises(x)'
  <2>1. running' = running /\ \A x \in Ops : Raises(x) => pc'[x] = pc[x]
    BY <1>7 DEF Hand, Close
  <2> QED
    BY <1>1, <1>2, <2>1
<1>8. CASE UNCHANGED endpointVars
  BY <1>1, <1>2, <1>8 DEF endpointVars
<1> QED
  BY <1>3, <1>4, <1>5, <1>6, <1>7, <1>8 DEF EndpointNext, Step

(* The endpoint is off, once every command is over, only after a stop or a
   port that could not be bound (agent_state.rs, rotate_token and
   rotate_agent_token: what was taken down is started again). *)
THEOREM OnlyAStopStops == EndpointSpec => []OnlyStopStops
<1>1. EndpointInit => KindInv /\ RaisedInv
  BY DEF EndpointInit, KindInv, RaisedInv, Wanted, Raises
<1>2. EndpointTypeOK /\ KindInv /\ RaisedInv /\ [EndpointNext]_endpointVars => KindInv' /\ RaisedInv'
  BY KindStep, RaisedStep, NoOpIsNoOp
<1>3. RaisedInv => OnlyStopStops
  BY DEF RaisedInv, Wanted, Raises, Raising, OnlyStopStops, Quiet
<1> QED
  BY <1>1, <1>2, <1>3, EndpointTypeCorrect, PTL DEF EndpointSpec
=============================================================================
