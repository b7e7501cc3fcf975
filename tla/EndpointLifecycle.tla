------------------------- MODULE EndpointLifecycle -------------------------
(***************************************************************************)
(* The agent endpoint's lifecycle: the commands that start, stop and rotate *)
(* it, each on a thread of its own, the token file they share, the one slot *)
(* AgentState keeps for what is running, and the listeners on loopback.     *)
(* A token and a listener are named by the command that made them.          *)
(***************************************************************************)
EXTENDS Naturals

CONSTANTS
  Ops,          \* command invocations; each is made once
  NoOp          \* no token, no endpoint

ASSUME NoOpIsNoOp == NoOp \notin Ops

VARIABLES
  kind,         \* [Ops -> the command]
  pc,           \* [Ops -> where the command stands]
  read,         \* [Ops -> the token the command read or made]
  file,         \* the token in agent-token; NoOp when absent or empty
  running,      \* AgentState.running
  listener,     \* [Ops -> the listener the command bound]
  port,         \* [Ops -> the port it got]
  given,        \* [Ops -> the endpoint a session's harness was configured with]
  foreign,      \* another program listens on PREFERRED_PORT
  failed        \* a bind failed altogether

endpointVars == <<kind, pc, read, file, running, listener, port, given, foreign, failed>>

Commands == {"start", "session", "stop", "rotate", "status"}
PCs == {"idle", "check", "read", "create", "creating", "rotate", "rotating",
        "bind", "install", "take", "hand", "done"}
Ids == Ops \cup {NoOp}

(* Every variable has its type, and a port is known for every listener. *)
EndpointTypeOK ==
  /\ kind \in [Ops -> Commands] /\ pc \in [Ops -> PCs]
  /\ read \in [Ops -> Ids] /\ file \in Ids /\ running \in Ids
  /\ listener \in [Ops -> {"none", "serving", "stopping", "closed"}]
  /\ port \in [Ops -> {"none", "preferred", "other"}]
  /\ \A o \in Ops : port[o] = "none" <=> listener[o] = "none"
  /\ given \in [Ops -> Ids]
  /\ foreign \in BOOLEAN /\ failed \in BOOLEAN

EndpointInit ==
  /\ kind \in [Ops -> Commands]
  /\ pc = [o \in Ops |-> "idle"]
  /\ read = [o \in Ops |-> NoOp]
  /\ file = NoOp
  /\ running = NoOp
  /\ listener = [o \in Ops |-> "none"]
  /\ port = [o \in Ops |-> "none"]
  /\ given = [o \in Ops |-> NoOp]
  /\ foreign \in BOOLEAN
  /\ failed = FALSE

Goto(o, l) == pc' = [pc EXCEPT ![o] = l]

(* Where a command that started the endpoint, or found it running, goes on. *)
Started(o) == IF kind[o] = "session" THEN "hand" ELSE "done"

-----------------------------------------------------------------------------
(* The user, or a session being opened, invokes a command. *)
Invoke(o) ==
  /\ pc[o] = "idle"
  /\ Goto(o, CASE kind[o] = "stop"   -> "take"
               [] kind[o] = "rotate" -> "rotate"
               [] OTHER              -> "check")
  /\ UNCHANGED <<kind, read, file, running, listener, port, given, foreign, failed>>

(* AgentState::start, and status: nothing to do if something is running. *)
CheckRunning(o) ==
  /\ pc[o] = "check"
  /\ Goto(o, CASE running = NoOp     -> "read"
               [] kind[o] = "status" -> "done"
               [] OTHER              -> Started(o))
  /\ UNCHANGED <<kind, read, file, running, listener, port, given, foreign, failed>>

(* load_or_create_token: an empty file counts as none. *)
ReadToken(o) ==
  /\ pc[o] = "read"
  /\ read' = [read EXCEPT ![o] = IF file = NoOp THEN o ELSE file]
  /\ Goto(o, CASE file = NoOp        -> "create"
               [] kind[o] = "status" -> "done"
               [] OTHER              -> "bind")
  /\ UNCHANGED <<kind, file, running, listener, port, given, foreign, failed>>

(* write_private, for load_or_create_token and rotate_token: the file is opened
   with truncate ... *)
Truncate(o) ==
  /\ pc[o] \in {"create", "rotate"}
  /\ file' = NoOp
  /\ Goto(o, IF pc[o] = "create" THEN "creating" ELSE "rotating")
  /\ UNCHANGED <<kind, read, running, listener, port, given, foreign, failed>>

(* ... and then the token this command generated is written. *)
WriteToken(o) ==
  /\ pc[o] \in {"creating", "rotating"}
  /\ file' = o
  /\ read' = [read EXCEPT ![o] = o]
  /\ Goto(o, CASE pc[o] = "rotating"   -> "take"
               [] kind[o] = "status" -> "done"
               [] OTHER              -> "bind")
  /\ UNCHANGED <<kind, running, listener, port, given, foreign, failed>>

Held(l) == listener[l] \in {"serving", "stopping"} /\ port[l] = "preferred"

(* endpoint::start: the preferred port unless somebody listens on it, any
   other port then; the listener serves from here on. *)
Bind(o) ==
  /\ pc[o] = "bind"
  /\ \/ /\ listener' = [listener EXCEPT ![o] = "serving"]
        /\ port' = [port EXCEPT ![o] = IF foreign \/ \E l \in Ops : Held(l)
                                       THEN "other" ELSE "preferred"]
        /\ Goto(o, "install")
        /\ UNCHANGED failed
     \/ /\ failed' = TRUE
        /\ Goto(o, "done")
        /\ UNCHANGED <<listener, port>>
  /\ UNCHANGED <<kind, read, file, running, given, foreign>>

(* Mutant: the endpoint that was there is forgotten, not dropped. *)
InstallLeaking(o) ==
  /\ pc[o] = "install"
  /\ running' = o
  /\ Goto(o, Started(o))
  /\ UNCHANGED <<kind, read, file, listener, port, given, foreign, failed>>

(* The slot is overwritten: an endpoint that was in it is dropped, and with it
   the sender its listener waits on, which stops it. *)
Install(o) ==
  /\ pc[o] = "install"
  /\ running' = o
  /\ listener' = [l \in Ops |-> IF l = running THEN "stopping" ELSE listener[l]]
  /\ Goto(o, Started(o))
  /\ UNCHANGED <<kind, read, file, port, given, foreign, failed>>

(* Mutant: rotating stops the endpoint and leaves it stopped. *)
TakeForGood(o) ==
  /\ pc[o] = "take"
  /\ running' = NoOp
  /\ listener' = [l \in Ops |-> IF l = running THEN "stopping" ELSE listener[l]]
  /\ Goto(o, "done")
  /\ UNCHANGED <<kind, read, file, port, given, foreign, failed>>

(* stop, and rotate_token: the slot is emptied and what was in it told to stop;
   rotate_agent_token starts it again if there was something. *)
Take(o) ==
  /\ pc[o] = "take"
  /\ running' = NoOp
  /\ listener' = [l \in Ops |-> IF l = running THEN "stopping" ELSE listener[l]]
  /\ Goto(o, IF kind[o] = "rotate" /\ running # NoOp THEN "check" ELSE "done")
  /\ UNCHANGED <<kind, read, file, port, given, foreign, failed>>

(* start_agent_session: status() as it is now goes into the harness's config. *)
Hand(o) ==
  /\ pc[o] = "hand"
  /\ given' = [given EXCEPT ![o] = running]
  /\ Goto(o, "done")
  /\ UNCHANGED <<kind, read, file, running, listener, port, foreign, failed>>

(* The server task sees the shutdown and drops the listener. *)
Close(l) ==
  /\ listener[l] = "stopping"
  /\ listener' = [listener EXCEPT ![l] = "closed"]
  /\ UNCHANGED <<kind, pc, read, file, running, port, given, foreign, failed>>

Step(o) ==
  \/ CheckRunning(o) \/ ReadToken(o) \/ Truncate(o) \/ WriteToken(o)
  \/ Bind(o) \/ Install(o) \/ Take(o) \/ Hand(o)

EndpointNext == \E o \in Ops : Invoke(o) \/ Step(o) \/ Close(o)

EndpointSpec == EndpointInit /\ [][EndpointNext]_endpointVars

(* A command that was invoked runs to its end, and server tasks are polled. *)
FairEndpointSpec == EndpointSpec /\ \A o \in Ops : WF_endpointVars(Step(o)) /\ WF_endpointVars(Close(o))

-----------------------------------------------------------------------------
(* A listener that serves can be stopped: it is the one in the slot, or about
   to be put there.  No start, stop or rotation in any order leaves a listener
   nobody holds the handle of. *)
NoOrphan ==
  \A l \in Ops : listener[l] = "serving" => running = l \/ pc[l] = "install"

(* What the slot holds is serving: status() never names an endpoint that is
   down. *)
SlotServes == running # NoOp => listener[running] = "serving"

(* A listener asks for a token that somebody generated, also when the file was
   read between the truncation and the write of another command. *)
TokenAlwaysAsked == \A l \in Ops : listener[l] # "none" => read[l] # NoOp

Quiet == \A o \in Ops : pc[o] = "done"

(* Only a stop, or a port that could not be bound, leaves the endpoint off: a
   rotation brings back what it took down. *)
OnlyStopStops ==
  /\ Quiet /\ ~failed
  /\ \E o \in Ops : kind[o] \in {"start", "session"}
  /\ \A o \in Ops : kind[o] # "stop"
  => running # NoOp

(* However many commands overlapped, one listener at most survives them. *)
OneListenerInTheEnd ==
  \A l \in Ops : (Quiet /\ running # l) ~> listener[l] \in {"none", "closed"}
=============================================================================
