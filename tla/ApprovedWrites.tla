--------------------------- MODULE ApprovedWrites ---------------------------
(***************************************************************************)
(* What SQLPilot promises about a change an agent asks for, whatever the   *)
(* mechanism: a change takes effect only if the user consented to it, and  *)
(* what the agent is told about it is never contradicted later.  StagedWrites*)
(* is the mechanism that implements this.                                  *)
(***************************************************************************)
CONSTANT Calls                    \* the agent's tool calls that ask for a change

VARIABLES
  consent,                        \* [Calls -> what the user decided about the call]
  effect,                         \* [Calls -> is the change in the database?]
  told                            \* [Calls -> what the agent was told of it]

vars == <<consent, effect, told>>

Answers == {"yes", "no"}
Tellings == {"applied", "notApplied", "unknown"}

TypeOK ==
  /\ consent \in [Calls -> Answers \cup {"none"}]
  /\ effect \in [Calls -> {"none", "applied"}]
  /\ told \in [Calls -> Tellings \cup {"none"}]

Init ==
  /\ consent = [c \in Calls |-> "none"]
  /\ effect = [c \in Calls |-> "none"]
  /\ told = [c \in Calls |-> "none"]

(* The user decides, once, about a change they have read.  The decision may
   come too late: the agent may have been told already. *)
Consent(c, v) ==
  /\ consent[c] = "none"
  /\ consent' = [consent EXCEPT ![c] = v]
  /\ UNCHANGED <<effect, told>>

(* The change takes effect.  The agent may learn of it in the same step. *)
Apply(c) ==
  /\ consent[c] = "yes"
  /\ effect[c] = "none"
  /\ told[c] \in {"none", "unknown"}
  /\ effect' = [effect EXCEPT ![c] = "applied"]
  /\ \/ told' = told
     \/ told[c] = "none" /\ told' = [told EXCEPT ![c] = "applied"]
  /\ UNCHANGED consent

(* The agent is told how its call ended without the change taking effect now. *)
Tell(c, t) ==
  /\ told[c] = "none"
  /\ effect[c] = "none"
  /\ t \in {"notApplied", "unknown"}
  /\ told' = [told EXCEPT ![c] = t]
  /\ UNCHANGED <<consent, effect>>

Next == \E c \in Calls :
          \/ \E v \in Answers : Consent(c, v)
          \/ Apply(c)
          \/ \E t \in Tellings : Tell(c, t)

Spec == Init /\ [][Next]_vars
=============================================================================
