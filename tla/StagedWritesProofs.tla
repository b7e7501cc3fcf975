------------------------- MODULE StagedWritesProofs -------------------------
(***************************************************************************)
(* Theorems about StagedWrites for any set of calls and any two deadlines:  *)
(* type correctness, that a change takes effect only with the user's        *)
(* consent, that replies are true, that a staged transaction has one owner, *)
(* and that StagedWrites implements ApprovedWrites.                         *)
(***************************************************************************)
EXTENDS StagedWrites, TLAPS

(* The dialog's queue holds a request at most once, never one still to be
   delivered; what is read is its head, what is sent answers what is read. *)
QueueInv ==
  /\ \A i, j \in DOMAIN approvals : approvals[i] = approvals[j] => i = j
  /\ \A c \in emitted : \A i \in DOMAIN approvals : approvals[i] # c
  /\ reading # NoCall => approvals # <<>> /\ approvals[1] = reading
  /\ sending # NoSend => /\ reading # NoCall
                         /\ sending.call = reading
                         /\ consent[reading] = sending.value

Unasked == {"idle", "check", "stage", "running", "ask"}

(* A call is queued only after it asked, and while it is queued the user has
   not decided about it, except that the decision may be on its way. *)
AskedInv ==
  /\ \A c \in Calls : c \in emitted => pc[c] \notin Unasked /\ consent[c] = "none"
  /\ \A i \in DOMAIN approvals :
       /\ pc[approvals[i]] \notin Unasked
       /\ consent[approvals[i]] # "none" => sending # NoSend /\ sending.call = approvals[i]
  /\ \A c \in Calls : pc[c] \in Unasked => consent[c] = "none"

(* A "yes" further down the path comes from the user. *)
ConsentInv ==
  \A c \in Calls :
    /\ answer[c] = "yes" => consent[c] = "yes"
    /\ verdict[c] = "yes" => consent[c] = "yes"
    /\ pc[c] \in {"commit", "committing", "ddl", "ddl_running"} => verdict[c] = "yes"
    /\ tx[c] \in {"loose", "applied"} => consent[c] = "yes"

(* Which tools reach which points of a call. *)
ToolInv ==
  \A c \in Calls :
    /\ pc[c] \in {"stage", "running", "commit", "committing", "undo", "undoing"} =>
         tool[c] # "run_ddl"
    /\ pc[c] \in {"ddl", "ddl_running"} => tool[c] = "run_ddl"
    /\ pc[c] \in {"ask", "waiting", "commit", "committing"} => tool[c] # "estimate_impact"
    /\ tx[c] \in {"loose", "applied"} => tool[c] # "estimate_impact"

(* While the application runs, where a call stands says what the server holds. *)
TxInv ==
  alive => \A c \in Calls :
    /\ pc[c] \in {"idle", "check", "stage", "ddl", "ddl_running"} => tx[c] = "none"
    /\ pc[c] = "running" => tx[c] = "running"
    /\ pc[c] \in {"ask", "waiting"} /\ tool[c] = "run_ddl" => tx[c] = "none"
    /\ pc[c] \in {"ask", "waiting"} /\ tool[c] # "run_ddl" => tx[c] \in {"open", "undone"}
    /\ pc[c] \in {"commit", "undo"} => tx[c] \in {"open", "undone"}
    /\ pc[c] \in {"committing", "undoing"} => tx[c] = "open"
    /\ tx[c] = "open" => c \in staged \/ c \in expiring \/ pc[c] \in {"committing", "undoing"}
    /\ c \in staged => tx[c] = "open" /\ c \notin expiring
    /\ c \in expiring => tx[c] = "open"
    /\ pc[c] \in {"committing", "undoing"} => c \notin staged /\ c \notin expiring

(* Only a call that has returned has a reply, and the reply is true. *)
ReplyInv ==
  /\ \A c \in Calls : (reply[c] # "none") <=> (pc[c] = "done")
  /\ TruthfulReplies

(* A registered write's expiry task still sleeps, and has not overslept. *)
LockInv ==
  /\ staged \subseteq armed
  /\ \A c \in armed : age[c] <= StageDeadline

IInv ==
  TypeOK /\ QueueInv /\ AskedInv /\ ConsentInv /\ ToolInv /\ TxInv /\ ReplyInv
  /\ LockInv

-----------------------------------------------------------------------------
(* Type correctness *)

(* The call's variables and the settings keep their types. *)
LEMMA CallsTypeStep ==
  ASSUME CallsTypeOK, answer \in [Calls -> Answers \cup {"none"}], [Next]_vars
  PROVE  CallsTypeOK'
<1> USE DEF CallsTypeOK, PCs, Tools, Replies, TxStates, Answers, Policies, vars, settings, window, bridge, register, call
<1>1. ASSUME NEW c \in Calls, Resolve(c) PROVE CallsTypeOK'
  BY <1>1 DEF Resolve, Finish, Policies
<1>2. ASSUME NEW c \in Calls, Check(c) PROVE CallsTypeOK'
  BY <1>2 DEF Check, Finish, Goto
<1>3. ASSUME NEW c \in Calls, StageBegin(c) PROVE CallsTypeOK'
  <2>1. pc' \in [Calls -> PCs] /\ reply' \in [Calls -> Replies \cup {"none"}]
        /\ policy' \in [Calls -> Policies \cup {NoPolicy}]
    BY <1>3 DEF StageBegin, Finish, Goto
  <2>2. tx' \in [Calls -> TxStates]
    BY <1>3 DEF StageBegin
  <2>3. QED
    BY <1>3, <2>1, <2>2 DEF StageBegin
<1>4. ASSUME NEW c \in Calls, StatementRan(c) PROVE CallsTypeOK'
  BY <1>4 DEF StatementRan, Goto
<1>5. ASSUME NEW c \in Calls, StatementFailed(c) PROVE CallsTypeOK'
  BY <1>5 DEF StatementFailed, Finish
<1>6. ASSUME NEW c \in Calls, AskWindow(c) PROVE CallsTypeOK'
  BY <1>6 DEF AskWindow, Goto, Finish, Conclude
<1>7. ASSUME NEW c \in Calls, Receive(c) PROVE CallsTypeOK'
  <2>1. pc' \in [Calls -> PCs] /\ reply' \in [Calls -> Replies \cup {"none"}]
        /\ policy' \in [Calls -> Policies \cup {NoPolicy}]
    <3>1. answer[c] \in Answers /\ Conclude(c, answer[c])
      BY <1>7 DEF Receive
    <3>2. QED
      BY <3>1 DEF Goto, Finish, Conclude
  <2>2. verdict' \in [Calls -> Answers \cup {"none", "failed"}]
    BY <1>7 DEF Receive, Conclude
  <2>3. QED
    BY <1>7, <2>1, <2>2 DEF Receive
<1>8. ASSUME NEW c \in Calls, DecisionTimesOut(c) PROVE CallsTypeOK'
  <2>1. pc' \in [Calls -> PCs] /\ reply' \in [Calls -> Replies \cup {"none"}]
        /\ policy' \in [Calls -> Policies \cup {NoPolicy}]
    <3>1. Conclude(c, "failed")
      BY <1>8 DEF DecisionTimesOut
    <3>2. QED
      BY <3>1 DEF Goto, Finish, Conclude
  <2>2. verdict' \in [Calls -> Answers \cup {"none", "failed"}]
    BY <1>8 DEF DecisionTimesOut, Conclude
  <2>3. QED
    BY <1>8, <2>1, <2>2 DEF DecisionTimesOut
<1>9. ASSUME NEW c \in Calls, CommitWrite(c) PROVE CallsTypeOK'
  BY <1>9 DEF CommitWrite, take_staged, Goto, Finish
<1>10. ASSUME NEW c \in Calls, CommitEnds(c) PROVE CallsTypeOK'
  <2>1. reply' \in [Calls -> Replies \cup {"none"}] /\ pc' \in [Calls -> PCs]
        /\ policy' \in [Calls -> Policies \cup {NoPolicy}]
    <3>1. Finish(c, "applied") \/ Finish(c, "error")
      BY <1>10 DEF CommitEnds
    <3>2. QED
      BY <3>1 DEF Finish
  <2>2. tx' \in [Calls -> TxStates]
    BY <1>10 DEF CommitEnds
  <2>3. QED
    BY <1>10, <2>1, <2>2 DEF CommitEnds
<1>11. ASSUME NEW c \in Calls, UndoWrite(c) PROVE CallsTypeOK'
  <2>1. UndoneReply(c) \in Replies
    BY DEF UndoneReply
  <2>2. staged' \subseteq Calls
    BY <1>11 DEF UndoWrite, take_staged
  <2>3. pc' \in [Calls -> PCs]
    BY <1>11 DEF UndoWrite, Goto, Finish
  <2>4. reply' \in [Calls -> Replies \cup {"none"}]
    BY <1>11, <2>1 DEF UndoWrite, Goto, Finish
  <2>5. policy' \in [Calls -> Policies \cup {NoPolicy}]
    BY <1>11 DEF UndoWrite, Goto, Finish
  <2>6. QED
    BY <1>11, <2>2, <2>3, <2>4, <2>5 DEF UndoWrite
<1>12. ASSUME NEW c \in Calls, UndoEnds(c) PROVE CallsTypeOK'
  BY <1>12 DEF UndoEnds, Finish, UndoneReply
<1>13. ASSUME NEW c \in Calls, RunDdl(c) PROVE CallsTypeOK'
  BY <1>13 DEF RunDdl, Goto, Finish
<1>14. ASSUME NEW c \in Calls, DdlEnds(c) PROVE CallsTypeOK'
  BY <1>14 DEF DdlEnds, Finish
<1>15. ASSUME NEW c \in Calls, Expire(c) PROVE CallsTypeOK'
  BY <1>15 DEF Expire, take_staged
<1>16. ASSUME NEW c \in Calls, ExpireEnds(c) PROVE CallsTypeOK'
  BY <1>16 DEF ExpireEnds
<1>17. ASSUME NEW c \in Calls, ServerSettles(c) PROVE CallsTypeOK'
  BY <1>17 DEF ServerSettles
<1>18. ASSUME NEW c \in Calls, ShowApproval(c) PROVE CallsTypeOK'
  BY <1>18 DEF ShowApproval
<1>19. CASE UserReads
  BY <1>19 DEF UserReads
<1>20. CASE AnswerArrives
  BY <1>20 DEF AnswerArrives
<1>21. CASE ChangeSettings
  <2>1. grant' \in [shared : BOOLEAN, ddl_unlocked : BOOLEAN]
    <3>1. CASE Share
      BY <3>1 DEF Share
    <3>2. CASE Revoke
      BY <3>2 DEF Revoke
    <3>3. CASE UnlockDdl
      BY <3>3 DEF UnlockDdl
    <3>4. CASE EditProfile \/ Connect \/ Disconnect
      BY <3>4 DEF EditProfile, Connect, Disconnect
    <3>5. QED
      BY <1>21, <3>1, <3>2, <3>3, <3>4 DEF ChangeSettings
  <2>2. profile' \in [read_only : BOOLEAN, production : BOOLEAN]
    BY <1>21 DEF ChangeSettings, Share, Revoke, UnlockDdl, EditProfile, Connect, Disconnect
  <2>3. conn' \in [up : BOOLEAN, read_only : BOOLEAN]
    <3>1. CASE Connect
      <4>1. profile.read_only \in BOOLEAN
        OBVIOUS
      <4>2. QED
        BY <3>1, <4>1 DEF Connect
    <3>2. CASE Disconnect
      BY <3>2 DEF Disconnect
    <3>3. CASE Share \/ Revoke \/ UnlockDdl \/ EditProfile
      BY <3>3 DEF Share, Revoke, UnlockDdl, EditProfile
    <3>4. QED
      BY <1>21, <3>1, <3>2, <3>3 DEF ChangeSettings
  <2>4. QED
    BY <1>21, <2>1, <2>2, <2>3 DEF ChangeSettings
<1>22. CASE Tick
  BY <1>22 DEF Tick
<1>23. CASE Quit
  BY <1>23 DEF Quit
<1>24. CASE UNCHANGED vars
  BY <1>24
<1>25. ASSUME NEW v \in Answers, UserDecides(v) PROVE CallsTypeOK'
  BY <1>25 DEF UserDecides
<1>26. QED
  BY <1>1, <1>2, <1>3, <1>4, <1>5, <1>6, <1>7, <1>8, <1>9, <1>10, <1>11, <1>12, <1>13, <1>14, <1>15, <1>16, <1>17, <1>18, <1>19, <1>20, <1>21, <1>22, <1>23, <1>24, <1>25 DEF Next, CallStep


(* Taking the head out of a queue without repetitions leaves the tail. *)
LEMMA WithoutHead ==
  ASSUME NEW q \in Seq(Calls), q # <<>>,
         \A i, j \in DOMAIN q : q[i] = q[j] => i = j
  PROVE  /\ Without(q, q[1]) \in Seq(Calls)
         /\ DOMAIN Without(q, q[1]) = 1 .. Len(q) - 1
         /\ \A i \in 1 .. Len(q) - 1 : Without(q, q[1])[i] = q[i + 1]
<1>1. Len(q) \in Nat \ {0} /\ DOMAIN q = 1 .. Len(q)
  OBVIOUS
<1>2. 1 \in DOMAIN q
  BY <1>1
<1>3. (CHOOSE i \in DOMAIN q : q[i] = q[1]) = 1
  BY <1>2
<1>4. Without(q, q[1]) = [i \in 1 .. Len(q) - 1 |-> q[IF i < 1 THEN i ELSE i + 1]]
  BY <1>2, <1>3 DEF Without
<1>5. \A i \in 1 .. Len(q) - 1 : q[i + 1] \in Calls
  BY <1>1
<1>6. QED
  BY <1>1, <1>4, <1>5

(* The window's variables keep their types. *)
LEMMA WindowTypeStep ==
  ASSUME WindowTypeOK, QueueInv, [Next]_vars
  PROVE  WindowTypeOK'
<1> USE DEF WindowTypeOK, Answers, NoSend, vars, settings, window, bridge, register, call
<1>1. ASSUME NEW c \in Calls, Resolve(c) PROVE WindowTypeOK'
  BY <1>1 DEF Resolve, Finish, Policies
<1>2. ASSUME NEW c \in Calls, Check(c) PROVE WindowTypeOK'
  BY <1>2 DEF Check, Finish, Goto
<1>3. ASSUME NEW c \in Calls, StageBegin(c) PROVE WindowTypeOK'
  BY <1>3 DEF StageBegin, Finish, Goto
<1>4. ASSUME NEW c \in Calls, StatementRan(c) PROVE WindowTypeOK'
  BY <1>4 DEF StatementRan, Goto
<1>5. ASSUME NEW c \in Calls, StatementFailed(c) PROVE WindowTypeOK'
  BY <1>5 DEF StatementFailed, Finish
<1>6. ASSUME NEW c \in Calls, AskWindow(c) PROVE WindowTypeOK'
  BY <1>6 DEF AskWindow, Goto, Finish, Conclude
<1>7. ASSUME NEW c \in Calls, Receive(c) PROVE WindowTypeOK'
  BY <1>7 DEF Receive, Goto, Finish, Conclude
<1>8. ASSUME NEW c \in Calls, DecisionTimesOut(c) PROVE WindowTypeOK'
  BY <1>8 DEF DecisionTimesOut, Goto, Finish, Conclude
<1>9. ASSUME NEW c \in Calls, CommitWrite(c) PROVE WindowTypeOK'
  BY <1>9 DEF CommitWrite, take_staged, Goto, Finish
<1>10. ASSUME NEW c \in Calls, CommitEnds(c) PROVE WindowTypeOK'
  BY <1>10 DEF CommitEnds, Finish
<1>11. ASSUME NEW c \in Calls, UndoWrite(c) PROVE WindowTypeOK'
  BY <1>11 DEF UndoWrite, take_staged, Goto, Finish, UndoneReply
<1>12. ASSUME NEW c \in Calls, UndoEnds(c) PROVE WindowTypeOK'
  BY <1>12 DEF UndoEnds, Finish, UndoneReply
<1>13. ASSUME NEW c \in Calls, RunDdl(c) PROVE WindowTypeOK'
  BY <1>13 DEF RunDdl, Goto, Finish
<1>14. ASSUME NEW c \in Calls, DdlEnds(c) PROVE WindowTypeOK'
  BY <1>14 DEF DdlEnds, Finish
<1>15. ASSUME NEW c \in Calls, Expire(c) PROVE WindowTypeOK'
  BY <1>15 DEF Expire, take_staged
<1>16. ASSUME NEW c \in Calls, ExpireEnds(c) PROVE WindowTypeOK'
  BY <1>16 DEF ExpireEnds
<1>17. ASSUME NEW c \in Calls, ServerSettles(c) PROVE WindowTypeOK'
  BY <1>17 DEF ServerSettles
<1>18. ASSUME NEW c \in Calls, ShowApproval(c) PROVE WindowTypeOK'
  <2>1. approvals' \in Seq(Calls)
    BY <1>18 DEF ShowApproval
  <2>2. QED
    BY <1>18, <2>1 DEF ShowApproval
<1>19. CASE UserReads
  BY <1>19 DEF UserReads
<1>20. CASE AnswerArrives
  <2>1. approvals # <<>> /\ approvals[1] = sending.call
    BY <1>20 DEF AnswerArrives, QueueInv
  <2>2. approvals' \in Seq(Calls)
    BY <1>20, <2>1, WithoutHead DEF AnswerArrives, QueueInv
  <2>3. QED
    BY <1>20, <2>2 DEF AnswerArrives
<1>21. CASE ChangeSettings
  BY <1>21 DEF ChangeSettings, Share, Revoke, UnlockDdl, EditProfile, Connect, Disconnect
<1>22. CASE Tick
  BY <1>22 DEF Tick
<1>23. CASE Quit
  BY <1>23 DEF Quit
<1>24. CASE UNCHANGED vars
  BY <1>24
<1>25. ASSUME NEW v \in Answers, UserDecides(v) PROVE WindowTypeOK'
  BY <1>25 DEF UserDecides
<1>26. QED
  BY <1>1, <1>2, <1>3, <1>4, <1>5, <1>6, <1>7, <1>8, <1>9, <1>10, <1>11, <1>12, <1>13, <1>14, <1>15, <1>16, <1>17, <1>18, <1>19, <1>20, <1>21, <1>22, <1>23, <1>24, <1>25 DEF Next, CallStep


(* No timer runs past DecisionTimeout. *)
LEMMA ClockTypeStep ==
  ASSUME ClockTypeOK, Deadlines, [Next]_vars
  PROVE  ClockTypeOK'
<1> USE DEF ClockTypeOK, Deadlines, vars, settings, window, bridge, register, call
<1>1. ASSUME NEW c \in Calls, Resolve(c) PROVE ClockTypeOK'
  BY <1>1 DEF Resolve, Finish, Policies
<1>2. ASSUME NEW c \in Calls, Check(c) PROVE ClockTypeOK'
  BY <1>2 DEF Check, Finish, Goto
<1>3. ASSUME NEW c \in Calls, StageBegin(c) PROVE ClockTypeOK'
  BY <1>3 DEF StageBegin, Finish, Goto
<1>4. ASSUME NEW c \in Calls, StatementRan(c) PROVE ClockTypeOK'
  BY <1>4 DEF StatementRan, Goto
<1>5. ASSUME NEW c \in Calls, StatementFailed(c) PROVE ClockTypeOK'
  BY <1>5 DEF StatementFailed, Finish
<1>6. ASSUME NEW c \in Calls, AskWindow(c) PROVE ClockTypeOK'
  BY <1>6 DEF AskWindow, Goto, Finish, Conclude
<1>7. ASSUME NEW c \in Calls, Receive(c) PROVE ClockTypeOK'
  BY <1>7 DEF Receive, Goto, Finish, Conclude
<1>8. ASSUME NEW c \in Calls, DecisionTimesOut(c) PROVE ClockTypeOK'
  BY <1>8 DEF DecisionTimesOut, Goto, Finish, Conclude
<1>9. ASSUME NEW c \in Calls, CommitWrite(c) PROVE ClockTypeOK'
  BY <1>9 DEF CommitWrite, take_staged, Goto, Finish
<1>10. ASSUME NEW c \in Calls, CommitEnds(c) PROVE ClockTypeOK'
  BY <1>10 DEF CommitEnds, Finish
<1>11. ASSUME NEW c \in Calls, UndoWrite(c) PROVE ClockTypeOK'
  BY <1>11 DEF UndoWrite, take_staged, Goto, Finish, UndoneReply
<1>12. ASSUME NEW c \in Calls, UndoEnds(c) PROVE ClockTypeOK'
  BY <1>12 DEF UndoEnds, Finish, UndoneReply
<1>13. ASSUME NEW c \in Calls, RunDdl(c) PROVE ClockTypeOK'
  BY <1>13 DEF RunDdl, Goto, Finish
<1>14. ASSUME NEW c \in Calls, DdlEnds(c) PROVE ClockTypeOK'
  BY <1>14 DEF DdlEnds, Finish
<1>15. ASSUME NEW c \in Calls, Expire(c) PROVE ClockTypeOK'
  BY <1>15 DEF Expire, take_staged
<1>16. ASSUME NEW c \in Calls, ExpireEnds(c) PROVE ClockTypeOK'
  BY <1>16 DEF ExpireEnds
<1>17. ASSUME NEW c \in Calls, ServerSettles(c) PROVE ClockTypeOK'
  BY <1>17 DEF ServerSettles
<1>18. ASSUME NEW c \in Calls, ShowApproval(c) PROVE ClockTypeOK'
  BY <1>18 DEF ShowApproval
<1>19. CASE UserReads
  BY <1>19 DEF UserReads
<1>20. CASE AnswerArrives
  BY <1>20 DEF AnswerArrives
<1>21. CASE ChangeSettings
  BY <1>21 DEF ChangeSettings, Share, Revoke, UnlockDdl, EditProfile, Connect, Disconnect
<1>22. CASE Tick
  BY <1>22 DEF Tick
<1>23. CASE Quit
  BY <1>23 DEF Quit
<1>24. CASE UNCHANGED vars
  BY <1>24
<1>25. ASSUME NEW v \in Answers, UserDecides(v) PROVE ClockTypeOK'
  BY <1>25 DEF UserDecides
<1>26. QED
  BY <1>1, <1>2, <1>3, <1>4, <1>5, <1>6, <1>7, <1>8, <1>9, <1>10, <1>11, <1>12, <1>13, <1>14, <1>15, <1>16, <1>17, <1>18, <1>19, <1>20, <1>21, <1>22, <1>23, <1>24, <1>25 DEF Next, CallStep


-----------------------------------------------------------------------------
(* The inductive invariant, part by part *)

(* The dialog's queue. *)
LEMMA QueueStep ==
  ASSUME WindowTypeOK, QueueInv, AskedInv, NoCallIsNoCall, [Next]_vars
  PROVE  QueueInv'
<1> USE DEF QueueInv, AskedInv, Unasked, WindowTypeOK, NoSend, Answers, NoCallIsNoCall, vars, settings, window, bridge, register, call
<1>1. ASSUME NEW c \in Calls, Resolve(c) PROVE QueueInv'
  BY <1>1 DEF Resolve, Finish, Policies
<1>2. ASSUME NEW c \in Calls, Check(c) PROVE QueueInv'
  BY <1>2 DEF Check, Finish, Goto
<1>3. ASSUME NEW c \in Calls, StageBegin(c) PROVE QueueInv'
  BY <1>3 DEF StageBegin, Finish, Goto
<1>4. ASSUME NEW c \in Calls, StatementRan(c) PROVE QueueInv'
  BY <1>4 DEF StatementRan, Goto
<1>5. ASSUME NEW c \in Calls, StatementFailed(c) PROVE QueueInv'
  BY <1>5 DEF StatementFailed, Finish
<1>6. ASSUME NEW c \in Calls, AskWindow(c) PROVE QueueInv'
  BY <1>6 DEF AskWindow, Goto, Finish, Conclude
<1>7. ASSUME NEW c \in Calls, Receive(c) PROVE QueueInv'
  BY <1>7 DEF Receive, Goto, Finish, Conclude
<1>8. ASSUME NEW c \in Calls, DecisionTimesOut(c) PROVE QueueInv'
  BY <1>8 DEF DecisionTimesOut, Goto, Finish, Conclude
<1>9. ASSUME NEW c \in Calls, CommitWrite(c) PROVE QueueInv'
  BY <1>9 DEF CommitWrite, take_staged, Goto, Finish
<1>10. ASSUME NEW c \in Calls, CommitEnds(c) PROVE QueueInv'
  BY <1>10 DEF CommitEnds, Finish
<1>11. ASSUME NEW c \in Calls, UndoWrite(c) PROVE QueueInv'
  BY <1>11 DEF UndoWrite, take_staged, Goto, Finish, UndoneReply
<1>12. ASSUME NEW c \in Calls, UndoEnds(c) PROVE QueueInv'
  BY <1>12 DEF UndoEnds, Finish, UndoneReply
<1>13. ASSUME NEW c \in Calls, RunDdl(c) PROVE QueueInv'
  BY <1>13 DEF RunDdl, Goto, Finish
<1>14. ASSUME NEW c \in Calls, DdlEnds(c) PROVE QueueInv'
  BY <1>14 DEF DdlEnds, Finish
<1>15. ASSUME NEW c \in Calls, Expire(c) PROVE QueueInv'
  BY <1>15 DEF Expire, take_staged
<1>16. ASSUME NEW c \in Calls, ExpireEnds(c) PROVE QueueInv'
  BY <1>16 DEF ExpireEnds
<1>17. ASSUME NEW c \in Calls, ServerSettles(c) PROVE QueueInv'
  BY <1>17 DEF ServerSettles
<1>18. ASSUME NEW c \in Calls, ShowApproval(c) PROVE QueueInv'
  BY <1>18 DEF ShowApproval
<1>19. CASE UserReads
  BY <1>19 DEF UserReads
<1>20. CASE AnswerArrives
  <2>1. approvals # <<>> /\ approvals[1] = sending.call
    BY <1>20 DEF AnswerArrives
  <2>2. /\ DOMAIN approvals' = 1 .. Len(approvals) - 1
        /\ \A i \in 1 .. Len(approvals) - 1 : approvals'[i] = approvals[i + 1]
    BY <1>20, <2>1, WithoutHead DEF AnswerArrives
  <2>3. \A i \in 1 .. Len(approvals) - 1 : i + 1 \in DOMAIN approvals
    BY <2>1
  <2>4. \A i, j \in DOMAIN approvals' : approvals'[i] = approvals'[j] => i = j
    <3> SUFFICES ASSUME NEW i \in 1 .. Len(approvals) - 1, NEW j \in 1 .. Len(approvals) - 1,
                        approvals[i + 1] = approvals[j + 1]
                 PROVE  i = j
      BY <2>2
    <3>1. i + 1 = j + 1
      BY <2>3
    <3>2. QED
      BY <3>1
  <2>5. \A c \in emitted' : \A i \in DOMAIN approvals' : approvals'[i] # c
    BY <1>20, <2>2, <2>3 DEF AnswerArrives
  <2>6. reading' = NoCall /\ sending' = NoSend
    BY <1>20 DEF AnswerArrives
  <2>7. QED
    BY <2>4, <2>5, <2>6
<1>21. CASE ChangeSettings
  BY <1>21 DEF ChangeSettings, Share, Revoke, UnlockDdl, EditProfile, Connect, Disconnect
<1>22. CASE Tick
  BY <1>22 DEF Tick
<1>23. CASE Quit
  BY <1>23 DEF Quit
<1>24. CASE UNCHANGED vars
  BY <1>24
<1>25. ASSUME NEW v \in Answers, UserDecides(v) PROVE QueueInv'
  BY <1>25 DEF UserDecides
<1>26. QED
  BY <1>1, <1>2, <1>3, <1>4, <1>5, <1>6, <1>7, <1>8, <1>9, <1>10, <1>11, <1>12, <1>13, <1>14, <1>15, <1>16, <1>17, <1>18, <1>19, <1>20, <1>21, <1>22, <1>23, <1>24, <1>25 DEF Next, CallStep


(* What has been asked and decided. *)
LEMMA AskedStep ==
  ASSUME CallsTypeOK, WindowTypeOK, QueueInv, AskedInv, NoCallIsNoCall, [Next]_vars
  PROVE  AskedInv'
<1> USE DEF QueueInv, AskedInv, Unasked, WindowTypeOK, CallsTypeOK, NoSend, Answers, NoCallIsNoCall, vars, settings, window, bridge, register, call
<1>1. ASSUME NEW c \in Calls, Resolve(c) PROVE AskedInv'
  BY <1>1 DEF Resolve, Finish, Policies
<1>2. ASSUME NEW c \in Calls, Check(c) PROVE AskedInv'
  BY <1>2 DEF Check, Finish, Goto
<1>3. ASSUME NEW c \in Calls, StageBegin(c) PROVE AskedInv'
  BY <1>3 DEF StageBegin, Finish, Goto
<1>4. ASSUME NEW c \in Calls, StatementRan(c) PROVE AskedInv'
  BY <1>4 DEF StatementRan, Goto
<1>5. ASSUME NEW c \in Calls, StatementFailed(c) PROVE AskedInv'
  BY <1>5 DEF StatementFailed, Finish
<1>6. ASSUME NEW c \in Calls, AskWindow(c) PROVE AskedInv'
  BY <1>6 DEF AskWindow, Goto, Finish, Conclude
<1>7. ASSUME NEW c \in Calls, Receive(c) PROVE AskedInv'
  BY <1>7 DEF Receive, Goto, Finish, Conclude
<1>8. ASSUME NEW c \in Calls, DecisionTimesOut(c) PROVE AskedInv'
  BY <1>8 DEF DecisionTimesOut, Goto, Finish, Conclude
<1>9. ASSUME NEW c \in Calls, CommitWrite(c) PROVE AskedInv'
  BY <1>9 DEF CommitWrite, take_staged, Goto, Finish
<1>10. ASSUME NEW c \in Calls, CommitEnds(c) PROVE AskedInv'
  BY <1>10 DEF CommitEnds, Finish
<1>11. ASSUME NEW c \in Calls, UndoWrite(c) PROVE AskedInv'
  BY <1>11 DEF UndoWrite, take_staged, Goto, Finish, UndoneReply
<1>12. ASSUME NEW c \in Calls, UndoEnds(c) PROVE AskedInv'
  BY <1>12 DEF UndoEnds, Finish, UndoneReply
<1>13. ASSUME NEW c \in Calls, RunDdl(c) PROVE AskedInv'
  BY <1>13 DEF RunDdl, Goto, Finish
<1>14. ASSUME NEW c \in Calls, DdlEnds(c) PROVE AskedInv'
  BY <1>14 DEF DdlEnds, Finish
<1>15. ASSUME NEW c \in Calls, Expire(c) PROVE AskedInv'
  BY <1>15 DEF Expire, take_staged
<1>16. ASSUME NEW c \in Calls, ExpireEnds(c) PROVE AskedInv'
  BY <1>16 DEF ExpireEnds
<1>17. ASSUME NEW c \in Calls, ServerSettles(c) PROVE AskedInv'
  BY <1>17 DEF ServerSettles
<1>18. ASSUME NEW c \in Calls, ShowApproval(c) PROVE AskedInv'
  BY <1>18 DEF ShowApproval
<1>19. CASE UserReads
  BY <1>19 DEF UserReads
<1>20. CASE AnswerArrives
  <2>1. approvals # <<>> /\ approvals[1] = sending.call
    BY <1>20 DEF AnswerArrives
  <2>2. /\ DOMAIN approvals' = 1 .. Len(approvals) - 1
        /\ \A i \in 1 .. Len(approvals) - 1 : approvals'[i] = approvals[i + 1]
    BY <1>20, <2>1, WithoutHead DEF AnswerArrives
  <2>3. \A i \in 1 .. Len(approvals) - 1 : i + 1 \in DOMAIN approvals
                                          /\ approvals[i + 1] # approvals[1]
    BY <2>1
  <2>4. sending' = NoSend /\ pc' = pc /\ consent' = consent /\ emitted' = emitted
    BY <1>20 DEF AnswerArrives
  <2>5. \A i \in DOMAIN approvals :
          /\ pc[approvals[i]] \notin Unasked
          /\ approvals[i] # sending.call => consent[approvals[i]] = "none"
    OBVIOUS
  <2>6. ASSUME NEW i \in DOMAIN approvals'
        PROVE  pc'[approvals'[i]] \notin Unasked /\ consent'[approvals'[i]] = "none"
    <3>1. i \in 1 .. Len(approvals) - 1 /\ approvals'[i] = approvals[i + 1]
      BY <2>2, <2>6
    <3>2. i + 1 \in DOMAIN approvals /\ approvals[i + 1] # sending.call
      BY <2>1, <2>3, <3>1
    <3>3. pc[approvals[i + 1]] \notin Unasked /\ consent[approvals[i + 1]] = "none"
      BY <2>5, <3>2
    <3>4. QED
      BY <2>4, <3>1, <3>3
  <2>7. QED
    BY <2>4, <2>6
<1>21. CASE ChangeSettings
  BY <1>21 DEF ChangeSettings, Share, Revoke, UnlockDdl, EditProfile, Connect, Disconnect
<1>22. CASE Tick
  BY <1>22 DEF Tick
<1>23. CASE Quit
  BY <1>23 DEF Quit
<1>24. CASE UNCHANGED vars
  BY <1>24
<1>25. ASSUME NEW v \in Answers, UserDecides(v) PROVE AskedInv'
  BY <1>25 DEF UserDecides
<1>26. QED
  BY <1>1, <1>2, <1>3, <1>4, <1>5, <1>6, <1>7, <1>8, <1>9, <1>10, <1>11, <1>12, <1>13, <1>14, <1>15, <1>16, <1>17, <1>18, <1>19, <1>20, <1>21, <1>22, <1>23, <1>24, <1>25 DEF Next, CallStep


(* Consent behind every yes. *)
LEMMA ConsentStep ==
  ASSUME CallsTypeOK, WindowTypeOK, QueueInv, AskedInv, ConsentInv, [Next]_vars
  PROVE  ConsentInv'
<1> USE DEF ConsentInv, CallsTypeOK, WindowTypeOK, Answers, NoSend, QueueInv, AskedInv, Unasked, vars, settings, window, bridge, register, call
<1>1. ASSUME NEW c \in Calls, Resolve(c) PROVE ConsentInv'
  BY <1>1 DEF Resolve, Finish, Policies
<1>2. ASSUME NEW c \in Calls, Check(c) PROVE ConsentInv'
  BY <1>2 DEF Check, Finish, Goto
<1>3. ASSUME NEW c \in Calls, StageBegin(c) PROVE ConsentInv'
  BY <1>3 DEF StageBegin, Finish, Goto
<1>4. ASSUME NEW c \in Calls, StatementRan(c) PROVE ConsentInv'
  BY <1>4 DEF StatementRan, Goto
<1>5. ASSUME NEW c \in Calls, StatementFailed(c) PROVE ConsentInv'
  BY <1>5 DEF StatementFailed, Finish
<1>6. ASSUME NEW c \in Calls, AskWindow(c) PROVE ConsentInv'
  BY <1>6 DEF AskWindow, Goto, Finish, Conclude
<1>7. ASSUME NEW c \in Calls, Receive(c) PROVE ConsentInv'
  BY <1>7 DEF Receive, Goto, Finish, Conclude
<1>8. ASSUME NEW c \in Calls, DecisionTimesOut(c) PROVE ConsentInv'
  BY <1>8 DEF DecisionTimesOut, Goto, Finish, Conclude
<1>9. ASSUME NEW c \in Calls, CommitWrite(c) PROVE ConsentInv'
  BY <1>9 DEF CommitWrite, take_staged, Goto, Finish
<1>10. ASSUME NEW c \in Calls, CommitEnds(c) PROVE ConsentInv'
  BY <1>10 DEF CommitEnds, Finish
<1>11. ASSUME NEW c \in Calls, UndoWrite(c) PROVE ConsentInv'
  BY <1>11 DEF UndoWrite, take_staged, Goto, Finish, UndoneReply
<1>12. ASSUME NEW c \in Calls, UndoEnds(c) PROVE ConsentInv'
  BY <1>12 DEF UndoEnds, Finish, UndoneReply
<1>13. ASSUME NEW c \in Calls, RunDdl(c) PROVE ConsentInv'
  BY <1>13 DEF RunDdl, Goto, Finish
<1>14. ASSUME NEW c \in Calls, DdlEnds(c) PROVE ConsentInv'
  BY <1>14 DEF DdlEnds, Finish
<1>15. ASSUME NEW c \in Calls, Expire(c) PROVE ConsentInv'
  BY <1>15 DEF Expire, take_staged
<1>16. ASSUME NEW c \in Calls, ExpireEnds(c) PROVE ConsentInv'
  BY <1>16 DEF ExpireEnds
<1>17. ASSUME NEW c \in Calls, ServerSettles(c) PROVE ConsentInv'
  BY <1>17 DEF ServerSettles
<1>18. ASSUME NEW c \in Calls, ShowApproval(c) PROVE ConsentInv'
  BY <1>18 DEF ShowApproval
<1>19. CASE UserReads
  BY <1>19 DEF UserReads
<1>20. CASE AnswerArrives
  BY <1>20 DEF AnswerArrives
<1>21. CASE ChangeSettings
  BY <1>21 DEF ChangeSettings, Share, Revoke, UnlockDdl, EditProfile, Connect, Disconnect
<1>22. CASE Tick
  BY <1>22 DEF Tick
<1>23. CASE Quit
  BY <1>23 DEF Quit
<1>24. CASE UNCHANGED vars
  BY <1>24
<1>25. ASSUME NEW v \in Answers, UserDecides(v) PROVE ConsentInv'
  BY <1>25 DEF UserDecides
<1>26. QED
  BY <1>1, <1>2, <1>3, <1>4, <1>5, <1>6, <1>7, <1>8, <1>9, <1>10, <1>11, <1>12, <1>13, <1>14, <1>15, <1>16, <1>17, <1>18, <1>19, <1>20, <1>21, <1>22, <1>23, <1>24, <1>25 DEF Next, CallStep


(* Tools and the points of a call. *)
LEMMA ToolStep ==
  ASSUME CallsTypeOK, ConsentInv, ToolInv, [Next]_vars
  PROVE  ToolInv'
<1> USE DEF ToolInv, CallsTypeOK, Tools, Admits, ClassOf, vars, settings, window, bridge, register, call
<1>1. ASSUME NEW c \in Calls, Resolve(c) PROVE ToolInv'
  BY <1>1 DEF Resolve, Finish, Policies
<1>2. ASSUME NEW c \in Calls, Check(c) PROVE ToolInv'
  BY <1>2 DEF Check, Finish, Goto
<1>3. ASSUME NEW c \in Calls, StageBegin(c) PROVE ToolInv'
  BY <1>3 DEF StageBegin, Finish, Goto
<1>4. ASSUME NEW c \in Calls, StatementRan(c) PROVE ToolInv'
  BY <1>4 DEF StatementRan, Goto
<1>5. ASSUME NEW c \in Calls, StatementFailed(c) PROVE ToolInv'
  BY <1>5 DEF StatementFailed, Finish
<1>6. ASSUME NEW c \in Calls, AskWindow(c) PROVE ToolInv'
  BY <1>6 DEF AskWindow, Goto, Finish, Conclude
<1>7. ASSUME NEW c \in Calls, Receive(c) PROVE ToolInv'
  BY <1>7 DEF Receive, Goto, Finish, Conclude
<1>8. ASSUME NEW c \in Calls, DecisionTimesOut(c) PROVE ToolInv'
  BY <1>8 DEF DecisionTimesOut, Goto, Finish, Conclude
<1>9. ASSUME NEW c \in Calls, CommitWrite(c) PROVE ToolInv'
  BY <1>9 DEF CommitWrite, take_staged, Goto, Finish
<1>10. ASSUME NEW c \in Calls, CommitEnds(c) PROVE ToolInv'
  BY <1>10 DEF CommitEnds, Finish
<1>11. ASSUME NEW c \in Calls, UndoWrite(c) PROVE ToolInv'
  BY <1>11 DEF UndoWrite, take_staged, Goto, Finish, UndoneReply
<1>12. ASSUME NEW c \in Calls, UndoEnds(c) PROVE ToolInv'
  BY <1>12 DEF UndoEnds, Finish, UndoneReply
<1>13. ASSUME NEW c \in Calls, RunDdl(c) PROVE ToolInv'
  BY <1>13 DEF RunDdl, Goto, Finish
<1>14. ASSUME NEW c \in Calls, DdlEnds(c) PROVE ToolInv'
  BY <1>14 DEF DdlEnds, Finish
<1>15. ASSUME NEW c \in Calls, Expire(c) PROVE ToolInv'
  BY <1>15 DEF Expire, take_staged
<1>16. ASSUME NEW c \in Calls, ExpireEnds(c) PROVE ToolInv'
  BY <1>16 DEF ExpireEnds
<1>17. ASSUME NEW c \in Calls, ServerSettles(c) PROVE ToolInv'
  BY <1>17 DEF ServerSettles
<1>18. ASSUME NEW c \in Calls, ShowApproval(c) PROVE ToolInv'
  BY <1>18 DEF ShowApproval
<1>19. CASE UserReads
  BY <1>19 DEF UserReads
<1>20. CASE AnswerArrives
  BY <1>20 DEF AnswerArrives
<1>21. CASE ChangeSettings
  BY <1>21 DEF ChangeSettings, Share, Revoke, UnlockDdl, EditProfile, Connect, Disconnect
<1>22. CASE Tick
  BY <1>22 DEF Tick
<1>23. CASE Quit
  BY <1>23 DEF Quit
<1>24. CASE UNCHANGED vars
  BY <1>24
<1>25. ASSUME NEW v \in Answers, UserDecides(v) PROVE ToolInv'
  BY <1>25 DEF UserDecides
<1>26. QED
  BY <1>1, <1>2, <1>3, <1>4, <1>5, <1>6, <1>7, <1>8, <1>9, <1>10, <1>11, <1>12, <1>13, <1>14, <1>15, <1>16, <1>17, <1>18, <1>19, <1>20, <1>21, <1>22, <1>23, <1>24, <1>25 DEF Next, CallStep


(* The server's side of a running application. *)
LEMMA TxStep ==
  ASSUME CallsTypeOK, ToolInv, TxInv, [Next]_vars
  PROVE  TxInv'
<1> USE DEF TxInv, ToolInv, CallsTypeOK, TxStates, Answers, Tools, vars, settings, window, bridge, register, call
<1>1. ASSUME NEW c \in Calls, Resolve(c) PROVE TxInv'
  BY <1>1 DEF Resolve, Finish, Policies
<1>2. ASSUME NEW c \in Calls, Check(c) PROVE TxInv'
  BY <1>2 DEF Check, Finish, Goto, ClassOf
<1>3. ASSUME NEW c \in Calls, StageBegin(c) PROVE TxInv'
  BY <1>3 DEF StageBegin, Finish, Goto
<1>4. ASSUME NEW c \in Calls, StatementRan(c) PROVE TxInv'
  BY <1>4 DEF StatementRan, Goto
<1>5. ASSUME NEW c \in Calls, StatementFailed(c) PROVE TxInv'
  BY <1>5 DEF StatementFailed, Finish
<1>6. ASSUME NEW c \in Calls, AskWindow(c) PROVE TxInv'
  BY <1>6 DEF AskWindow, Goto, Finish, Conclude
<1>7. ASSUME NEW c \in Calls, Receive(c) PROVE TxInv'
  BY <1>7 DEF Receive, Goto, Finish, Conclude
<1>8. ASSUME NEW c \in Calls, DecisionTimesOut(c) PROVE TxInv'
  BY <1>8 DEF DecisionTimesOut, Goto, Finish, Conclude
<1>9. ASSUME NEW c \in Calls, CommitWrite(c) PROVE TxInv'
  BY <1>9 DEF CommitWrite, take_staged, Goto, Finish
<1>10. ASSUME NEW c \in Calls, CommitEnds(c) PROVE TxInv'
  BY <1>10 DEF CommitEnds, Finish
<1>11. ASSUME NEW c \in Calls, UndoWrite(c) PROVE TxInv'
  BY <1>11 DEF UndoWrite, take_staged, Goto, Finish, UndoneReply
<1>12. ASSUME NEW c \in Calls, UndoEnds(c) PROVE TxInv'
  BY <1>12 DEF UndoEnds, Finish, UndoneReply
<1>13. ASSUME NEW c \in Calls, RunDdl(c) PROVE TxInv'
  BY <1>13 DEF RunDdl, Goto, Finish
<1>14. ASSUME NEW c \in Calls, DdlEnds(c) PROVE TxInv'
  BY <1>14 DEF DdlEnds, Finish
<1>15. ASSUME NEW c \in Calls, Expire(c) PROVE TxInv'
  BY <1>15 DEF Expire, take_staged
<1>16. ASSUME NEW c \in Calls, ExpireEnds(c) PROVE TxInv'
  BY <1>16 DEF ExpireEnds
<1>17. ASSUME NEW c \in Calls, ServerSettles(c) PROVE TxInv'
  BY <1>17 DEF ServerSettles
<1>18. ASSUME NEW c \in Calls, ShowApproval(c) PROVE TxInv'
  BY <1>18 DEF ShowApproval
<1>19. CASE UserReads
  BY <1>19 DEF UserReads
<1>20. CASE AnswerArrives
  BY <1>20 DEF AnswerArrives
<1>21. CASE ChangeSettings
  BY <1>21 DEF ChangeSettings, Share, Revoke, UnlockDdl, EditProfile, Connect, Disconnect
<1>22. CASE Tick
  BY <1>22 DEF Tick
<1>23. CASE Quit
  BY <1>23 DEF Quit
<1>24. CASE UNCHANGED vars
  BY <1>24
<1>25. ASSUME NEW v \in Answers, UserDecides(v) PROVE TxInv'
  BY <1>25 DEF UserDecides
<1>26. QED
  BY <1>1, <1>2, <1>3, <1>4, <1>5, <1>6, <1>7, <1>8, <1>9, <1>10, <1>11, <1>12, <1>13, <1>14, <1>15, <1>16, <1>17, <1>18, <1>19, <1>20, <1>21, <1>22, <1>23, <1>24, <1>25 DEF Next, CallStep


(* Replies. *)
LEMMA ReplyStep ==
  ASSUME CallsTypeOK, TxInv, ToolInv, ReplyInv, [Next]_vars
  PROVE  ReplyInv'
<1> USE DEF ReplyInv, TruthfulReplies, TxInv, ToolInv, CallsTypeOK, Tools, Replies, Answers, vars, settings, window, bridge, register, call
<1>1. ASSUME NEW c \in Calls, Resolve(c) PROVE ReplyInv'
  BY <1>1 DEF Resolve, Finish, Policies
<1>2. ASSUME NEW c \in Calls, Check(c) PROVE ReplyInv'
  BY <1>2 DEF Check, Finish, Goto
<1>3. ASSUME NEW c \in Calls, StageBegin(c) PROVE ReplyInv'
  BY <1>3 DEF StageBegin, Finish, Goto
<1>4. ASSUME NEW c \in Calls, StatementRan(c) PROVE ReplyInv'
  BY <1>4 DEF StatementRan, Goto
<1>5. ASSUME NEW c \in Calls, StatementFailed(c) PROVE ReplyInv'
  BY <1>5 DEF StatementFailed, Finish
<1>6. ASSUME NEW c \in Calls, AskWindow(c) PROVE ReplyInv'
  BY <1>6 DEF AskWindow, Goto, Finish, Conclude
<1>7. ASSUME NEW c \in Calls, Receive(c) PROVE ReplyInv'
  BY <1>7 DEF Receive, Goto, Finish, Conclude
<1>8. ASSUME NEW c \in Calls, DecisionTimesOut(c) PROVE ReplyInv'
  BY <1>8 DEF DecisionTimesOut, Goto, Finish, Conclude
<1>9. ASSUME NEW c \in Calls, CommitWrite(c) PROVE ReplyInv'
  BY <1>9 DEF CommitWrite, take_staged, Goto, Finish
<1>10. ASSUME NEW c \in Calls, CommitEnds(c) PROVE ReplyInv'
  BY <1>10 DEF CommitEnds, Finish
<1>11. ASSUME NEW c \in Calls, UndoWrite(c) PROVE ReplyInv'
  BY <1>11 DEF UndoWrite, take_staged, Goto, Finish, UndoneReply
<1>12. ASSUME NEW c \in Calls, UndoEnds(c) PROVE ReplyInv'
  BY <1>12 DEF UndoEnds, Finish, UndoneReply
<1>13. ASSUME NEW c \in Calls, RunDdl(c) PROVE ReplyInv'
  BY <1>13 DEF RunDdl, Goto, Finish
<1>14. ASSUME NEW c \in Calls, DdlEnds(c) PROVE ReplyInv'
  BY <1>14 DEF DdlEnds, Finish
<1>15. ASSUME NEW c \in Calls, Expire(c) PROVE ReplyInv'
  BY <1>15 DEF Expire, take_staged
<1>16. ASSUME NEW c \in Calls, ExpireEnds(c) PROVE ReplyInv'
  BY <1>16 DEF ExpireEnds
<1>17. ASSUME NEW c \in Calls, ServerSettles(c) PROVE ReplyInv'
  BY <1>17 DEF ServerSettles
<1>18. ASSUME NEW c \in Calls, ShowApproval(c) PROVE ReplyInv'
  BY <1>18 DEF ShowApproval
<1>19. CASE UserReads
  BY <1>19 DEF UserReads
<1>20. CASE AnswerArrives
  BY <1>20 DEF AnswerArrives
<1>21. CASE ChangeSettings
  BY <1>21 DEF ChangeSettings, Share, Revoke, UnlockDdl, EditProfile, Connect, Disconnect
<1>22. CASE Tick
  BY <1>22 DEF Tick
<1>23. CASE Quit
  BY <1>23 DEF Quit
<1>24. CASE UNCHANGED vars
  BY <1>24
<1>25. ASSUME NEW v \in Answers, UserDecides(v) PROVE ReplyInv'
  BY <1>25 DEF UserDecides
<1>26. QED
  BY <1>1, <1>2, <1>3, <1>4, <1>5, <1>6, <1>7, <1>8, <1>9, <1>10, <1>11, <1>12, <1>13, <1>14, <1>15, <1>16, <1>17, <1>18, <1>19, <1>20, <1>21, <1>22, <1>23, <1>24, <1>25 DEF Next, CallStep


(* The expiry tasks. *)
LEMMA LockStep ==
  ASSUME CallsTypeOK, ClockTypeOK, Deadlines, LockInv, [Next]_vars
  PROVE  LockInv'
<1> USE DEF LockInv, CallsTypeOK, ClockTypeOK, Deadlines, vars, settings, window, bridge, register, call
<1>1. ASSUME NEW c \in Calls, Resolve(c) PROVE LockInv'
  BY <1>1 DEF Resolve, Finish, Policies
<1>2. ASSUME NEW c \in Calls, Check(c) PROVE LockInv'
  BY <1>2 DEF Check, Finish, Goto
<1>3. ASSUME NEW c \in Calls, StageBegin(c) PROVE LockInv'
  BY <1>3 DEF StageBegin, Finish, Goto
<1>4. ASSUME NEW c \in Calls, StatementRan(c) PROVE LockInv'
  BY <1>4 DEF StatementRan, Goto
<1>5. ASSUME NEW c \in Calls, StatementFailed(c) PROVE LockInv'
  BY <1>5 DEF StatementFailed, Finish
<1>6. ASSUME NEW c \in Calls, AskWindow(c) PROVE LockInv'
  BY <1>6 DEF AskWindow, Goto, Finish, Conclude
<1>7. ASSUME NEW c \in Calls, Receive(c) PROVE LockInv'
  BY <1>7 DEF Receive, Goto, Finish, Conclude
<1>8. ASSUME NEW c \in Calls, DecisionTimesOut(c) PROVE LockInv'
  BY <1>8 DEF DecisionTimesOut, Goto, Finish, Conclude
<1>9. ASSUME NEW c \in Calls, CommitWrite(c) PROVE LockInv'
  BY <1>9 DEF CommitWrite, take_staged, Goto, Finish
<1>10. ASSUME NEW c \in Calls, CommitEnds(c) PROVE LockInv'
  BY <1>10 DEF CommitEnds, Finish
<1>11. ASSUME NEW c \in Calls, UndoWrite(c) PROVE LockInv'
  BY <1>11 DEF UndoWrite, take_staged, Goto, Finish, UndoneReply
<1>12. ASSUME NEW c \in Calls, UndoEnds(c) PROVE LockInv'
  BY <1>12 DEF UndoEnds, Finish, UndoneReply
<1>13. ASSUME NEW c \in Calls, RunDdl(c) PROVE LockInv'
  BY <1>13 DEF RunDdl, Goto, Finish
<1>14. ASSUME NEW c \in Calls, DdlEnds(c) PROVE LockInv'
  BY <1>14 DEF DdlEnds, Finish
<1>15. ASSUME NEW c \in Calls, Expire(c) PROVE LockInv'
  BY <1>15 DEF Expire, take_staged
<1>16. ASSUME NEW c \in Calls, ExpireEnds(c) PROVE LockInv'
  BY <1>16 DEF ExpireEnds
<1>17. ASSUME NEW c \in Calls, ServerSettles(c) PROVE LockInv'
  BY <1>17 DEF ServerSettles
<1>18. ASSUME NEW c \in Calls, ShowApproval(c) PROVE LockInv'
  BY <1>18 DEF ShowApproval
<1>19. CASE UserReads
  BY <1>19 DEF UserReads
<1>20. CASE AnswerArrives
  BY <1>20 DEF AnswerArrives
<1>21. CASE ChangeSettings
  BY <1>21 DEF ChangeSettings, Share, Revoke, UnlockDdl, EditProfile, Connect, Disconnect
<1>22. CASE Tick
  BY <1>22 DEF Tick
<1>23. CASE Quit
  BY <1>23 DEF Quit
<1>24. CASE UNCHANGED vars
  BY <1>24
<1>25. ASSUME NEW v \in Answers, UserDecides(v) PROVE LockInv'
  BY <1>25 DEF UserDecides
<1>26. QED
  BY <1>1, <1>2, <1>3, <1>4, <1>5, <1>6, <1>7, <1>8, <1>9, <1>10, <1>11, <1>12, <1>13, <1>14, <1>15, <1>16, <1>17, <1>18, <1>19, <1>20, <1>21, <1>22, <1>23, <1>24, <1>25 DEF Next, CallStep


(* Settled changes and replies. *)
LEMMA SettledStep ==
  ASSUME CallsTypeOK, TxInv, ReplyInv, [Next]_vars
  PROVE  SettledNow
<1> USE DEF CallsTypeOK, TxInv, ReplyInv, SettledNow, vars, settings, window, bridge, register, call
<1>1. ASSUME NEW c \in Calls, Resolve(c) PROVE SettledNow
  BY <1>1 DEF Resolve, Finish, Policies
<1>2. ASSUME NEW c \in Calls, Check(c) PROVE SettledNow
  BY <1>2 DEF Check, Finish, Goto
<1>3. ASSUME NEW c \in Calls, StageBegin(c) PROVE SettledNow
  BY <1>3 DEF StageBegin, Finish, Goto
<1>4. ASSUME NEW c \in Calls, StatementRan(c) PROVE SettledNow
  BY <1>4 DEF StatementRan, Goto
<1>5. ASSUME NEW c \in Calls, StatementFailed(c) PROVE SettledNow
  BY <1>5 DEF StatementFailed, Finish
<1>6. ASSUME NEW c \in Calls, AskWindow(c) PROVE SettledNow
  BY <1>6 DEF AskWindow, Goto, Finish, Conclude
<1>7. ASSUME NEW c \in Calls, Receive(c) PROVE SettledNow
  BY <1>7 DEF Receive, Goto, Finish, Conclude
<1>8. ASSUME NEW c \in Calls, DecisionTimesOut(c) PROVE SettledNow
  BY <1>8 DEF DecisionTimesOut, Goto, Finish, Conclude
<1>9. ASSUME NEW c \in Calls, CommitWrite(c) PROVE SettledNow
  BY <1>9 DEF CommitWrite, take_staged, Goto, Finish
<1>10. ASSUME NEW c \in Calls, CommitEnds(c) PROVE SettledNow
  BY <1>10 DEF CommitEnds, Finish
<1>11. ASSUME NEW c \in Calls, UndoWrite(c) PROVE SettledNow
  BY <1>11 DEF UndoWrite, take_staged, Goto, Finish, UndoneReply
<1>12. ASSUME NEW c \in Calls, UndoEnds(c) PROVE SettledNow
  BY <1>12 DEF UndoEnds, Finish, UndoneReply
<1>13. ASSUME NEW c \in Calls, RunDdl(c) PROVE SettledNow
  BY <1>13 DEF RunDdl, Goto, Finish
<1>14. ASSUME NEW c \in Calls, DdlEnds(c) PROVE SettledNow
  BY <1>14 DEF DdlEnds, Finish
<1>15. ASSUME NEW c \in Calls, Expire(c) PROVE SettledNow
  BY <1>15 DEF Expire, take_staged
<1>16. ASSUME NEW c \in Calls, ExpireEnds(c) PROVE SettledNow
  BY <1>16 DEF ExpireEnds
<1>17. ASSUME NEW c \in Calls, ServerSettles(c) PROVE SettledNow
  BY <1>17 DEF ServerSettles
<1>18. ASSUME NEW c \in Calls, ShowApproval(c) PROVE SettledNow
  BY <1>18 DEF ShowApproval
<1>19. CASE UserReads
  BY <1>19 DEF UserReads
<1>20. CASE AnswerArrives
  BY <1>20 DEF AnswerArrives
<1>21. CASE ChangeSettings
  BY <1>21 DEF ChangeSettings, Share, Revoke, UnlockDdl, EditProfile, Connect, Disconnect
<1>22. CASE Tick
  BY <1>22 DEF Tick
<1>23. CASE Quit
  BY <1>23 DEF Quit
<1>24. CASE UNCHANGED vars
  BY <1>24
<1>25. ASSUME NEW v \in Answers, UserDecides(v) PROVE SettledNow
  BY <1>25 DEF UserDecides
<1>26. QED
  BY <1>1, <1>2, <1>3, <1>4, <1>5, <1>6, <1>7, <1>8, <1>9, <1>10, <1>11, <1>12, <1>13, <1>14, <1>15, <1>16, <1>17, <1>18, <1>19, <1>20, <1>21, <1>22, <1>23, <1>24, <1>25 DEF Next, CallStep


-----------------------------------------------------------------------------
(* The invariant is inductive *)

(* It holds initially. *)
LEMMA InitIInv == ASSUME NoCallIsNoCall, Deadlines, Init PROVE IInv
<1>1. CallsTypeOK
  BY DEF Init, CallsTypeOK, PCs, Tools, Replies, TxStates, Policies
<1>2. ClockTypeOK
  BY DEF Init, ClockTypeOK, Deadlines
<1>3. WindowTypeOK
  BY DEF Init, WindowTypeOK, NoSend, Answers
<1>4. QueueInv /\ AskedInv
  BY DEF Init, QueueInv, AskedInv, Unasked
<1>5. ConsentInv /\ ToolInv /\ TxInv
  BY DEF Init, ConsentInv, ToolInv, TxInv
<1>6. ReplyInv /\ LockInv
  BY DEF Init, ReplyInv, TruthfulReplies, LockInv
<1>7. QED
  BY <1>1, <1>2, <1>3, <1>4, <1>5, <1>6 DEF IInv, TypeOK

(* Every step keeps it. *)
LEMMA NextIInv == ASSUME NoCallIsNoCall, Deadlines, IInv, [Next]_vars PROVE IInv'
<1>1. CallsTypeOK /\ ClockTypeOK /\ WindowTypeOK
  BY DEF IInv, TypeOK
<1>2. TypeOK'
  BY <1>1, CallsTypeStep, ClockTypeStep, WindowTypeStep DEF IInv, TypeOK, WindowTypeOK
<1>3. QueueInv' /\ AskedInv' /\ ConsentInv'
  BY <1>1, QueueStep, AskedStep, ConsentStep DEF IInv
<1>4. ToolInv' /\ TxInv' /\ ReplyInv' /\ LockInv'
  BY <1>1, ToolStep, TxStep, ReplyStep, LockStep DEF IInv
<1>5. QED
  BY <1>2, <1>3, <1>4 DEF IInv

(* The inductive invariant holds of every reachable state. *)
THEOREM Invariance == Spec => []IInv
<1>1. Init => IInv
  BY InitIInv, NoCallIsNoCall, Deadlines
<1>2. IInv /\ [Next]_vars => IInv'
  BY NextIInv, NoCallIsNoCall, Deadlines
<1>3. QED
  BY <1>1, <1>2, PTL DEF Spec

(* Every variable keeps its type, whatever calls, user and timers do. *)
THEOREM TypeCorrect == Spec => []TypeOK
<1>1. IInv => TypeOK
  BY DEF IInv
<1>2. QED
  BY <1>1, Invariance, PTL

(* No change reaches the database without a "yes" to that very request, and an
   estimate never does (server.rs, run_write, run_ddl, estimate_impact). *)
THEOREM Consented == Spec => []ConsentBeforeEffect
<1>1. IInv => ConsentBeforeEffect
  BY DEF IInv, ConsentInv, ToolInv, ConsentBeforeEffect
<1>2. QED
  BY <1>1, Invariance, PTL

(* What an agent is told of its call is true, and stays true (server.rs, undo
   and the replies of run_write, run_ddl and estimate_impact). *)
THEOREM Truthful == Spec => []TruthfulReplies
<1>1. IInv => TruthfulReplies
  BY DEF IInv, ReplyInv
<1>2. QED
  BY <1>1, Invariance, PTL

(* An open staged transaction has exactly one owner: the register, the call or
   the expiry task (workspace.rs, take_staged and stage_write). *)
THEOREM SingleOwner == Spec => []OneOwner
<1>1. IInv => OneOwner
  <2> SUFFICES ASSUME TxInv, alive, NEW c \in Calls
               PROVE  IF tx[c] = "open" THEN \E o \in Owners(c) : Owners(c) = {o}
                                        ELSE Owners(c) = {}
    BY DEF IInv, OneOwner
  <2>1. CASE tx[c] # "open"
    BY <2>1 DEF TxInv, Owners
  <2>2. CASE c \in staged
    <3>1. Owners(c) = {"register"} /\ tx[c] = "open"
      BY <2>2 DEF TxInv, Owners
    <3>2. QED
      BY <3>1
  <2>3. CASE c \in expiring
    <3>1. Owners(c) = {"expiry"} /\ tx[c] = "open"
      BY <2>3 DEF TxInv, Owners
    <3>2. QED
      BY <3>1
  <2>4. CASE tx[c] = "open" /\ pc[c] \in {"committing", "undoing"}
    <3>1. Owners(c) = {"call"}
      BY <2>4 DEF TxInv, Owners
    <3>2. QED
      BY <2>4, <3>1
  <2>5. QED
    BY <2>1, <2>2, <2>3, <2>4 DEF TxInv
<1>2. QED
  BY <1>1, Invariance, PTL

(* A staged write is never registered past its deadline, whatever the dialog
   does (workspace.rs, STAGE_DEADLINE; bridge.rs, DECISION_TIMEOUT). *)
THEOREM LockIsShort == Spec => []LockEndsFirst
<1>1. IInv => LockEndsFirst
  <2> SUFFICES ASSUME IInv, NEW c \in Calls, c \in staged
               PROVE  ~(age[c] > StageDeadline)
    BY DEF LockEndsFirst
  <2>1. age[c] <= StageDeadline /\ age[c] \in Nat /\ StageDeadline \in Nat
    BY Deadlines DEF IInv, LockInv, TypeOK, ClockTypeOK, Deadlines
  <2>2. QED
    BY <2>1
<1>2. QED
  BY <1>1, Invariance, PTL

(* The dialog's click answers what the user was reading (ApprovalDialog.tsx,
   decide; agentStore.ts, showApproval). *)
THEOREM ClickAnswersWhatWasRead == Spec => []ClickIsForWhatWasRead
<1>1. IInv => ClickIsForWhatWasRead
  BY DEF IInv, QueueInv, ClickIsForWhatWasRead
<1>2. QED
  BY <1>1, Invariance, PTL

(* A settled change and a reply are final. *)
THEOREM SettledForGood == Spec => Settled
<1>1. IInv /\ [Next]_vars => [SettledNow]_vars
  BY SettledStep DEF IInv, TypeOK
<1>2. QED
  BY <1>1, Invariance, PTL DEF Spec, Settled


-----------------------------------------------------------------------------
(* StagedWrites implements ApprovedWrites *)

SameEffect == \A c \in Calls : tx'[c] = "applied" <=> tx[c] = "applied"

(* A step that changes nothing the promise speaks of. *)
LEMMA Stutters ==
  ASSUME consent' = consent, reply' = reply, SameEffect
  PROVE  UNCHANGED Promise!vars
<1>1. effect' = effect
  BY DEF effect, SameEffect
<1>2. told' = told
  BY DEF told
<1>3. QED
  BY <1>1, <1>2 DEF Promise!vars

(* A call that returns while its change is not in the database. *)
LEMMA Tells ==
  ASSUME CallsTypeOK, NEW c \in Calls, reply[c] = "none", tx[c] # "applied",
         consent' = consent, SameEffect,
         NEW r \in Replies \ {"applied"}, reply' = [reply EXCEPT ![c] = r]
  PROVE  Promise!Next
<1> DEFINE t == IF r = "error" THEN "unknown" ELSE "notApplied"
<1>1. effect' = effect /\ effect[c] = "none"
  BY DEF effect, SameEffect
<1>2. told[c] = "none"
  BY DEF told
<1>3. told' = [told EXCEPT ![c] = t]
  BY DEF told, CallsTypeOK, Replies
<1>4. t \in {"notApplied", "unknown"}
  OBVIOUS
<1>5. Promise!Tell(c, t)
  BY <1>1, <1>2, <1>3, <1>4 DEF Promise!Tell
<1>6. QED
  BY <1>4, <1>5 DEF Promise!Next, Promise!Tellings

(* A change that takes effect: the user said yes, and the agent is told in
   the same step, or was told that nobody knows. *)
LEMMA Applies ==
  ASSUME CallsTypeOK, NEW c \in Calls, consent[c] = "yes", tx[c] # "applied",
         consent' = consent, tx' = [tx EXCEPT ![c] = "applied"],
         \/ reply' = reply /\ reply[c] \in {"none", "error"}
         \/ reply[c] = "none" /\ reply' = [reply EXCEPT ![c] = "applied"]
  PROVE  Promise!Next
<1>1. effect[c] = "none" /\ effect' = [effect EXCEPT ![c] = "applied"]
  BY DEF effect, CallsTypeOK
<1>2. told[c] \in {"none", "unknown"}
  BY DEF told
<1>3. told' = told \/ (told[c] = "none" /\ told' = [told EXCEPT ![c] = "applied"])
  <2>1. CASE reply' = reply
    BY <2>1 DEF told
  <2>2. CASE reply[c] = "none" /\ reply' = [reply EXCEPT ![c] = "applied"]
    BY <2>2 DEF told, CallsTypeOK
  <2>3. QED
    BY <2>1, <2>2
<1>4. Promise!Apply(c)
  BY <1>1, <1>2, <1>3 DEF Promise!Apply
<1>5. QED
  BY <1>4 DEF Promise!Next

(* Every step is a step of the promise or leaves what it speaks of alone. *)
LEMMA PromiseStep ==
  ASSUME IInv, [Next]_vars
  PROVE  [Promise!Next]_(Promise!vars)
<1> DEFINE P == Promise!Next \/ UNCHANGED Promise!vars
<1> USE DEF vars, settings, window, bridge, register, call
<1>0. /\ CallsTypeOK
      /\ \A c \in Calls : reply[c] # "none" <=> pc[c] = "done"
  BY DEF IInv, TypeOK, ReplyInv
<1>1. ASSUME NEW c \in Calls, Resolve(c) PROVE P
  <2>1. /\ reply[c] = "none" /\ tx[c] # "applied"
        /\ consent' = consent /\ SameEffect
    BY <1>0, <1>1 DEF IInv, TxInv, Resolve, SameEffect, CallsTypeOK
  <2>2. reply' = reply \/ \E r \in Replies \ {"applied"} : reply' = [reply EXCEPT ![c] = r]
    BY <1>1 DEF Resolve, Finish, Replies
  <2>3. QED
    BY <1>0, <2>1, <2>2, Stutters, Tells
<1>2. ASSUME NEW c \in Calls, Check(c) PROVE P
  <2>1. /\ reply[c] = "none" /\ tx[c] # "applied"
        /\ consent' = consent /\ SameEffect
    BY <1>0, <1>2 DEF IInv, TxInv, Check, SameEffect, CallsTypeOK
  <2>2. reply' = reply \/ \E r \in Replies \ {"applied"} : reply' = [reply EXCEPT ![c] = r]
    BY <1>2 DEF Check, Finish, Goto, Replies
  <2>3. QED
    BY <1>0, <2>1, <2>2, Stutters, Tells
<1>3. ASSUME NEW c \in Calls, StageBegin(c) PROVE P
  <2>1. /\ reply[c] = "none" /\ tx[c] # "applied"
        /\ consent' = consent /\ SameEffect
    BY <1>0, <1>3 DEF IInv, TxInv, StageBegin, Goto, Finish, SameEffect, CallsTypeOK
  <2>2. reply' = reply \/ \E r \in Replies \ {"applied"} : reply' = [reply EXCEPT ![c] = r]
    BY <1>3 DEF StageBegin, Finish, Goto, Replies
  <2>3. QED
    BY <1>0, <2>1, <2>2, Stutters, Tells
<1>4. ASSUME NEW c \in Calls, StatementRan(c) PROVE P
  <2>1. /\ reply[c] = "none" /\ tx[c] # "applied"
        /\ consent' = consent /\ SameEffect
    BY <1>0, <1>4 DEF IInv, TxInv, StatementRan, Goto, SameEffect, CallsTypeOK
  <2>2. reply' = reply \/ \E r \in Replies \ {"applied"} : reply' = [reply EXCEPT ![c] = r]
    BY <1>4 DEF StatementRan, Goto, Replies
  <2>3. QED
    BY <1>0, <2>1, <2>2, Stutters, Tells
<1>5. ASSUME NEW c \in Calls, StatementFailed(c) PROVE P
  <2>1. /\ reply[c] = "none" /\ tx[c] # "applied"
        /\ consent' = consent /\ SameEffect
    BY <1>0, <1>5 DEF IInv, TxInv, StatementFailed, SameEffect, CallsTypeOK
  <2>2. reply' = reply \/ \E r \in Replies \ {"applied"} : reply' = [reply EXCEPT ![c] = r]
    BY <1>5 DEF StatementFailed, Finish, Replies
  <2>3. QED
    BY <1>0, <2>1, <2>2, Stutters, Tells
<1>6. ASSUME NEW c \in Calls, AskWindow(c) PROVE P
  <2>1. /\ reply[c] = "none" /\ tx[c] # "applied"
        /\ consent' = consent /\ SameEffect
    BY <1>0, <1>6 DEF IInv, TxInv, AskWindow, SameEffect, CallsTypeOK
  <2>2. reply' = reply \/ \E r \in Replies \ {"applied"} : reply' = [reply EXCEPT ![c] = r]
    BY <1>6 DEF AskWindow, Conclude, Finish, Goto, Replies
  <2>3. QED
    BY <1>0, <2>1, <2>2, Stutters, Tells
<1>7. ASSUME NEW c \in Calls, Receive(c) PROVE P
  <2>1. /\ reply[c] = "none" /\ tx[c] # "applied"
        /\ consent' = consent /\ SameEffect
    BY <1>0, <1>7 DEF IInv, TxInv, Receive, SameEffect, CallsTypeOK
  <2>2. reply' = reply \/ \E r \in Replies \ {"applied"} : reply' = [reply EXCEPT ![c] = r]
    BY <1>7 DEF Receive, Conclude, Finish, Goto, Replies
  <2>3. QED
    BY <1>0, <2>1, <2>2, Stutters, Tells
<1>8. ASSUME NEW c \in Calls, DecisionTimesOut(c) PROVE P
  <2>1. /\ reply[c] = "none" /\ tx[c] # "applied"
        /\ consent' = consent /\ SameEffect
    BY <1>0, <1>8 DEF IInv, TxInv, DecisionTimesOut, SameEffect, CallsTypeOK
  <2>2. reply' = reply \/ \E r \in Replies \ {"applied"} : reply' = [reply EXCEPT ![c] = r]
    BY <1>8 DEF DecisionTimesOut, Conclude, Finish, Goto, Replies
  <2>3. QED
    BY <1>0, <2>1, <2>2, Stutters, Tells
<1>9. ASSUME NEW c \in Calls, CommitWrite(c) PROVE P
  <2>1. /\ reply[c] = "none" /\ tx[c] # "applied"
        /\ consent' = consent /\ SameEffect
    BY <1>0, <1>9 DEF IInv, TxInv, CommitWrite, SameEffect, CallsTypeOK
  <2>2. reply' = reply \/ \E r \in Replies \ {"applied"} : reply' = [reply EXCEPT ![c] = r]
    BY <1>9 DEF CommitWrite, Finish, Goto, Replies
  <2>3. QED
    BY <1>0, <2>1, <2>2, Stutters, Tells
<1>10. ASSUME NEW c \in Calls, UndoWrite(c) PROVE P
  <2>1. /\ reply[c] = "none" /\ tx[c] # "applied"
        /\ consent' = consent /\ SameEffect
    BY <1>0, <1>10 DEF IInv, TxInv, UndoWrite, SameEffect, CallsTypeOK
  <2>2. reply' = reply \/ \E r \in Replies \ {"applied"} : reply' = [reply EXCEPT ![c] = r]
    BY <1>10 DEF UndoWrite, UndoneReply, Finish, Goto, Replies
  <2>3. QED
    BY <1>0, <2>1, <2>2, Stutters, Tells
<1>11. ASSUME NEW c \in Calls, UndoEnds(c) PROVE P
  <2>1. /\ reply[c] = "none" /\ tx[c] # "applied"
        /\ consent' = consent /\ SameEffect
    BY <1>0, <1>11 DEF IInv, TxInv, UndoEnds, SameEffect, CallsTypeOK
  <2>2. reply' = reply \/ \E r \in Replies \ {"applied"} : reply' = [reply EXCEPT ![c] = r]
    BY <1>11 DEF UndoEnds, UndoneReply, Finish, Replies
  <2>3. QED
    BY <1>0, <2>1, <2>2, Stutters, Tells
<1>12. ASSUME NEW c \in Calls, RunDdl(c) PROVE P
  <2>1. /\ reply[c] = "none" /\ tx[c] # "applied"
        /\ consent' = consent /\ SameEffect
    BY <1>0, <1>12 DEF IInv, TxInv, RunDdl, SameEffect, CallsTypeOK
  <2>2. reply' = reply \/ \E r \in Replies \ {"applied"} : reply' = [reply EXCEPT ![c] = r]
    BY <1>12 DEF RunDdl, Finish, Goto, Replies
  <2>3. QED
    BY <1>0, <2>1, <2>2, Stutters, Tells
<1>13. ASSUME NEW c \in Calls, CommitEnds(c) PROVE P
  <2>1. /\ reply[c] = "none" /\ tx[c] # "applied"
        /\ consent[c] = "yes" /\ consent' = consent
    BY <1>0, <1>13 DEF IInv, TxInv, ConsentInv, CommitEnds
  <2>2. CASE tx' = [tx EXCEPT ![c] = "applied"] /\ Finish(c, "applied")
    BY <1>0, <2>1, <2>2, Applies DEF Finish
  <2>3. CASE tx' = [tx EXCEPT ![c] = "loose"] /\ Finish(c, "error")
    <3>1. SameEffect
      BY <1>0, <2>1, <2>3 DEF SameEffect, CallsTypeOK
    <3>2. QED
      BY <1>0, <2>1, <2>3, <3>1, Tells DEF Finish, Replies
  <2>4. QED
    BY <1>13, <2>2, <2>3 DEF CommitEnds
<1>14. ASSUME NEW c \in Calls, DdlEnds(c) PROVE P
  <2>1. /\ reply[c] = "none" /\ tx[c] # "applied"
        /\ consent[c] = "yes" /\ consent' = consent
    BY <1>0, <1>14 DEF IInv, TxInv, ConsentInv, DdlEnds
  <2>2. CASE tx' = [tx EXCEPT ![c] = "applied"] /\ Finish(c, "applied")
    BY <1>0, <2>1, <2>2, Applies DEF Finish
  <2>3. CASE tx' = [tx EXCEPT ![c] = "loose"] /\ Finish(c, "error")
    <3>1. SameEffect
      BY <1>0, <2>1, <2>3 DEF SameEffect, CallsTypeOK
    <3>2. QED
      BY <1>0, <2>1, <2>3, <3>1, Tells DEF Finish, Replies
  <2>4. QED
    BY <1>14, <2>2, <2>3 DEF DdlEnds
<1>15. ASSUME NEW c \in Calls, ServerSettles(c) PROVE P
  <2>1. /\ tx[c] = "loose" /\ consent[c] = "yes" /\ consent' = consent /\ reply' = reply
        /\ reply[c] \in {"none", "error"}
    BY <1>0, <1>15 DEF IInv, ConsentInv, ReplyInv, TruthfulReplies, ServerSettles, CallsTypeOK, Replies
  <2>2. CASE tx' = [tx EXCEPT ![c] = "applied"]
    BY <1>0, <2>1, <2>2, Applies
  <2>3. CASE tx' = [tx EXCEPT ![c] = "undone"]
    <3>1. SameEffect
      BY <1>0, <2>1, <2>3 DEF SameEffect, CallsTypeOK
    <3>2. QED
      BY <2>1, <3>1, Stutters
  <2>4. QED
    BY <1>15, <2>2, <2>3 DEF ServerSettles
<1>16. ASSUME NEW v \in Answers, UserDecides(v) PROVE P
  <2>1. reading \in Calls /\ consent[reading] = "none"
    BY <1>16 DEF IInv, TypeOK, WindowTypeOK, QueueInv, AskedInv, UserDecides
  <2>2. effect' = effect /\ told' = told
    BY <1>16 DEF UserDecides, effect, told
  <2>3. Promise!Consent(reading, v)
    BY <1>16, <2>1, <2>2 DEF UserDecides, Promise!Consent
  <2>4. QED
    BY <2>1, <2>3 DEF Promise!Next, Promise!Answers, Answers
<1>17. CASE Quit
  <2>1. SameEffect
    BY <1>0, <1>17 DEF IInv, TxInv, Quit, SameEffect, CallsTypeOK
  <2>2. QED
    BY <1>17, <2>1, Stutters DEF Quit
<1>18. ASSUME NEW c \in Calls, Expire(c) PROVE P
  <2>1. consent' = consent /\ reply' = reply /\ SameEffect
    BY <1>0, <1>18 DEF Expire, SameEffect, CallsTypeOK
  <2>2. QED
    BY <2>1, Stutters
<1>19. ASSUME NEW c \in Calls, ExpireEnds(c) PROVE P
  <2>1. consent' = consent /\ reply' = reply /\ SameEffect
    BY <1>0, <1>19 DEF ExpireEnds, IInv, TxInv, SameEffect, CallsTypeOK
  <2>2. QED
    BY <2>1, Stutters
<1>20. ASSUME NEW c \in Calls, ShowApproval(c) PROVE P
  <2>1. consent' = consent /\ reply' = reply /\ SameEffect
    BY <1>0, <1>20 DEF ShowApproval, SameEffect, CallsTypeOK
  <2>2. QED
    BY <2>1, Stutters
<1>21. CASE UserReads
  <2>1. consent' = consent /\ reply' = reply /\ SameEffect
    BY <1>0, <1>21 DEF UserReads, SameEffect, CallsTypeOK
  <2>2. QED
    BY <2>1, Stutters
<1>22. CASE AnswerArrives
  <2>1. consent' = consent /\ reply' = reply /\ SameEffect
    BY <1>0, <1>22 DEF AnswerArrives, SameEffect, CallsTypeOK
  <2>2. QED
    BY <2>1, Stutters
<1>23. CASE ChangeSettings
  <2>1. consent' = consent /\ reply' = reply /\ SameEffect
    BY <1>0, <1>23 DEF ChangeSettings, SameEffect, CallsTypeOK
  <2>2. QED
    BY <2>1, Stutters
<1>24. CASE Tick
  <2>1. consent' = consent /\ reply' = reply /\ SameEffect
    BY <1>0, <1>24 DEF Tick, SameEffect, CallsTypeOK
  <2>2. QED
    BY <2>1, Stutters
<1>25. CASE UNCHANGED vars
  <2>1. consent' = consent /\ reply' = reply /\ SameEffect
    BY <1>25 DEF SameEffect
  <2>2. QED
    BY <2>1, Stutters
<1>26. QED
  BY <1>1, <1>2, <1>3, <1>4, <1>5, <1>6, <1>7, <1>8, <1>9, <1>10, <1>11, <1>12, <1>13, <1>14, <1>15, <1>16, <1>17, <1>18, <1>19, <1>20, <1>21, <1>22, <1>23, <1>24, <1>25 DEF Next, CallStep

(* The mechanism implements the promise: whatever happens, what it does is
   what ApprovedWrites allows. *)
THEOREM Implements == Spec => ImplementsPromise
<1>1. Init => Promise!Init
  BY DEF Init, Promise!Init, effect, told
<1>2. IInv /\ [Next]_vars => [Promise!Next]_(Promise!vars)
  BY PromiseStep
<1>3. QED
  BY <1>1, <1>2, Invariance, PTL DEF Spec, ImplementsPromise, Promise!Spec
=============================================================================
