---------------------------- MODULE GridEditing ----------------------------
(***************************************************************************)
(* The results grid of one editor tab: the edits pending on its rows and   *)
(* their history (hooks/useGridEditing.ts), what is kept of them while the *)
(* tab is hidden (lib/grid-memory.ts) and counted for the prompt a run     *)
(* asks (lib/unsaved-grid-edits.ts), how rows are addressed (useRowKey.ts) *)
(* and saving (useGridSave.ts).                                            *)
(*                                                                         *)
(* Results replace one another in the tab; the grid is mounted anew each   *)
(* time its tab is shown.  Saves, runs and schema reads answer in their    *)
(* own time.                                                               *)
(***************************************************************************)
EXTENDS Naturals, Sequences, SequencesExt, FiniteSets

CONSTANTS
  Cells, Values,  \* cells of a result, and what they can be changed to
  Rows,           \* rows that can be marked for deletion
  Queries,        \* what the tab runs, each on one table; of these
  Keyed,          \*   the table's key is among the columns on screen,
  Keyless,        \*   the table has none, or (the rest) its key was not selected
  First,          \* the query whose result is on screen at the start
  MaxResults,     \* bounds: results the tab shows one after the other,
  MaxSteps,       \* steps of history, undone ones included,
  MaxInserts,     \* rows added,
  MaxSaves,       \* saves of earlier mounts under way as Save is pressed: fewer than this; and
  MaxMounts,      \* times the tab is shown
  Reedits,        \* whether a changed cell is edited again (a bound too), and
  StaleHistory,   \* whether Undo and Redo are used on steps made on an earlier result
  Null

ASSUME GridAssumption ==
  /\ First \in Queries /\ Keyed \subseteq Queries /\ Keyless \subseteq Queries \ Keyed
  /\ {MaxSteps, MaxInserts, MaxSaves} \subseteq Nat /\ {MaxResults, MaxMounts} \subseteq Nat \ {0}
  /\ {Reedits, StaleHistory} \subseteq BOOLEAN
  /\ Null \notin Cells \cup Values \cup Rows \cup Queries

VARIABLES
  result, query, \* the result on screen, by number, and what was run for it (Null: it failed)
  run,           \* the run in flight, Null when there is none
  shown, mounts, \* whether the tab is the active one, and how often its grid was mounted
  editMode, pending, undone, done, \* useGridEditing; done and undone are its two stacks
  kept,          \* grid-memory's entry for the tab
  counted,       \* unsaved-grid-edits: whether the tab has edits noted
  key, asking,   \* useRowKey: the query its state is about, and the schema read in flight
  saves,         \* saves under way
  inserts,       \* rows added so far, which numbers them
  applied,       \* how often the row of each insert was inserted
  away           \* whether the tab was hidden while a save of it was under way

vars == <<result, query, run, shown, mounts, editMode, pending, undone, done, kept, counted,
          key, asking, saves, inserts, applied, away>>
editing == <<editMode, pending, undone, done>>
view    == <<result, query, run, shown, mounts, kept, away>>
saved   == <<saves, applied>>

(***************************************************************************)
(* Edits and their history                                                 *)
(***************************************************************************)
\* on: the results the edits were made on, which the code does not keep.
Nothing == [cells |-> [c \in Cells |-> Null], inserts |-> <<>>, deletes |-> {}, on |-> {}]
Holds(p) == p.inserts # <<>> \/ p.deletes # {} \/ \E c \in Cells : p.cells[c] # Null

\* The edits p with `made' on result r; without edits they are on no result.
On(p, r) == [p EXCEPT !.on = IF Holds(p) THEN p.on \cup {r} ELSE {}]

SetCell(c, v)       == [type |-> "setCell", at |-> c, value |-> v]
AddInsertRow(i, n)  == [type |-> "addInsertRow", at |-> i, value |-> n]
RemoveInsertRow(i)  == [type |-> "removeInsertRow", at |-> i, value |-> Null]
SetInsertCell(i, v) == [type |-> "setInsertCell", at |-> i, value |-> v]
SetDeleted(r, on)   == [type |-> "setDeleted", at |-> r, value |-> on]

\* A cell back at its stored value (Null) is no change any more.
applyAction(a, p) ==
  CASE a.type = "setCell"         -> [p EXCEPT !.cells[a.at] = a.value]
    [] a.type = "addInsertRow"    -> [p EXCEPT !.inserts = InsertAt(@, a.at, [row |-> a.value, value |-> Null])]
    [] a.type = "removeInsertRow" -> [p EXCEPT !.inserts = RemoveAt(@, a.at)]
    [] a.type = "setInsertCell"   -> [p EXCEPT !.inserts[a.at].value = a.value]
    [] a.type = "setDeleted"      -> [p EXCEPT !.deletes = IF a.value THEN @ \cup {a.at} ELSE @ \ {a.at}]

\* pushUndo: a step, as the action that takes it back and the one that puts it back.
Step(back, forth) ==
  /\ Len(done) < MaxSteps
  /\ pending' = On(applyAction(forth, pending), result)
  /\ done' = Append(done, [undo |-> back, redo |-> forth, on |-> result])
  /\ undone' = <<>>
  /\ counted' = Holds(pending')

\* The rows are on screen: not while a run of the tab is in flight, nor after one failed.
Editable == shown /\ editMode /\ run = Null /\ query # Null

editCell ==
  /\ Editable
  /\ \E c \in Cells, v \in Values \cup {Null} :
       /\ pending.cells[c] # v
       /\ pending.cells[c] = Null \/ Reedits
       /\ Step(SetCell(c, Null), SetCell(c, v))
  /\ UNCHANGED <<view, editMode, key, asking, saved, inserts>>

addRow ==
  /\ Editable /\ inserts < MaxInserts
  /\ inserts' = inserts + 1
  /\ LET i == Len(pending.inserts) + 1 IN Step(RemoveInsertRow(i), AddInsertRow(i, inserts'))
  /\ UNCHANGED <<view, editMode, key, asking, saved>>

editInsertCell ==
  /\ Editable
  /\ \E i \in DOMAIN pending.inserts, v \in Values :
       Step(SetInsertCell(i, pending.inserts[i].value), SetInsertCell(i, v))
  /\ UNCHANGED <<view, editMode, key, asking, saved, inserts>>

deleteRow ==
  /\ Editable
  /\ \E r \in Rows : Step(SetDeleted(r, r \in pending.deletes), SetDeleted(r, r \notin pending.deletes))
  /\ UNCHANGED <<view, editMode, key, asking, saved, inserts>>

\* The shortcuts act in Edit Mode, whatever is on screen.
undo ==
  /\ shown /\ editMode /\ done # <<>>
  /\ StaleHistory \/ Last(done).on = result
  /\ pending' = On(applyAction(Last(done).undo, pending), Last(done).on)
  /\ done' = Front(done)
  /\ undone' = Append(undone, Last(done))
  /\ counted' = Holds(pending')
  /\ UNCHANGED <<view, editMode, key, asking, saved, inserts>>

redo ==
  /\ shown /\ editMode /\ undone # <<>>
  /\ StaleHistory \/ Last(undone).on = result
  /\ pending' = On(applyAction(Last(undone).redo, pending), Last(undone).on)
  /\ undone' = Front(undone)
  /\ done' = Append(done, Last(undone))
  /\ counted' = Holds(pending')
  /\ UNCHANGED <<view, editMode, key, asking, saved, inserts>>

Cleared == pending' = Nothing /\ done' = <<>> /\ undone' = <<>>

discardAll ==
  /\ Editable /\ Holds(pending)
  /\ Cleared
  /\ counted' = FALSE
  /\ UNCHANGED <<view, editMode, key, asking, saved, inserts>>

\* Mutant of toggleEditMode: leaving keeps the edits for the next time.
toggleKeepingEdits ==
  /\ shown /\ run = Null /\ query # Null
  /\ editMode' = ~editMode
  /\ UNCHANGED <<view, pending, done, undone, counted, key, asking, saved, inserts>>

\* Leaving Edit Mode discards; entering needs to know where the result came from.
toggleEditMode ==
  /\ shown /\ run = Null /\ query # Null
  /\ editMode' = ~editMode
  /\ IF editMode THEN Cleared /\ counted' = FALSE
     ELSE UNCHANGED <<pending, done, undone, counted>>
  /\ UNCHANGED <<view, key, asking, saved, inserts>>

(***************************************************************************)
(* Results that replace one another, and the tab hidden and shown          *)
(***************************************************************************)
\* Mutant of KeyRead: the read of an earlier query is not called off.
KeyReadOvertaken(q) ==
  IF q = query THEN UNCHANGED <<key, asking>>
  ELSE IF q = Null THEN key' = Null /\ asking' = Null
  ELSE asking' = (IF asking = Null THEN q ELSE asking) /\ UNCHANGED key

\* useRowKey's effect: another query has the schema read, and the state stays until it answers.
KeyRead(q) ==
  IF q = query THEN UNCHANGED <<key, asking>>
  ELSE IF q = Null THEN key' = Null /\ asking' = Null
  ELSE asking' = q /\ UNCHANGED key

\* useGridEditing on a new owner: pending edits go, and Edit Mode with them.
DropEdits ==
  IF Holds(pending) THEN Cleared /\ editMode' = FALSE /\ counted' = FALSE
  ELSE UNCHANGED <<editing, counted>>

\* Mutant of NewResult: a change of results is not looked at.
NewResultOverEdits(q) ==
  /\ result < MaxResults
  /\ result' = result + 1
  /\ query' = q
  /\ IF shown THEN KeyRead(q) ELSE UNCHANGED <<key, asking>>
  /\ UNCHANGED <<editing, counted>>

NewResult(q) ==
  /\ result < MaxResults
  /\ result' = result + 1
  /\ query' = q
  /\ IF shown THEN DropEdits /\ KeyRead(q) ELSE UNCHANGED <<editing, counted, key, asking>>

\* A run in the tab; with edits noted it asks first, and here the user agrees.
executeQuery ==
  /\ shown /\ result < MaxResults
  /\ \E q \in Queries : run' = q
  /\ UNCHANGED <<result, query, shown, mounts, kept, away, editing, counted, key, asking, saved, inserts>>

\* The latest run answers, or fails or is cancelled, which shows nothing.
RunEnds ==
  /\ run # Null
  /\ \E q \in {run, Null} : NewResult(q)
  /\ run' = Null
  /\ UNCHANGED <<shown, mounts, kept, away, saved, inserts>>

\* Another of a script's results is shown.
setActiveResult ==
  /\ shown /\ run = Null /\ query # Null
  /\ \E q \in Queries : NewResult(q)
  /\ UNCHANGED <<run, shown, mounts, kept, away, saved, inserts>>

\* EditingDraft, and the results it is about.
Draft ==
  IF ~editMode /\ ~Holds(pending) THEN Null
  ELSE [owner |-> result, editMode |-> editMode, pending |-> pending, done |-> done, undone |-> undone]

\* Mutant of keepGrid: the tab's count goes with its grid.
hideUncounted ==
  /\ shown /\ mounts < MaxMounts
  /\ shown' = FALSE
  /\ kept' = Draft
  /\ counted' = FALSE
  /\ Cleared /\ editMode' = FALSE /\ key' = Null /\ asking' = Null
  /\ away' = (away \/ saves # {})
  /\ UNCHANGED <<result, query, run, mounts, saved, inserts>>

\* Another tab is shown: the grid unmounts, and its edits are kept (keepGrid).
keepGrid ==
  /\ shown /\ mounts < MaxMounts
  /\ shown' = FALSE
  /\ kept' = Draft
  /\ Cleared /\ editMode' = FALSE /\ key' = Null /\ asking' = Null
  /\ away' = (away \/ saves # {})
  /\ UNCHANGED <<result, query, run, mounts, counted, saved, inserts>>

\* recallGrid: what was kept, when it was kept on the result the tab shows.
recalled == IF kept # Null /\ kept.owner = result THEN kept ELSE Null

\* The tab is shown again, its grid mounted anew: the row key is asked for again.
recallGrid ==
  /\ ~shown
  /\ shown' = TRUE
  /\ mounts' = mounts + 1
  /\ kept' = recalled
  /\ LET k == recalled IN
     IF k = Null THEN Cleared /\ editMode' = FALSE
     ELSE /\ editMode' = k.editMode /\ pending' = k.pending
          /\ done' = k.done /\ undone' = k.undone
  /\ counted' = Holds(pending')
  /\ key' = Null /\ asking' = query
  /\ UNCHANGED <<result, query, run, away, saved, inserts>>

\* The schema read answers, or fails.
KeyAnswers ==
  /\ shown /\ asking # Null
  /\ key' \in {asking, Null}
  /\ asking' = Null
  /\ UNCHANGED <<view, editing, counted, saved, inserts>>

(***************************************************************************)
(* Saving                                                                  *)
(***************************************************************************)
\* Mutant of isSaving: Save is not held back while one is under way.
isSavingNever == FALSE

isSaving == \E s \in saves : s.mount = mounts

\* The columns a statement matches on: a key's, or (Null) every column.
keyColumns == IF key \in Keyed THEN key ELSE Null

\* Where the schema read for the rows on screen stands; a failed one leaves the key unknown.
keyState == CASE asking # Null -> "asked" [] key = Null -> "failed" [] OTHER -> "answered"

\* Save is pressed; what it writes is fixed now.
Save ==
  /\ Editable /\ Holds(pending) /\ ~isSaving
  /\ Cardinality({s \in saves : s.mount # mounts}) < MaxSaves
  /\ key = Null \/ key \in Keyed \cup Keyless
  /\ saves' = saves \cup {[mount |-> mounts, query |-> query, by |-> keyColumns,
                                read |-> keyState, edits |-> pending, stage |-> "pressed"]}
  /\ UNCHANGED <<view, editing, counted, key, asking, applied, inserts>>

\* The user agrees, or nothing asks, and the batch is applied in one transaction; or they
\* decline, or it fails, and none of it is.
runGridEdits ==
  /\ \E s \in saves :
       /\ s.stage = "pressed"
       /\ \/ /\ saves' = (saves \ {s}) \cup {[s EXCEPT !.stage = "applied"]}
             /\ applied' = [n \in DOMAIN applied |->
                  IF \E i \in DOMAIN s.edits.inserts : s.edits.inserts[i].row = n THEN applied[n] + 1 ELSE applied[n]]
          \/ saves' = saves \ {s} /\ UNCHANGED applied
  /\ UNCHANGED <<view, editing, counted, key, asking, inserts>>

\* The answer arrives: the edits are discarded in the grid that saved them, if it is still
\* mounted, and the statement is run again, to refresh the rows.
SaveAnswers ==
  /\ \E s \in saves :
       /\ s.stage = "applied" /\ result < MaxResults
       /\ IF shown /\ s.mount = mounts THEN Cleared ELSE UNCHANGED <<pending, done, undone>>
       /\ saves' = saves \ {s}
       /\ run' = s.query
  /\ counted' = FALSE
  /\ UNCHANGED <<result, query, shown, mounts, kept, away, editMode, key, asking, applied, inserts>>

Init ==
  /\ result = 1 /\ query = First /\ run = Null
  /\ shown = TRUE /\ mounts = 1
  /\ editMode = FALSE /\ pending = Nothing /\ done = <<>> /\ undone = <<>>
  /\ kept = Null /\ counted = FALSE
  /\ key = Null /\ asking = First
  /\ saves = {} /\ inserts = 0 /\ applied = [n \in 1..MaxInserts |-> 0] /\ away = FALSE

Next ==
  \/ editCell \/ addRow \/ editInsertCell \/ deleteRow \/ undo \/ redo
  \/ discardAll \/ toggleEditMode
  \/ executeQuery \/ RunEnds \/ setActiveResult \/ keepGrid \/ recallGrid \/ KeyAnswers
  \/ Save \/ runGridEdits \/ SaveAnswers

Spec == Init /\ [][Next]_vars

(***************************************************************************)
(* Properties                                                              *)
(***************************************************************************)
Edits == [cells : [Cells -> Values \cup {Null}],
          inserts : Seq([row : 1..MaxInserts, value : Values \cup {Null}]),
          deletes : SUBSET Rows, on : SUBSET (1..MaxResults)]

TypeOK ==
  /\ result \in 1..MaxResults /\ {query, run, key, asking} \subseteq Queries \cup {Null}
  /\ shown \in BOOLEAN /\ mounts \in 1..MaxMounts /\ editMode \in BOOLEAN
  /\ pending \in Edits /\ \A s \in saves : s.edits \in Edits /\ s.mount <= mounts
  /\ Len(done) + Len(undone) <= MaxSteps
  /\ Holds(pending) => editMode
  /\ (kept # Null => kept.pending \in Edits)

\* Edits are by row index, so what is pending, and what a save writes, was made on the very
\* results it is shown on and saved to, through runs, hidden tabs and history.
EditsStayOnTheirRows ==
  /\ shown => pending.on \subseteq {result}
  /\ \A s \in saves : Cardinality(s.edits.on) = 1

\* A run asks before it discards edits: those that would go with the results, on screen or
\* kept for a hidden tab, are noted in the count the prompt reads.
HeldIsCounted ==
  ~away => /\ shown /\ Holds(pending) => counted
           /\ ~shown /\ recalled # Null /\ Holds(kept.pending) => counted

\* A row that was added once is inserted once, however often and from wherever Save is
\* pressed, unless the tab is left during a save: its edits come back unsaved then.
InsertedOnce == ~away => \A n \in DOMAIN applied : applied[n] <= 1

\* A save matches rows on their own table's key, or on every column where there is none,
\* whichever of the schema reads answered last; one whose key was not selected is refused
\* (unless Save is pressed before the read for its rows answered, or that read failed).
SavedByKey ==
  \A s \in saves : s.read = "answered" =>
    /\ s.query \in Keyed \cup Keyless
    /\ s.by = IF s.query \in Keyed THEN s.query ELSE Null
=============================================================================
