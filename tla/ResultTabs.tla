------------------------------ MODULE ResultTabs ------------------------------
(***************************************************************************)
(* The results of the editor's tabs (src/src/stores/resultStore.ts): which *)
(* run a tab waits for, where its answer is written, what Cancel stops,    *)
(* and what is left of a tab that closed.  The store keeps the shown tab's *)
(* slice in its own fields and parks the others; the runs in flight are    *)
(* counted by generation outside it.  Statements take any time to answer,  *)
(* so every interleaving of runs, answers, cancels, tab switches and       *)
(* closes is a behaviour.                                                  *)
(*                                                                         *)
(* A run stands for its answer: a slice names the run whose rows, plan or  *)
(* failure it shows.  A run is used once, as a tab id is.                  *)
(***************************************************************************)
EXTENDS Naturals, Sequences, SequencesExt, FiniteSets, Functions

CONSTANTS
  QueryTabs, PanelTabs,  \* ids of query tabs, and of tabs without a results pane
  Runs,                  \* runs the session starts (a bound)
  FirstTab,              \* the query tab open at the start
  ClosesOverRun,         \* whether the last tab may close over a run still in flight
  Unconfirmed,           \* the failure of a cancel
  NoTab, Null            \* the key of runs filed under no tab; absence

ASSUME TabsAssumption ==
  /\ FirstTab \in QueryTabs
  /\ QueryTabs \cap PanelTabs = {}
  /\ {NoTab, Null, Unconfirmed} \cap (QueryTabs \cup PanelTabs \cup Runs) = {}
  /\ NoTab # Null
  /\ Runs \cap (QueryTabs \cup PanelTabs) = {}
  /\ ClosesOverRun \in BOOLEAN

VARIABLES
  tabs, active,  \* editorStore: the strip, and the active tab
  fresh,         \* tab ids not used yet: tabCounter only goes up
  store,         \* resultStore: viewTabId, runTabId, the shown slice, the parked ones
  book,          \* the bookkeeping outside the store: generations, activeExecutions, ...
  run,           \* the runs themselves (Execution), and how far each got
  dialog,        \* resultStore.confirmDialog: the run awaiting confirmation
  asking,        \* productionGuardStore: the run whose discard prompt is open
  edits,         \* unsaved grid edits: the result a tab's edits were made on
  stops          \* api.cancelQuery calls not answered yet

vars == <<tabs, active, fresh, store, book, run, dialog, asking, edits, stops>>

Tabs == QueryTabs \cup PanelTabs
Keys == Tabs \cup {NoTab}

(***************************************************************************)
(* Slices                                                                  *)
(***************************************************************************)
\* Whose rows, plan, failure and cancellation are shown, the run whose
\* statement Next re-runs (page) or Format re-plans (request), the spinner.
Slices == [results: Runs \cup {Null}, plan: Runs \cup {Null}, error: Runs \cup {Null, Unconfirmed},
           cancelled: Runs \cup {Null}, page: Runs \cup {Null}, request: Runs \cup {Null},
           isExecuting: BOOLEAN]

EmptySlice == [results |-> Null, plan |-> Null, error |-> Null, cancelled |-> Null,
               page |-> Null, request |-> Null, isExecuting |-> FALSE]

\* pickSlice and isBlank need no more than the slice itself.
isBlank(s) == s = EmptySlice

\* What a tab shows, wherever it is kept.
SliceOf(s, t) == IF s.viewTabId = t THEN s.screen
                 ELSE IF t \in DOMAIN s.parked THEN s.parked[t] ELSE EmptySlice

\* f without the keys in K.
Without(f, K) == Restrict(f, DOMAIN f \ K)
\* f with k |-> v.
With(f, k, v) == [x \in DOMAIN f \cup {k} |-> IF x = k THEN v ELSE f[x]]

\* g written over f, as a partial slice is over the one it changes.
Patch(f, g) == [x \in DOMAIN f |-> IF x \in DOMAIN g THEN g[x] ELSE f[x]]

\* tabWriter: on screen when the tab is the one shown (or none is), parked otherwise.
tabWriter(s, t, partial) ==
  IF s.viewTabId \in {Null, t}
  THEN [s EXCEPT !.screen = Patch(@, partial)]
  ELSE [s EXCEPT !.parked = With(@, t, Patch(IF t \in DOMAIN @ THEN @[t] ELSE EmptySlice, partial))]

(***************************************************************************)
(* Runs in flight                                                          *)
(***************************************************************************)
Idle == [phase |-> "idle", tab |-> NoTab, own |-> FALSE, key |-> NoTab, filed |-> NoTab, home |-> NoTab,
         generation |-> 0, seq |-> 0, session |-> Null, kind |-> "query", cancelled |-> FALSE,
         orphaned |-> FALSE, agreed |-> FALSE]

Flying(rs) == {r \in DOMAIN rs : rs[r].phase = "flying"}

LatestStart(b, t) == IF t \in DOMAIN b.latestStart THEN b.latestStart[t] ELSE 0

Generation(b, k) == IF k \in DOMAIN b.generations THEN b.generations[k] ELSE 0

bumpGeneration(b, k) == [b EXCEPT !.generations = With(@, k, Generation(b, k) + 1)]

\* (mutant) A run is current whatever was cancelled or started since.
isCurrentUngenerated(b, rs, r) ==
  ~rs[r].orphaned /\ (rs[r].own \/ LatestStart(b, rs[r].tab) = rs[r].seq)

isCurrent(b, rs, r) ==
  /\ ~rs[r].orphaned
  /\ Generation(b, rs[r].key) = rs[r].generation
  /\ rs[r].own \/ LatestStart(b, rs[r].tab) = rs[r].seq

\* The runs activeExecutions lists.
Listed(b) == Range(b.activeExecutions)

\* (mutant) Only the tab's own run keeps it busy.
tabBusyOwn(b, rs, t, except) ==
  \E r \in Listed(b) \ except : rs[r].tab = t /\ rs[r].own /\ ~rs[r].cancelled

tabBusy(b, rs, t, except) ==
  \E r \in Listed(b) \ except : rs[r].tab = t /\ ~rs[r].cancelled

\* What cancel acts on in a tab: its own run, else its latest session-less one.
cancellableIn(b, rs, t) ==
  LET side == {r \in Listed(b) : rs[r].tab = t /\ ~rs[r].cancelled} IN
  IF t \in DOMAIN b.activeExecutions THEN b.activeExecutions[t]
  ELSE IF side = {} THEN Null
  ELSE CHOOSE r \in side : \A q \in side : rs[q].seq <= rs[r].seq

tabKeyFor(s, session) ==
  IF session # Null THEN session ELSE IF s.runTabId # Null THEN s.runTabId ELSE NoTab

\* Where a run that names a session, or none, is filed.
targetFor(s, session, tab) ==
  IF session # Null THEN [tab |-> session, own |-> TRUE]
  ELSE [tab |-> IF tab # Null THEN tab ELSE tabKeyFor(s, Null), own |-> FALSE]

\* The grid drops the edits of the tab on screen when its result changes under
\* them, which a hidden tab's grid finds out when it is shown (useGridEditing).
GridFollows(s) ==
  edits' = [t \in QueryTabs |->
              IF s.viewTabId = t /\ s.screen.results # edits[t] THEN Null ELSE edits[t]]

(***************************************************************************)
(* Following the editor                                                    *)
(***************************************************************************)
\* A world is what the store's functions read and write: w.s the store, w.b
\* the bookkeeping, w.rs the runs.
World == [s |-> store, b |-> book, rs |-> run]

\* (mutant) The slice is handed over and the runs in flight are not.
adoptNothing(w, t) == w

\* Hand what was run under no tab to t: the runs in flight, so their answers
\* and the spinner land there.
adoptUntabbed(w, t) ==
  LET moved == {r \in Listed(w.b) : w.rs[r].tab = NoTab /\ ~w.rs[r].orphaned}
      own   == {r \in moved : w.rs[r].own}
      b1    == IF own = {} THEN w.b ELSE
                 LET r == CHOOSE r \in own : TRUE IN
                 [bumpGeneration(w.b, t) EXCEPT
                    !.activeExecutions = With(Without(@, {NoTab}), t, r)]
      started == LatestStart(w.b, NoTab)
      home(r) == IF w.rs[r].home = NoTab THEN t ELSE w.rs[r].home
  IN [w EXCEPT
        !.rs = [r \in Runs |-> IF r \notin moved THEN [w.rs[r] EXCEPT !.home = home(r)]
                               ELSE IF r \in own
                               THEN [w.rs[r] EXCEPT !.tab = t, !.home = t, !.key = t,
                                                    !.generation = Generation(b1, t)]
                               ELSE [w.rs[r] EXCEPT !.tab = t, !.home = t]],
        !.b = [b1 EXCEPT
                 !.generations = Without(@, {NoTab}),
                 !.latestStart = IF started = 0 THEN @
                                 ELSE With(Without(@, {NoTab}), t,
                                           IF started > LatestStart(b1, t) THEN started ELSE LatestStart(b1, t)),
                 !.lastStartedTab = IF @ = NoTab THEN t ELSE @]]

\* With no tab shown, what ran under no tab: on screen, or parked since a designer was shown.
Untabbed(s) == IF NoTab \in DOMAIN s.parked /\ isBlank(s.screen) THEN s.parked[NoTab] ELSE s.screen

\* showTab from no tab.
ShowFirst(w, t, runTab) ==
  LET untabbed == Untabbed(w.s)
      parked   == Without(w.s.parked, {NoTab})
  IN IF t \in QueryTabs
     THEN LET a == adoptUntabbed(w, t) IN
          [a EXCEPT !.s = [@ EXCEPT !.screen = untabbed, !.parked = parked,
                                    !.viewTabId = t, !.runTabId = runTab]]
     ELSE [w EXCEPT !.s = [@ EXCEPT !.screen = EmptySlice,
                                    !.parked = IF isBlank(untabbed) THEN parked ELSE With(parked, NoTab, untabbed),
                                    !.viewTabId = t, !.runTabId = runTab]]

\* showTab from a tab: its slice is parked, and the next one's taken out.
ShowNext(w, t, runTab) ==
  LET parked == With(w.s.parked, w.s.viewTabId, w.s.screen)
      adopts == t \in QueryTabs /\ t \notin DOMAIN parked /\ NoTab \in DOMAIN parked
      next   == IF adopts THEN parked[NoTab] ELSE IF t \in DOMAIN parked THEN parked[t] ELSE EmptySlice
      a      == IF adopts THEN adoptUntabbed(w, t) ELSE w
  IN [a EXCEPT !.s = [@ EXCEPT !.screen = next,
                               !.parked = Without(parked, {t} \cup IF adopts THEN {NoTab} ELSE {}),
                               !.viewTabId = t, !.runTabId = runTab]]

showTab(w, t) ==
  LET runTab == IF t \in QueryTabs THEN t ELSE w.s.runTabId IN
  IF w.s.viewTabId = t THEN [w EXCEPT !.s.runTabId = runTab]
  ELSE IF w.s.viewTabId = Null THEN ShowFirst(w, t, runTab)
  ELSE ShowNext(w, t, runTab)

\* What a closed tab left: its answers have nowhere to go, its slice is dropped.
forgetTabs(w, live) ==
  LET gone == Tabs \ (live \cup {w.s.viewTabId}) IN
  [w EXCEPT
     !.rs = [r \in Runs |-> IF r \in Listed(w.b) /\ w.rs[r].tab \in gone
                            THEN [w.rs[r] EXCEPT !.orphaned = TRUE] ELSE w.rs[r]],
     !.b = [w.b EXCEPT
              !.generations = Without(@, {k \in DOMAIN @ : (IF k \in Runs THEN w.rs[k].filed ELSE k) \in gone}),
              !.latestStart = Without(@, gone)],
     !.s = [w.s EXCEPT
              !.parked = Without(@, Tabs \ live),
              !.runTabId = IF @ \in live THEN @ ELSE Null]]

\* followEditor: in the same turn as the editor store's change.
followEditor(ts, t) ==
  LET w     == forgetTabs(showTab(World, t), ToSet(ts))
      query == SelectInSeq(ts, LAMBDA x : x \in QueryTabs)
      s     == IF w.s.runTabId = Null /\ query # 0 THEN [w.s EXCEPT !.runTabId = ts[query]] ELSE w.s
  IN /\ tabs' = ts /\ active' = t
     /\ store' = s /\ book' = w.b /\ run' = w.rs
     /\ edits' = [x \in QueryTabs |->
                    IF x \notin ToSet(ts) \/ (s.viewTabId = x /\ s.screen.results # edits[x])
                    THEN Null ELSE edits[x]]
     /\ UNCHANGED <<dialog, asking, stops>>

(***************************************************************************)
(* The editor's tabs (editorStore)                                         *)
(***************************************************************************)
editorVars == <<tabs, active, fresh>>

Open(t) == t \in ToSet(tabs)

\* A prompt covers the window and keeps the focus: shortcuts on the tabs (open, switch,
\* close, Cancel) and work already under way still act, the mouse and the editor do not.
Modal == dialog # Null \/ asking # Null

openTab ==
  \E t \in fresh : fresh' = fresh \ {t} /\ followEditor(Append(tabs, t), t)

setActiveTab ==
  \E t \in ToSet(tabs) \ {active} : followEditor(tabs, t) /\ UNCHANGED fresh

\* Closing the last query tab leaves a fresh one in its place.
closeTab ==
  \E i \in 1..Len(tabs) :
    LET t         == tabs[i]
        remaining == RemoveAt(tabs, i)
    IN IF t \in QueryTabs /\ \A j \in 1..Len(tabs) : tabs[j] \in QueryTabs => j = i
       THEN \E n \in fresh \cap QueryTabs :
              fresh' = fresh \ {n} /\ followEditor([tabs EXCEPT ![i] = n], n)
       ELSE /\ (remaining = <<>>) => ClosesOverRun \/ Flying(run) = {}
            /\ followEditor(remaining, IF active # t THEN active
                                       ELSE IF remaining = <<>> THEN Null ELSE Last(remaining))
            /\ UNCHANGED fresh

closeOtherTabs ==
  /\ ~Modal
  /\ \E t \in ToSet(tabs) : Len(tabs) > 1 /\ followEditor(<<t>>, t)
  /\ UNCHANGED fresh

closeTabsToRight ==
  /\ ~Modal
  /\ \E i \in 1..(Len(tabs) - 1) :
       LET remaining == SubSeq(tabs, 1, i) IN
       followEditor(remaining, IF active \in ToSet(remaining) THEN active ELSE tabs[i])
  /\ UNCHANGED fresh

(***************************************************************************)
(* Running                                                                 *)
(***************************************************************************)
\* The session a run started from the editor names: the active query tab's.
EditorSession == IF active \in QueryTabs THEN active ELSE Null

\* startExecution, and the slice every run starts with.
Start(r, target, session, kind, agreed) ==
  LET key == IF target.own THEN target.tab ELSE r
      b   == bumpGeneration(book, key)
      seq == book.runCount + 1
      begun == [isExecuting |-> TRUE, error |-> Null, cancelled |-> Null]
  IN /\ run' = [run EXCEPT ![r] =
                  [phase |-> "flying", tab |-> target.tab, own |-> target.own, key |-> key,
                   filed |-> target.tab, home |-> target.tab, generation |-> Generation(b, key), seq |-> seq,
                   session |-> session, kind |-> kind, cancelled |-> FALSE, orphaned |-> FALSE,
                   agreed |-> agreed]]
     /\ book' = [b EXCEPT !.runCount = seq,
                          !.activeExecutions = With(@, key, r),
                          !.latestStart = With(@, target.tab, seq),
                          !.lastStartedTab = target.tab]
     /\ store' = tabWriter(store, target.tab, IF kind = "explain" THEN With(begun, "request", r) ELSE begun)

Idles(r) == run[r].phase = "idle"

\* Asked for, and waiting for the user: where it will be filed is decided already.
\* The one waiting in the same place is declined, or its dialog replaced.
Wait(r, phase, replaced, target, session, kind, agreed) ==
  /\ run' = [q \in Runs |->
              IF q = r THEN [run[q] EXCEPT !.phase = phase, !.tab = target.tab, !.own = target.own,
                                           !.session = session, !.kind = kind, !.agreed = agreed]
              ELSE IF q = replaced THEN [run[q] EXCEPT !.phase = "done"] ELSE run[q]]
  /\ UNCHANGED <<store, book>>

\* executeQuery after the discard prompt: production asks for a destructive statement.
Gate(r, target, session, agreed) ==
  \/ /\ Start(r, target, session, "query", agreed)
     /\ UNCHANGED dialog
  \/ /\ Wait(r, "confirming", dialog, target, session, "query", agreed)
     /\ dialog' = r

\* (mutant) No question before a grid's unsaved edits are replaced.
executeUnasked(r) ==
  /\ Idles(r)
  /\ \E from \in {"editor", "elsewhere", "grid"} :
       LET session == IF from = "editor" THEN EditorSession ELSE Null IN
       /\ from = "editor" => session # Null /\ ~Modal
       /\ from = "grid" => store.viewTabId \in QueryTabs
       /\ Gate(r, targetFor(store, session, IF from = "grid" THEN store.viewTabId ELSE Null), session, FALSE)
  /\ UNCHANGED <<editorVars, asking, edits, stops>>

\* executeQuery: from the editor on its tab's session; from the tree, the designer
\* or history with none; from a grid's refresh with none, in the grid's own tab.
executeQuery(r) ==
  /\ Idles(r)
  /\ \E from \in {"editor", "elsewhere", "grid"} :
       LET session == IF from = "editor" THEN EditorSession ELSE Null
           target  == targetFor(store, session, IF from = "grid" THEN store.viewTabId ELSE Null)
       IN /\ from = "editor" => session # Null /\ ~Modal
          /\ from = "grid" => store.viewTabId \in QueryTabs
          /\ IF target.tab \in QueryTabs /\ edits[target.tab] # Null
             THEN /\ Wait(r, "asking", asking, target, session, "query", FALSE)
                  /\ asking' = r
                  /\ UNCHANGED dialog
             ELSE Gate(r, target, session, FALSE) /\ UNCHANGED asking
  /\ UNCHANGED <<editorVars, edits, stops>>

\* productionGuardStore.answer to the discard prompt.
answer ==
  /\ asking # Null
  /\ asking' = Null
  /\ LET r == asking
         target == [tab |-> run[r].tab, own |-> run[r].own]
     IN \/ Gate(r, target, run[r].session, TRUE)
        \/ /\ run' = [run EXCEPT ![r].phase = "done"]
           /\ UNCHANGED <<store, book, dialog>>
  /\ UNCHANGED <<editorVars, edits, stops>>

confirmExecution ==
  /\ dialog # Null
  /\ dialog' = Null
  /\ LET r == dialog
         tab == IF run[r].tab = NoTab THEN Null ELSE run[r].tab
     IN Start(r, targetFor(store, run[r].session, tab), run[r].session, run[r].kind, run[r].agreed)
  /\ UNCHANGED <<editorVars, asking, edits, stops>>

cancelExecution ==
  /\ dialog # Null
  /\ dialog' = Null
  /\ run' = [run EXCEPT ![dialog].phase = "done"]
  /\ UNCHANGED <<editorVars, store, book, asking, edits, stops>>

\* executeExplain and executeExplainAnalyze: the second asks on production, and
\* doExplain refuses a connection that has no plans.
executeExplain(r) ==
  /\ Idles(r) /\ ~Modal
  /\ LET session == EditorSession
         target  == targetFor(store, session, Null)
     IN \/ Start(r, target, session, "explain", FALSE) /\ UNCHANGED dialog
        \/ /\ Wait(r, "confirming", dialog, target, session, "explain", FALSE)
           /\ dialog' = r
        \/ /\ run' = [run EXCEPT ![r].phase = "done"]
           /\ store' = tabWriter(store, target.tab, [error |-> r])
           /\ UNCHANGED <<book, dialog>>
  /\ UNCHANGED <<editorVars, asking, edits, stops>>

\* The grid's Next, and the plan's Format: the pane is the shown tab's, and both
\* are disabled while something runs in it.
ShownTarget(session) ==
  [tab |-> IF store.viewTabId # Null THEN store.viewTabId ELSE tabKeyFor(store, session), own |-> TRUE]

goToPage(r) ==
  /\ Idles(r) /\ ~Modal
  /\ store.screen.page # Null
  /\ ~store.screen.isExecuting
  /\ LET session == run[store.screen.page].session IN Start(r, ShownTarget(session), session, "page", FALSE)
  /\ UNCHANGED <<editorVars, dialog, asking, edits, stops>>

setExplainFormat(r) ==
  /\ Idles(r) /\ ~Modal
  /\ store.screen.request # Null
  /\ ~store.screen.isExecuting
  /\ LET session == run[store.screen.request].session IN Start(r, ShownTarget(session), session, "explain", FALSE)
  /\ UNCHANGED <<editorVars, dialog, asking, edits, stops>>

(***************************************************************************)
(* Answers                                                                 *)
(***************************************************************************)
\* What a current run's answer writes: rows (a full page offers another), a
\* plan, or a failure with what the statements before it returned, which for a
\* statement the user cancelled is the interrupt asked for.
AnswerSlices(r) ==
  LET busy == tabBusy(book, run, run[r].tab, {r}) IN
  IF run[r].kind = "explain"
  THEN {[plan |-> r, isExecuting |-> busy], [error |-> r, isExecuting |-> busy]}
  ELSE {[results |-> r, page |-> p, isExecuting |-> busy] : p \in {r, Null}}
       \cup {[results |-> p, page |-> Null, error |-> r, isExecuting |-> busy] :
               p \in {x \in {r, Null} : ~run[r].cancelled}}

\* (mutant) A run that ended stays listed.
EndedListed(r) ==
  [book EXCEPT !.generations = IF run[r].own THEN @ ELSE Without(@, {run[r].key})]

\* endExecution's bookkeeping: the slot only if this run still owns it.
Ended(r) ==
  [book EXCEPT
     !.activeExecutions = Without(@, {k \in DOMAIN @ : k = run[r].key /\ @[k] = r}),
     !.generations = IF run[r].own THEN @ ELSE Without(@, {run[r].key})]

\* The statement ends, and doExecuteQuery or doExplain goes on to its end.
Answer(r) ==
  /\ run[r].phase = "flying"
  /\ run' = [run EXCEPT ![r].phase = "done"]
  /\ book' = Ended(r)
  /\ IF isCurrent(book, run, r)
     THEN \E partial \in AnswerSlices(r) : store' = tabWriter(store, run[r].tab, partial)
     ELSE store' = IF ~run[r].orphaned /\ ~tabBusy(Ended(r), run, run[r].tab, {})
                   THEN tabWriter(store, run[r].tab, [isExecuting |-> FALSE]) ELSE store
  /\ GridFollows(store')
  /\ UNCHANGED <<editorVars, dialog, asking, stops>>

(***************************************************************************)
(* Cancelling                                                              *)
(***************************************************************************)
\* cancelActiveQuery: the shown tab's run, and the server is told to stop it.
cancelActiveQuery ==
  /\ store.screen.isExecuting
  /\ LET tab == IF store.viewTabId # Null THEN store.viewTabId ELSE book.lastStartedTab
         r   == cancellableIn(book, run, tab)
         rs  == IF r = Null THEN run ELSE [run EXCEPT ![r].cancelled = TRUE]
         b   == IF r = Null THEN book ELSE
                  [bumpGeneration(book, run[r].key) EXCEPT !.activeExecutions = Without(@, {run[r].key})]
         halted == [isExecuting |-> tabBusy(b, rs, tab, {}), error |-> Null, cancelled |-> r,
                    results |-> Null, page |-> Null]
     IN /\ run' = rs
        /\ book' = b
        /\ store' = [store EXCEPT !.screen = Patch(@,
                       IF r # Null /\ run[r].kind = "explain" THEN With(halted, "plan", Null) ELSE halted)]
        /\ stops' = IF r = Null THEN stops ELSE
                      stops \cup {[run |-> r, tab |-> tab, at |-> LatestStart(b, tab)]}
  /\ GridFollows(store')
  /\ UNCHANGED <<editorVars, dialog, asking>>

\* cancelQuery answers; a failure is told only while nothing started since.
CancelAnswered ==
  /\ \E c \in stops :
       /\ stops' = stops \ {c}
       /\ \/ UNCHANGED store
          \/ /\ LatestStart(book, c.tab) = c.at
             /\ store' = tabWriter(store, c.tab, [error |-> Unconfirmed, cancelled |-> Null])
  /\ UNCHANGED <<editorVars, book, run, dialog, asking, edits>>

(***************************************************************************)
(* The grid and the tab's connection                                       *)
(***************************************************************************)
\* A cell is edited in the grid on screen.
EditGrid ==
  /\ store.viewTabId \in QueryTabs
  /\ store.screen.results # Null /\ ~store.screen.isExecuting
  /\ ~Modal
  /\ edits' = [edits EXCEPT ![store.viewTabId] = store.screen.results]
  /\ UNCHANGED <<editorVars, store, book, run, dialog, asking, stops>>

\* dropForeignResults, when the shown tab is pointed at another connection, or when
\* with no tab open another one is selected.
dropForeignResults ==
  /\ ~store.screen.isExecuting
  /\ \/ /\ store.screen.results # Null
        /\ store' = [store EXCEPT !.screen = Patch(@,
             [results |-> Null, error |-> Null, cancelled |-> Null, page |-> Null])]
     \/ /\ store.screen.request # Null
        /\ store' = [store EXCEPT !.screen = Patch(@, [plan |-> Null, request |-> Null])]
  /\ GridFollows(store')
  /\ UNCHANGED <<editorVars, book, run, dialog, asking, stops>>

Init ==
  /\ tabs = <<FirstTab>> /\ active = FirstTab /\ fresh = Tabs \ {FirstTab}
  /\ store = [viewTabId |-> FirstTab, runTabId |-> FirstTab, screen |-> EmptySlice, parked |-> << >>]
  /\ book = [generations |-> << >>, activeExecutions |-> << >>, latestStart |-> << >>,
             runCount |-> 0, lastStartedTab |-> NoTab]
  /\ run = [r \in Runs |-> Idle]
  /\ dialog = Null /\ asking = Null
  /\ edits = [t \in QueryTabs |-> Null]
  /\ stops = {}

Next ==
  \/ openTab \/ setActiveTab \/ closeTab \/ closeOtherTabs \/ closeTabsToRight
  \/ \E r \in Runs : executeQuery(r) \/ executeExplain(r) \/ goToPage(r) \/ setExplainFormat(r) \/ Answer(r)
  \/ answer \/ confirmExecution \/ cancelExecution
  \/ cancelActiveQuery \/ CancelAnswered
  \/ EditGrid \/ dropForeignResults

Spec == Init /\ [][Next]_vars

(***************************************************************************)
(* Properties                                                              *)
(***************************************************************************)
Phases == {"idle", "asking", "confirming", "flying", "done"}

TypeOK ==
  /\ tabs \in Seq(Tabs) /\ active \in Tabs \cup {Null} /\ fresh \subseteq Tabs
  /\ store.viewTabId = active /\ store.runTabId \in QueryTabs \cup {Null}
  /\ store.screen \in Slices
  /\ DOMAIN store.parked \subseteq Keys /\ Range(store.parked) \subseteq Slices
  /\ DOMAIN book.generations \subseteq Keys \cup Runs /\ Range(book.generations) \subseteq Nat
  /\ DOMAIN book.activeExecutions \subseteq Keys \cup Runs
  /\ Listed(book) \subseteq Flying(run)
  /\ \A r \in Runs : run[r].phase \in Phases /\ run[r].tab \in Keys
  /\ dialog \in Runs \cup {Null} /\ asking \in Runs \cup {Null}
  /\ \A t \in QueryTabs : edits[t] \in Runs \cup {Null}

\* The slot a tab's output is in.
Slot(t) == IF store.viewTabId = Null /\ t = NoTab THEN Untabbed(store) ELSE SliceOf(store, t)

\* What the user can look at, now or by a switch; what ran under no tab is the next one's.
Live == ToSet(tabs) \cup {NoTab}

\* A spinner is turning in a tab, shown or parked, only while a run of that tab is in
\* flight that the user has not cancelled: it is never left turning over a tab that
\* waits for nothing, after any switch, close, adoption or late answer.
SpinnerMeansRunning ==
  \A t \in Live : Slot(t).isExecuting =>
    \E r \in Flying(run) : run[r].tab = t /\ ~run[r].cancelled

\* The other way round: a run whose answer the tab still waits for has its spinner
\* turning, so the grid it will replace cannot be edited or paged meanwhile.
AwaitedRunSpins ==
  \A r \in Flying(run) :
    isCurrent(book, run, r) /\ run[r].tab \in Live => Slot(run[r].tab).isExecuting

\* A run is waited for while it has not been cancelled, its tab has not closed, and
\* nothing that outranks it has started where its output goes: a later run of the tab's
\* own, or for a run that only borrows the pane any later run at all.
Awaited(r) ==
  /\ ~run[r].cancelled /\ ~run[r].orphaned
  /\ \A q \in Runs : run[q].seq > run[r].seq /\ run[q].home = run[r].home => run[r].own /\ ~run[q].own

\* Whether r's answer is what a slice shows.
Shows(s, r) == r \in {s.results, s.plan, s.error}

\* A step in which a run ends writes its answer exactly where it is waited for.
Landing ==
  \A r \in Runs :
    run[r].phase = "flying" /\ run'[r].phase = "done" =>
      IF Awaited(r) THEN run[r].home \in Live => Shows(Slot(run[r].home)', r)
                    ELSE \A t \in Live : ~Shows(Slot(t)', r)

\* An answer is written exactly where and when it is waited for: it lands in its own
\* tab, shown or hidden, whatever was switched, adopted or opened since, and an answer
\* that was cancelled, superseded or closed is written nowhere.
AnswersWhereAwaited == [][Landing]_vars

\* A step in which a run ends drops a tab's edits only as its user agreed.
Losing ==
  \A r \in Runs, t \in QueryTabs :
    run[r].phase = "flying" /\ run'[r].phase = "done" /\ edits[t] # Null /\ edits'[t] = Null
      => run[r].agreed \/ run[r].kind = "page"

\* Unsaved grid edits are lost to the answer of a statement only if the user agreed to
\* discard them before it ran (a page change, which does not ask, apart).
ConsentBeforeLoss == [][Losing]_vars
=============================================================================
