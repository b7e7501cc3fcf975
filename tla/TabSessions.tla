------------------------------ MODULE TabSessions ------------------------------
(***************************************************************************)
(* The server sessions of the editor's tabs and the transactions open in   *)
(* them: the tab strip and its prompts (stores/editorStore.ts), the        *)
(* sessions the window opened (lib/server-sessions.ts), the flags the      *)
(* badges and prompts read (stores/transactionStore.ts), the connections   *)
(* (stores/connectionStore.ts, sqliteStore.ts, useConnectionSwitching.ts)  *)
(* and the session pools behind them (connection/manager.rs).              *)
(*                                                                         *)
(* A MySQL tab has a session of its own on each connection it ran on; the  *)
(* tabs of a SQLite file share the file's one connection.  The window      *)
(* sends commands and goes on; the backend takes them up, and its answers  *)
(* come back, in their own time.                                           *)
(***************************************************************************)
EXTENDS Naturals, Sequences, SequencesExt, FiniteSets, Functions

CONSTANTS
  TabIds,          \* tab ids, each used once
  Servers, Files,  \* ids of MySQL connections and of open SQLite files, each used once
  FirstTab, First, \* the tab open at the start, and its connection
  Unsaved,         \* the tabs that hold SQL which is saved nowhere
  MaxRuns,         \* bounds: runs started,
  MaxConnects,     \* connections the session knows, the first included,
  MaxPending,      \* and commands and connects in flight before the user gives another
  Overtakes,       \* whether the backend may take commands up in another order than sent
  Null

ASSUME SessionsAssumption ==
  /\ FirstTab \in TabIds /\ Unsaved \subseteq TabIds /\ First \in Servers
  /\ Servers \cap Files = {} /\ TabIds \cap (Servers \cup Files) = {}
  /\ Null \notin TabIds \cup Servers \cup Files
  /\ {MaxRuns, MaxConnects, MaxPending} \subseteq Nat /\ Overtakes \in BOOLEAN

VARIABLES
  strip, active,               \* editorStore: the tabs in order, and the active one
  bound,                       \* each open tab's connection, or Null
  pendingClose, pendingSwitch, \* editorStore: the prompts on screen
  live, selected,              \* connectionStore, sqliteStore: what is open, what is selected
  attempts,                    \* connects in flight: the id to come, cancelled, what they reopen
  noted,                       \* server-sessions: the (tab, connection) pairs it opened
  flags,                       \* transactionStore: the tabs and files with a transaction open
  inbox,                       \* commands sent and not taken up, in the order sent
  work,                        \* what the backend works on, or has answered
  up, sessions,                \* ConnectionManager: its connections; each session's transaction
  files,                       \* the SQLite files with a transaction open
  used, runs,                  \* ids used, runs started
  muddled                      \* tabs and files whose flag may lie (see FlagTruthful)

prompts  == <<pendingClose, pendingSwitch>>
tabVars  == <<strip, bound, noted, flags, inbox, muddled>>
backVars == <<work, up, sessions, files>>
vars == <<tabVars, active, prompts, live, selected, attempts, backVars, used, runs>>

Conns == Servers \cup Files
Open == ToSet(strip)
\* Bounds on what the user does.
Room == Len(inbox) + Cardinality(work) + Cardinality(attempts) < MaxPending
Connectable == IF Cardinality(used \cap Conns) < MaxConnects THEN Conns \ used ELSE {}
Prompted == pendingClose # Null \/ pendingSwitch # Null
With(f, k, v) == [x \in DOMAIN f \cup {k} |-> IF x = k THEN v ELSE f[x]]

(***************************************************************************)
(* What a change of the tabs ends                                          *)
(***************************************************************************)
tabsClosedBy(kind, t) ==
  {x \in Open : CASE kind = "close"  -> x = t
                  [] kind = "others" -> x # t /\ t \in Open
                  [] kind = "right"  -> \E i, j \in DOMAIN strip : i < j /\ strip[i] = t /\ strip[j] = x}

\* tabsLeftBy: the connections bound after a close, that of the last tab's replacement included.
ConnsLeftBy(kind, t) ==
  {bound[x] : x \in IF kind = "close" /\ Open = {t} THEN Open ELSE Open \ tabsClosedBy(kind, t)}

\* Mutant of transactionsEndedBy: only what the tabs hold themselves.
transactionsHeldBy(leaving, staying) == leaving \cap flags

\* transactionsEndedBy: a tab's own transaction goes with it, a file's with its last tab.
transactionsEndedBy(leaving, staying) ==
  {t \in leaving : t \in flags \/ (bound[t] \in flags /\ bound[t] \notin staying)}

\* Mutant of sessionsToClose: tabs gone are not looked at.
sessionsMoved(open, b, sel) ==
  {s \in noted : s[1] \in open /\ b[s[1]] \notin {Null, s[2]} /\ s[2] # sel}

\* sessionsToClose: of tabs gone, and of tabs moved elsewhere unless what they left is selected.
sessionsToClose(open, b, sel) ==
  {s \in noted : s[1] \notin open \/ (b[s[1]] \notin {Null, s[2]} /\ s[2] # sel)}

\* connectionsLeft: files with a transaction whose last tab has just gone.
connectionsLeft(open, b) ==
  {f \in flags \cap Files : (\E t \in Open : bound[t] = f) /\ (\A t \in open : b[t] # f)}

CloseSession(s) == [op |-> "close", tab |-> s[1], conn |-> s[2]]
RollBack(f) == [op |-> "rollback", conn |-> f]

Pending(P(_)) == (\E i \in DOMAIN inbox : P(inbox[i])) \/ (\E w \in work : P(w))
\* Tab t has a run in flight; connection c one of its tabs' or a rollback.
Busy(t) == Pending(LAMBDA m : m.op = "run" /\ m.tab = t)
FileBusy(f) == Pending(LAMBDA m : m.op \in {"run", "rollback"} /\ m.conn = f)

\* The tabs become s with connections b while sel is selected, and what watches them
\* acts: closeStale of server-sessions and the rollback of sqlite-transactions.
TabsChange(s, b, sel) ==
  LET stale == sessionsToClose(ToSet(s), b, sel)
      \* Left open, because their connection is the one selected.
      spared == {p \in noted \ stale : p[1] \in ToSet(s) /\ b[p[1]] \notin {Null, p[2]}}
      left  == connectionsLeft(ToSet(s), b)
  IN /\ strip' = s /\ bound' = b
     /\ noted' = noted \ stale
     /\ flags' = flags \ {p[1] : p \in stale}
     /\ inbox' = inbox \o SetToSeq({CloseSession(p) : p \in stale}) \o SetToSeq({RollBack(f) : f \in left})
     /\ muddled' = muddled \cup {t \in {p[1] : p \in stale} : Busy(t)} \cup {f \in left : FileBusy(f)}
                           \cup {p[1] : p \in spared}

\* useConnectionSwitching's effect: the active tab's connection, when another one than before
\* and live, is selected.
Selects(t, b, sel) == selected' = IF b[t] # bound[active] /\ b[t] \in live THEN b[t] ELSE sel

Bind(t, c) == [bound EXCEPT ![t] = c]

(***************************************************************************)
(* The tab strip                                                           *)
(***************************************************************************)
\* A new tab bound to c (or to nothing) becomes the active one.
AddTab(c, sel) ==
  \E t \in TabIds \ used :
    /\ used' = used \cup {t}
    /\ active' = t
    /\ TabsChange(Append(strip, t), With(bound, t, c), sel)

\* By shortcut on no connection, from the menu on the selected one.
openTab ==
  /\ \E c \in {Null, selected} : AddTab(c, selected)
  /\ UNCHANGED <<selected, prompts, live, attempts, backVars, runs>>

setActiveTab ==
  /\ \E t \in Open \ {active} : active' = t /\ Selects(t, bound, selected)
  /\ UNCHANGED <<tabVars, prompts, live, attempts, backVars, used, runs>>

\* Whatever else rewrites the tabs: typing, a rename, a reorder.
updateTabContent ==
  /\ ~Prompted
  /\ TabsChange(strip, bound, selected)
  /\ UNCHANGED <<active, selected, prompts, live, attempts, backVars, used, runs>>

\* closeTab, closeOtherTabs and closeTabsToRight; the last tab is replaced by a fresh one.
runClose(kind, t) ==
  LET at        == CHOOSE i \in DOMAIN strip : strip[i] = t
      remaining == CASE kind = "close"  -> RemoveAt(strip, at)
                     [] kind = "others" -> <<t>>
                     [] kind = "right"  -> SubSeq(strip, 1, at)
      next      == IF active \in ToSet(remaining) /\ kind # "others" THEN active
                   ELSE IF kind = "close" THEN Last(remaining) ELSE t
  IN IF remaining = <<>>
     THEN \E n \in TabIds \ used :
            /\ used' = used \cup {n}
            /\ active' = n
            /\ TabsChange(<<n>>, [x \in {n} |-> bound[t]], selected)
            /\ UNCHANGED selected
     ELSE /\ active' = next
          /\ TabsChange(remaining, Restrict(bound, ToSet(remaining)), selected)
          /\ Selects(next, bound, selected)
          /\ UNCHANGED used

\* A close asks first when a transaction would go, or SQL that is saved nowhere
\* (holdsUnsavedWork).
requestClose(kind, t) ==
  LET closing == tabsClosedBy(kind, t)
      ends    == transactionsEndedBy(closing, ConnsLeftBy(kind, t))
  IN /\ kind = "close" \/ ~Prompted
     /\ closing # {}
     /\ IF ends # {} \/ closing \cap Unsaved # {}
        THEN /\ pendingClose' = [kind |-> kind, tab |-> t, inTransaction |-> ends]
             /\ UNCHANGED <<tabVars, active, selected, used>>
        ELSE runClose(kind, t) /\ UNCHANGED pendingClose
     /\ UNCHANGED <<pendingSwitch, live, attempts, backVars, runs>>

confirmPendingClose ==
  /\ pendingClose # Null
  /\ pendingClose' = Null
  /\ LET kind == pendingClose.kind
         t    == pendingClose.tab
     IN IF tabsClosedBy(kind, t) # {} THEN runClose(kind, t)
        ELSE UNCHANGED <<tabVars, active, selected, used>>
  /\ UNCHANGED <<pendingSwitch, live, attempts, backVars, runs>>

cancelPendingClose ==
  /\ pendingClose # Null
  /\ pendingClose' = Null
  /\ UNCHANGED <<tabVars, active, pendingSwitch, live, selected, attempts, backVars, used, runs>>

(***************************************************************************)
(* Which connection a tab is on                                            *)
(***************************************************************************)
\* confirmRollback: the transactions a switch of these tabs would roll back.
Asks(leaving) == transactionsEndedBy(leaving, {bound[x] : x \in Open \ leaving})

setTabConnection(t, c, sel) ==
  IF t \in Open
  THEN /\ TabsChange(strip, Bind(t, c), sel)
       /\ IF t = active THEN Selects(t, Bind(t, c), sel) ELSE selected' = sel
  ELSE UNCHANGED tabVars /\ selected' = sel

\* Leaving a connection asks first when the tab's transaction goes with it.
requestTabConnection(t, c, sel) ==
  IF bound[t] \notin {Null, c} /\ Asks({t}) # {}
  THEN /\ pendingSwitch' = [reconnects |-> FALSE, tab |-> t, conn |-> c, inTransaction |-> Asks({t})]
       /\ selected' = sel
       /\ UNCHANGED tabVars
  ELSE setTabConnection(t, c, sel) /\ UNCHANGED pendingSwitch

\* A database in the selected connection's tree is made the active tab's.
selectDatabase ==
  /\ ~Prompted
  /\ selected \in live /\ bound[active] # selected
  /\ requestTabConnection(active, selected, selected)
  /\ UNCHANGED <<active, pendingClose, live, attempts, backVars, used, runs>>

runConnectionId(t, sel) == IF bound[t] \in live THEN bound[t] ELSE sel

\* A connection's tab is clicked: one of its editor tabs is shown, or opened.
selectConnection(c) ==
  /\ ~Prompted
  /\ c \in live \ {selected}
  /\ selected' = c
  /\ IF runConnectionId(active, c) = c THEN UNCHANGED <<tabVars, active, used>>
     ELSE LET on == {i \in DOMAIN strip : bound[strip[i]] = c} IN
          \/ /\ \E i \in on : (\A j \in on : i <= j) /\ active' = strip[i]
             /\ UNCHANGED <<tabVars, used>>
          \/ on = {} /\ AddTab(c, c)
  /\ UNCHANGED <<prompts, live, attempts, backVars, runs>>

\* attach: a connection just made takes over an active tab that has no live one, or gets one.
Attach(c) ==
  IF bound[active] \notin live
  THEN requestTabConnection(active, c, c) /\ UNCHANGED <<active, used>>
  ELSE AddTab(c, c) /\ selected' = c /\ UNCHANGED pendingSwitch

(***************************************************************************)
(* Connecting and disconnecting                                            *)
(***************************************************************************)
\* The id is the backend's to give; a reconnect's attempt names what it reopens.
StartConnect(c, reopens) ==
  /\ used' = used \cup {c}
  /\ attempts' = attempts \cup {[conn |-> c, stage |-> "sent", cancelled |-> FALSE, reopens |-> reopens]}

\* connect, or a SQLite file opened.
connect ==
  /\ ~Prompted /\ Room
  /\ \E c \in Connectable : StartConnect(c, Null)
  /\ UNCHANGED <<tabVars, active, prompts, live, selected, backVars, runs>>

\* Mutant of cancelConnect: what the backend makes of the attempt is not looked at again.
cancelForgets ==
  /\ ~Prompted
  /\ \E a \in attempts : a.conn \in Servers /\ attempts' = attempts \ {a}
  /\ UNCHANGED <<tabVars, active, prompts, live, selected, backVars, used, runs>>

cancelConnect ==
  /\ ~Prompted
  /\ \E a \in attempts :
       /\ a.conn \in Servers /\ ~a.cancelled
       /\ attempts' = (attempts \ {a}) \cup {[a EXCEPT !.cancelled = TRUE]}
  /\ UNCHANGED <<tabVars, active, prompts, live, selected, backVars, used, runs>>

\* The backend connects, or fails to, and nothing comes of the attempt.
Connects ==
  /\ \E a \in attempts :
       /\ a.stage = "sent"
       /\ \/ /\ attempts' = (attempts \ {a}) \cup {[a EXCEPT !.stage = "made"]}
             /\ up' = up \cup {a.conn}
             /\ UNCHANGED used
          \/ /\ attempts' = attempts \ {a}
             /\ used' = used \ {a.conn}
             /\ UNCHANGED up
  /\ UNCHANGED <<tabVars, active, prompts, live, selected, work, sessions, files, runs>>

Disconnection(c, again, known) == [op |-> "disconnect", conn |-> c, again |-> again, known |-> known]
Disconnecting(c) == Pending(LAMBDA m : m.op = "disconnect" /\ m.conn = c)

\* connect goes on: a cancelled connection is closed again, a reopened one takes over the
\* tabs of the one it replaces (reopen), and any other is attached.
Connected ==
  /\ \E a \in attempts :
       /\ attempts' = attempts \ {a}
       /\ \/ /\ a.stage = "made" /\ a.cancelled
             /\ inbox' = Append(inbox, Disconnection(a.conn, FALSE, FALSE))
             /\ UNCHANGED <<strip, bound, noted, flags, muddled, active, pendingSwitch, live, selected, used>>
          \/ /\ a.stage = "made" /\ ~a.cancelled
             /\ live' = live \cup {a.conn}
             /\ IF a.reopens = Null THEN Attach(a.conn)
                ELSE /\ TabsChange(strip, [t \in Open |-> IF bound[t] = a.reopens THEN a.conn ELSE bound[t]],
                                   IF bound[active] \in live THEN bound[active] ELSE a.conn)
                     /\ selected' = a.conn
                     /\ UNCHANGED <<active, pendingSwitch, used>>
  /\ UNCHANGED <<pendingClose, backVars, runs>>

SendDisconnect(c, again) ==
  /\ inbox' = Append(inbox, Disconnection(c, again, TRUE))
  /\ muddled' = muddled \cup {t \in Open : Pending(LAMBDA m : m.op = "run" /\ m.conn = c /\ m.tab = t)}
                        \cup IF FileBusy(c) THEN {c} \cap Files ELSE {}

\* Disconnect from the connection's menu; a file's Close drops it at once.
disconnect ==
  /\ ~Prompted /\ Room
  /\ \E c \in live :
       /\ ~Disconnecting(c)
       /\ SendDisconnect(c, FALSE)
       /\ live' = live \ (Files \cap {c})
       /\ flags' = flags \ (Files \cap {c})
       /\ selected' = IF c \in Files /\ bound[active] \in live' THEN bound[active] ELSE selected
  /\ UNCHANGED <<strip, bound, noted, active, prompts, attempts, backVars, used, runs>>

\* Reconnect to apply changed settings: asks for its tabs' transactions first.
handleReconnect ==
  /\ ~Prompted /\ Room
  /\ \E c \in live \cap Servers :
       LET ends == Asks({t \in Open : bound[t] = c}) IN
       /\ ~Disconnecting(c)
       /\ IF ends # {}
          THEN /\ pendingSwitch' = [reconnects |-> TRUE, tab |-> Null, conn |-> c, inTransaction |-> ends]
               /\ UNCHANGED <<inbox, muddled>>
          ELSE SendDisconnect(c, TRUE) /\ UNCHANGED pendingSwitch
  /\ UNCHANGED <<strip, bound, noted, flags, active, pendingClose, live, selected, attempts, backVars, used, runs>>

confirmPendingSwitch ==
  /\ pendingSwitch # Null
  /\ pendingSwitch' = Null
  /\ LET p == pendingSwitch IN
     IF ~p.reconnects THEN setTabConnection(p.tab, p.conn, selected)
     ELSE /\ IF p.conn \in live /\ ~Disconnecting(p.conn) THEN SendDisconnect(p.conn, TRUE)
             ELSE UNCHANGED <<inbox, muddled>>
          /\ UNCHANGED <<strip, bound, noted, flags, selected>>
  /\ UNCHANGED <<active, pendingClose, live, attempts, backVars, used, runs>>

cancelPendingSwitch ==
  /\ pendingSwitch # Null
  /\ pendingSwitch' = Null
  /\ UNCHANGED <<tabVars, active, pendingClose, live, selected, attempts, backVars, used, runs>>

\* disconnect goes on, once its pools are closed: the connection is forgotten, and what its
\* tabs had open; a reconnect connects again.
Disconnected ==
  /\ \E w \in work :
       /\ w.op = "disconnect"
       /\ \A r \in work : r.op = "run" /\ r.conn = w.conn => r.stage = "answered"
       /\ work' = work \ {w}
       /\ IF w.known
          THEN /\ live' = live \ {w.conn}
               /\ flags' = flags \ {t \in Open : bound[t] = w.conn}
               /\ selected' = IF bound[active] \in live \ {w.conn} THEN bound[active]
                              ELSE IF selected = w.conn THEN Null ELSE selected
          ELSE UNCHANGED <<live, flags, selected>>
       /\ \/ w.again /\ \E c \in Connectable \cap Servers : StartConnect(c, w.conn)
          \/ UNCHANGED <<used, attempts>>
  /\ UNCHANGED <<strip, bound, noted, inbox, muddled, active, prompts, up, sessions, files, runs>>

(***************************************************************************)
(* Running                                                                 *)
(***************************************************************************)
\* noteSession: a session is noted before its statement is sent.
Started(t, c) ==
  /\ inbox' = Append(inbox, [op |-> "run", id |-> runs + 1, tab |-> t, conn |-> c])
  /\ noted' = noted \cup IF c \in Files \cap live THEN {} ELSE {<<t, c>>}
  /\ muddled' = muddled \cup {x \in {t} : Busy(t) \/ bound'[t] # c} \cup {f \in {c} \cap Files : FileBusy(f)}

\* Run in the active tab, on the connection runConnectionId gives; a tab that has none is
\* bound to it (bindUnboundTab).
Run ==
  LET c == runConnectionId(active, selected) IN
  /\ ~Prompted
  /\ c # Null /\ runs < MaxRuns /\ Room
  /\ runs' = runs + 1
  /\ bound' = IF bound[active] = Null THEN Bind(active, c) ELSE bound
  /\ Started(active, c)
  /\ UNCHANGED <<strip, flags, active, prompts, live, selected, attempts, backVars, used>>

\* Mutant of Owner: the tab on screen when the answer comes.
OwnerShown(w) == IF w.conn \in Files THEN w.conn ELSE active

\* Whose transaction an answer is about.
Owner(w) == IF w.conn \in Files THEN w.conn ELSE w.tab

\* A run's answer: what it says of the transaction becomes the flag (noteTransaction,
\* noteSqliteTransaction).
Answer ==
  /\ \E w \in work :
       LET owner == Owner(w) IN
       /\ w.op \in {"run", "rollback"} /\ w.stage = "answered"
       /\ work' = work \ {w}
       /\ flags' = CASE w.says = "open"   -> flags \cup {owner}
                     [] w.says = "closed" -> flags \ {owner}
                     [] OTHER             -> flags
       /\ muddled' = IF Prompted /\ flags' # flags THEN muddled \cup {owner} ELSE muddled
  /\ UNCHANGED <<strip, bound, noted, inbox, active, prompts, live, selected, attempts,
                 up, sessions, files, used, runs>>

(***************************************************************************)
(* The backend                                                             *)
(***************************************************************************)
\* A pool that closes waits for the statement on its connection, whose session is gone.
Detached(P(_)) ==
  {IF w.op = "run" /\ w.stage = "begun" /\ P(w) THEN [w EXCEPT !.attached = FALSE] ELSE w : w \in work}

\* execute on the route's pool; session_pool opens a tab's session on its first use.
TakeRun(m) ==
  LET w == [op |-> "run", id |-> m.id, tab |-> m.tab, conn |-> m.conn, stage |-> "begun",
            attached |-> TRUE, says |-> "nothing"] IN
  /\ work' = work \cup {IF m.conn \in up THEN w ELSE [w EXCEPT !.stage = "answered"]}
  /\ sessions' = IF m.conn \notin up \cap Servers \/ <<m.tab, m.conn>> \in DOMAIN sessions THEN sessions
                 ELSE With(sessions, <<m.tab, m.conn>>, FALSE)
  /\ UNCHANGED <<up, files>>

close_session(m) ==
  /\ sessions' = Restrict(sessions, DOMAIN sessions \ {<<m.tab, m.conn>>})
  /\ work' = Detached(LAMBDA w : w.tab = m.tab /\ w.conn = m.conn)
  /\ UNCHANGED <<up, files>>

\* Mutant of TakeDisconnect: the tabs' pools are left behind.
TakeMainPool(m) ==
  /\ up' = up \ {m.conn}
  /\ files' = files \ {m.conn}
  /\ work' = work \cup IF m.conn \in Files THEN {} ELSE {m}
  /\ UNCHANGED sessions

\* ConnectionManager::disconnect, or a file's connection closed.
TakeDisconnect(m) ==
  /\ up' = up \ {m.conn}
  /\ sessions' = Restrict(sessions, {s \in DOMAIN sessions : s[2] # m.conn})
  /\ files' = files \ {m.conn}
  /\ work' = Detached(LAMBDA w : w.conn = m.conn) \cup IF m.conn \in Files THEN {} ELSE {m}

\* rollBack of sqlite-transactions, on the file's one connection.
TakeRollback(m) ==
  /\ \A w \in work : w.op = "run" /\ w.conn = m.conn => w.stage = "answered"
  /\ files' = files \ {m.conn}
  /\ work' = IF m.conn \notin up THEN work
             ELSE work \cup {[op |-> "rollback", conn |-> m.conn, stage |-> "answered", says |-> "closed"]}
  /\ UNCHANGED <<up, sessions>>

Take ==
  /\ \E i \in DOMAIN inbox :
       /\ i = 1 \/ Overtakes
       /\ inbox' = RemoveAt(inbox, i)
       /\ LET m == inbox[i] IN
          \/ m.op = "run" /\ TakeRun(m)
          \/ m.op = "close" /\ close_session(m)
          \/ m.op = "disconnect" /\ TakeDisconnect(m)
          \/ m.op = "rollback" /\ TakeRollback(m)
  /\ UNCHANGED <<strip, bound, noted, flags, muddled, active, prompts, live, selected, attempts, used, runs>>

\* A statement ends: it began a transaction, ended one, or did neither, and the session's
\* state is reported, or read off the statements (transactionAfter) when the server
\* cannot say.  One whose session was closed under it may say anything.
RunEnds ==
  /\ \E w \in work, effect \in {"begin", "end", "none"} :
       LET shared == w.conn \in Files
           before == IF shared THEN w.conn \in files ELSE w.attached /\ sessions[<<w.tab, w.conn>>]
           after  == effect = "begin" \/ (effect = "none" /\ before)
           told   == {IF after THEN "open" ELSE "closed"} \cup IF effect = "none" THEN {"nothing"} ELSE {}
       IN /\ w.op = "run" /\ w.stage = "begun"
          /\ \E says \in IF w.attached THEN told ELSE {"open", "closed", "nothing"} :
               work' = (work \ {w}) \cup {[w EXCEPT !.stage = "answered", !.says = says]}
          /\ files' = IF ~(shared /\ w.attached) THEN files
                      ELSE IF after THEN files \cup {w.conn} ELSE files \ {w.conn}
          /\ sessions' = IF shared \/ ~w.attached THEN sessions
                         ELSE [sessions EXCEPT ![<<w.tab, w.conn>>] = after]
  /\ UNCHANGED <<tabVars, active, prompts, live, selected, attempts, up, used, runs>>

Init ==
  /\ strip = <<FirstTab>> /\ active = FirstTab /\ bound = [t \in {FirstTab} |-> First]
  /\ pendingClose = Null /\ pendingSwitch = Null
  /\ live = {First} /\ selected = First /\ attempts = {}
  /\ noted = {} /\ flags = {} /\ inbox = <<>> /\ work = {}
  /\ up = {First} /\ sessions = << >> /\ files = {}
  /\ used = {FirstTab, First} /\ runs = 0 /\ muddled = {}

Next ==
  \/ openTab \/ setActiveTab \/ updateTabContent
  \/ \E t \in Open, kind \in {"close", "others", "right"} : requestClose(kind, t)
  \/ confirmPendingClose \/ cancelPendingClose
  \/ selectDatabase \/ confirmPendingSwitch \/ cancelPendingSwitch
  \/ \E c \in Conns : selectConnection(c)
  \/ connect \/ cancelConnect \/ disconnect \/ handleReconnect
  \/ Connects \/ Connected \/ Disconnected
  \/ Run \/ Answer \/ Take \/ RunEnds

Spec == Init /\ [][Next]_vars

(***************************************************************************)
(* Properties                                                              *)
(***************************************************************************)
TypeOK ==
  /\ strip \in Seq(TabIds) /\ strip # <<>> /\ IsInjective(strip) /\ active \in Open
  /\ bound \in [Open -> Conns \cup {Null}]
  /\ live \subseteq Conns /\ selected \in Conns \cup {Null}
  /\ noted \subseteq TabIds \X Conns /\ flags \subseteq TabIds \cup Files
  /\ up \subseteq Conns /\ files \subseteq up
  /\ sessions \in [DOMAIN sessions -> BOOLEAN] /\ DOMAIN sessions \subseteq TabIds \X up

InTransaction(s) == s \in DOMAIN sessions /\ sessions[s]
Sent(command) == \E i \in DOMAIN inbox : inbox[i] = command
Settled(t, c) == ~Busy(t) /\ ~Sent(CloseSession(<<t, c>>)) /\ ~Disconnecting(c)

\* The badge tells the truth once nothing is under way: a tab's flag, and a file's, is set
\* exactly while the server has a transaction open for it.  What the window cannot order
\* is left out (muddled): two runs of a tab in flight at once, a run whose session is
\* closed under it or that goes to another connection than its tab's, an answer that
\* comes while a prompt is up; and a tab that moved from a connection selected again since
\* the prompt opened, whose session and flag stay until the tabs change next.
FlagTruthful ==
  /\ \A t \in Open \ muddled :
       bound[t] \in live \cap up \cap Servers /\ Settled(t, bound[t])
         => (t \in flags <=> InTransaction(<<t, bound[t]>>))
  /\ \A f \in (live \cap up \cap Files) \ muddled :
       ~FileBusy(f) => (f \in flags <=> f \in files)

\* A transaction known to be open is rolled back, by closing its tab, the last tab of its
\* file, moving it or reconnecting, only as the user confirms a prompt.
Confirms == (pendingClose # Null /\ pendingClose' = Null) \/ (pendingSwitch # Null /\ pendingSwitch' = Null)
New(command) == ~Sent(command) /\ \E i \in DOMAIN inbox' : inbox'[i] = command

Consent ==
  /\ \A s \in noted \ noted' :
       InTransaction(s) /\ s[1] \notin muddled /\ Settled(s[1], s[2]) => Confirms
  /\ \A f \in files \ muddled : New(RollBack(f)) /\ ~FileBusy(f) => Confirms
  /\ \A t \in Open \ muddled :
       /\ InTransaction(<<t, bound[t]>>) /\ Settled(t, bound[t])
       /\ New(Disconnection(bound[t], TRUE, TRUE))
       => Confirms

ConsentBeforeRollback == [][Consent]_vars

\* No session outlives its tab, or its tab's stay on the connection, unless the command to
\* end it is on its way: what the window has forgotten nobody else would close.
SessionsEnd ==
  \A s \in DOMAIN sessions :
    (s \in noted /\ s[1] \in Open) \/ Sent(CloseSession(s)) \/ Disconnecting(s[2])

\* A connection the backend holds can be reached: it is listed, or a connect or a
\* disconnect is under way for it, cancelled attempts included.
NothingUnreachable ==
  \A c \in up : c \in live \/ Disconnecting(c) \/ \E a \in attempts : a.conn = c
=============================================================================
