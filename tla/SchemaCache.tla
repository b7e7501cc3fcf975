------------------------------ MODULE SchemaCache ------------------------------
(***************************************************************************)
(* What the app knows about each server's schema (stores/schemaStore.ts):  *)
(* the answers cached per connection, the reads in flight, the generation  *)
(* by which an answer that was overtaken is recognised, and the chains of  *)
(* reads the views start (SchemaTree.tsx, QueryToolbar.tsx, SQLEditor.tsx, *)
(* useSchemaCompletion.ts): a chain awaits one read after another.         *)
(*                                                                         *)
(* An answer is abstracted to the version of the schema the server had     *)
(* when it answered; the list of databases also to the databases listed.   *)
(***************************************************************************)
EXTENDS Naturals, Sequences, SequencesExt, FiniteSets, FiniteSetsExt

CONSTANTS
  Conns,      \* connection ids, each used once
  Databases,  \* names a database can have
  Folders,    \* the folders of a database that are modelled
  Tables,     \* tables whose columns are read, each with its database
  Chains,     \* async functions of the views that may be under way at a time
  MaxChanges, \* bounds: changes made to a server's schema,
  MaxBumps,   \* and invalidations of a connection by the user
  Null

FolderOrder == <<"tables", "views", "routines", "triggers", "events">>
ASSUME SchemaAssumption ==
  /\ Folders \subseteq ToSet(FolderOrder) /\ "tables" \in Folders
  /\ Null \notin Conns /\ MaxChanges \in Nat /\ MaxBumps \in Nat

VARIABLES
  server,     \* each server's schema: how often it changed, and its databases
  link,       \* a connection: open, ended in the backend, or left by the app as well
  held,       \* byConnection: the connections that have an entry
  known,      \* the answers cached under each key, Null before any
  loading,    \* the keys listed as loading
  generation, \* generations, which outlive the entry
  chains,     \* the chains under way
  floor       \* the version each key's server had when the key was last dropped

vars == <<server, link, held, known, loading, generation, chains, floor>>

\* The cache's keys, and what an invalidation covers: all, a database or one folder of it.
ListKey == <<"databases">>
Keys == {ListKey} \cup (Databases \X Folders) \cup Tables
Scopes == {<<>>} \cup {<<d>> : d \in Databases} \cup (Databases \X Folders)
Covers(scope, key) == IsPrefix(scope, key)

Schemas == [version : Nat, databases : SUBSET Databases]
Idle == [step |-> "idle", conn |-> Null, todo |-> <<>>, each |-> FALSE, scope |-> <<>>, gen |-> 0, answer |-> Null]
Chain == [step : {"next", "asked", "answered", "changing", "changed"}, conn : Conns, todo : Seq(Keys),
          each : BOOLEAN, scope : Scopes, gen : Nat, answer : Schemas \cup {Null}]
Empty == [k \in Keys |-> Null]

TypeOK ==
  /\ server \in [Conns -> Schemas] /\ link \in [Conns -> {"open", "ended", "left"}]
  /\ held \subseteq Conns /\ known \in [Conns -> [Keys -> Schemas \cup {Null}]]
  /\ loading \in [Conns -> SUBSET Keys] /\ generation \in [Conns -> Nat]
  /\ chains \in [Chains -> Chain \cup {Idle}] /\ floor \in [Conns -> [Keys -> Nat]]

Init ==
  /\ server = [c \in Conns |-> [version |-> 0, databases |-> Databases]]
  /\ link = [c \in Conns |-> "open"]
  /\ held = {} /\ known = [c \in Conns |-> Empty] /\ loading = [c \in Conns |-> {}]
  /\ generation = [c \in Conns |-> 0] /\ chains = [ch \in Chains |-> Idle]
  /\ floor = [c \in Conns |-> [k \in Keys |-> 0]]

(*************************************************************************)
(* ensure: one read                                                      *)
(*************************************************************************)
Reads(ch, k) == chains[ch].step \in {"asked", "answered"} /\ Head(chains[ch].todo) = k
\* refreshAll reads the tables of every database its list names.
TablesOf(answer) ==
  IF answer = Null THEN <<>> ELSE [i \in 1..Cardinality(answer.databases) |-> <<SetToSeq(answer.databases)[i], "tables">>]
Rest(chain, answer) == (IF chain.each THEN TablesOf(answer) ELSE <<>>) \o Tail(chain.todo)
\* The chain's await returns.
Resume(ch, answer) ==
  LET rest == Rest(chains[ch], answer)
  IN chains' = [chains EXCEPT ![ch] = IF rest = <<>> THEN Idle
                ELSE [@ EXCEPT !.step = "next", !.todo = rest, !.each = FALSE, !.gen = 0, !.answer = Null]]

\* A cached answer is returned as it is.
EnsureCached(ch) ==
  /\ chains[ch].step = "next"
  /\ LET c == chains[ch].conn  k == Head(chains[ch].todo) IN
       known[c][k] # Null /\ Resume(ch, known[c][k])
  /\ UNCHANGED <<server, link, held, known, loading, generation, floor>>

EnsureFetches(ch) ==
  /\ chains[ch].step = "next"
  /\ LET c == chains[ch].conn  k == Head(chains[ch].todo) IN
       /\ known[c][k] = Null
       /\ chains' = [chains EXCEPT ![ch].step = "asked", ![ch].gen = generation[c]]
       /\ loading' = [loading EXCEPT ![c] = @ \cup {k}]
       /\ held' = held \cup {c}
  /\ UNCHANGED <<server, link, known, generation, floor>>

\* The backend answers a read; it fails at any time, and always for a connection it ended.
Respond(ch) ==
  /\ chains[ch].step = "asked"
  /\ LET c == chains[ch].conn
         listed == [version |-> server[c].version,
                    databases |-> IF Head(chains[ch].todo) = ListKey THEN server[c].databases ELSE {}]
     IN \E answer \in {Null} \cup IF link[c] = "open" THEN {listed} ELSE {} :
          chains' = [chains EXCEPT ![ch].step = "answered", ![ch].answer = answer]
  /\ UNCHANGED <<server, link, held, known, loading, generation, floor>>

\* Mutated: whatever comes back is cached.
StoredAlways(ch) == chains[ch].answer # Null
Stored(ch) == chains[ch].answer # Null /\ chains[ch].gen = generation[chains[ch].conn]
\* Mutated: an overtaken read does not clear the key it listed.
EnsureLeavesLoading(ch) ==
  /\ chains[ch].step = "answered"
  /\ LET c == chains[ch].conn  k == Head(chains[ch].todo) IN
       /\ known' = IF Stored(ch) THEN [known EXCEPT ![c][k] = chains[ch].answer] ELSE known
       /\ loading' = IF Stored(ch) THEN [loading EXCEPT ![c] = @ \ {k}] ELSE loading
       /\ held' = held \cup {c}
  /\ Resume(ch, chains[ch].answer)
  /\ UNCHANGED <<server, link, generation, floor>>
\* An overtaken answer is returned and not cached; the key is no longer listed, whoever else reads it.
EnsureReturns(ch) ==
  /\ chains[ch].step = "answered"
  /\ LET c == chains[ch].conn  k == Head(chains[ch].todo) IN
       /\ known' = IF Stored(ch) THEN [known EXCEPT ![c][k] = chains[ch].answer] ELSE known
       /\ loading' = [loading EXCEPT ![c] = @ \ {k}]
       /\ held' = held \cup {c}
  /\ Resume(ch, chains[ch].answer)
  /\ UNCHANGED <<server, link, generation, floor>>

(*************************************************************************)
(* invalidate and forget                                                 *)
(*************************************************************************)
bumpGeneration(c) == generation' = [generation EXCEPT ![c] = @ + 1]
Dropped(c, scope) == [k \in Keys |-> IF Covers(scope, k) THEN Null ELSE known[c][k]]
invalidate(c, scope) ==
  /\ bumpGeneration(c)
  /\ known' = [known EXCEPT ![c] = Dropped(c, scope)]
  /\ held' = held \cup {c}
  /\ floor' = [floor EXCEPT ![c] = [k \in Keys |-> IF Covers(scope, k) THEN server[c].version ELSE @[k]]]
  /\ UNCHANGED loading

\* Mutated: the entry goes, and its reads in flight are not overtaken.
forgetEntryOnly(c) ==
  /\ held' = held \ {c} /\ known' = [known EXCEPT ![c] = Empty] /\ loading' = [loading EXCEPT ![c] = {}]
  /\ UNCHANGED generation
forget(c) ==
  /\ bumpGeneration(c)
  /\ held' = held \ {c} /\ known' = [known EXCEPT ![c] = Empty] /\ loading' = [loading EXCEPT ![c] = {}]

(*************************************************************************)
(* What the views ask for                                                *)
(*************************************************************************)
\* The user reaches a connection until the app has left it.
Reachable(c) == link[c] # "left"
Began(c, todo, each, scope, step) ==
  [Idle EXCEPT !.step = step, !.conn = c, !.todo = todo, !.each = each, !.scope = scope]
Begin(ch, chain) == chains[ch] = Idle /\ chains' = [chains EXCEPT ![ch] = chain]
Listed(c) == IF known[c][ListKey] = Null THEN {} ELSE known[c][ListKey].databases
InOrder(folders) == SelectSeq(FolderOrder, LAMBDA f : f \in folders)
FolderKeys(d, folders) == [i \in 1..Cardinality(folders) |-> <<d, InOrder(folders)[i]>>]

\* The tree is shown, a node is opened, the editor completes a name.
Read(ch, c) ==
  /\ Reachable(c)
  /\ \E k \in {k \in Keys : k = ListKey \/ k[1] \in Listed(c)} : Begin(ch, Began(c, <<k>>, FALSE, <<>>, "next"))
  /\ UNCHANGED <<server, link, held, known, loading, generation, floor>>

\* A filter in the tree loads every folder of every database.
Filter(ch, c) ==
  /\ Reachable(c) /\ Listed(c) # {}
  /\ LET names == SetToSeq(Listed(c)) IN
       Begin(ch, Began(c, FlattenSeq([i \in DOMAIN names |-> FolderKeys(names[i], Folders)]), FALSE, <<>>, "next"))
  /\ UNCHANGED <<server, link, held, known, loading, generation, floor>>

\* The filter is cleared, or restarts: the chain ends with the database it is at.
FilterCleared(ch) ==
  /\ chains[ch].step \in {"next", "asked", "answered"}
  /\ LET todo == chains[ch].todo  Here(i) == todo[i][1] = todo[1][1] IN
       \E n \in 1..(Len(todo) - 1) :
         /\ \A i \in 1..n : Here(i)
         /\ ~Here(n + 1)
         /\ chains' = [chains EXCEPT ![ch].todo = SubSeq(todo, 1, n)]
  /\ UNCHANGED <<server, link, held, known, loading, generation, floor>>

\* Mutated: refreshAll reads again what it dropped, and not the list.
ReloadDropped(scope, open) ==
  IF Len(scope) = 1 THEN FolderKeys(scope[1], {"tables"} \cup open) ELSE <<scope>>
\* What is read again once `scope` was dropped: of a database the tables and the folders that are open.
Reload(scope, open) ==
  IF scope = <<>> THEN <<ListKey>>
  ELSE IF Len(scope) = 1 THEN FolderKeys(scope[1], {"tables"} \cup open) ELSE <<scope>>

\* The toolbar's and F5's refreshAll, a database's Refresh, a folder's.
Refresh(ch, c) ==
  /\ Reachable(c) /\ generation[c] < MaxBumps
  /\ \E scope \in {s \in Scopes : s # <<>> => s[1] \in Listed(c)}, open \in SUBSET Folders :
       /\ Len(scope) # 1 => open = {}
       /\ invalidate(c, scope)
       /\ Begin(ch, Began(c, Reload(scope, open), scope = <<>>, scope, "next"))
  /\ UNCHANGED <<server, link>>

\* Create, rename or drop from the tree's menus: the statement first, the reload once it ran.
runSchemaChange(ch, c) ==
  /\ Reachable(c) /\ server[c].version < MaxChanges
  /\ \E scope \in {<<>>} \cup (Listed(c) \X Folders) : Begin(ch, Began(c, Reload(scope, {}), FALSE, scope, "changing"))
  /\ UNCHANGED <<server, link, held, known, loading, generation, floor>>

\* One database more or fewer, or a change within one.
Alter(c, scope) ==
  /\ server[c].version < MaxChanges
  /\ \E ds \in SUBSET Databases :
       /\ IF scope = <<>> THEN Cardinality(SymDiff(ds, server[c].databases)) <= 1 ELSE ds = server[c].databases
       /\ server' = [server EXCEPT ![c] = [version |-> @.version + 1, databases |-> ds]]

StatementRuns(ch) ==
  /\ chains[ch].step = "changing" /\ link[chains[ch].conn] = "open"
  /\ Alter(chains[ch].conn, chains[ch].scope)
  /\ chains' = [chains EXCEPT ![ch].step = "changed"]
  /\ UNCHANGED <<link, held, known, loading, generation, floor>>
\* Declined, or it failed: an alert, and nothing is reloaded.
StatementFails(ch) ==
  /\ chains[ch].step = "changing"
  /\ chains' = [chains EXCEPT ![ch] = Idle]
  /\ UNCHANGED <<server, link, held, known, loading, generation, floor>>
AfterChange(ch) ==
  /\ chains[ch].step = "changed"
  /\ invalidate(chains[ch].conn, chains[ch].scope)
  /\ chains' = [chains EXCEPT ![ch].step = "next"]
  /\ UNCHANGED <<server, link>>

(*************************************************************************)
(* The server and the connection                                         *)
(*************************************************************************)
\* Another client changes the schema.
Changed(c) ==
  /\ Alter(c, <<>>)
  /\ UNCHANGED <<link, held, known, loading, generation, chains, floor>>
\* Disconnect: the backend's side first, the cache when the call returned.
BackendDisconnects(c) ==
  /\ link[c] = "open" /\ link' = [link EXCEPT ![c] = "ended"]
  /\ UNCHANGED <<server, held, known, loading, generation, chains, floor>>
disconnect(c) ==
  /\ link[c] = "ended" /\ link' = [link EXCEPT ![c] = "left"]
  /\ forget(c)
  /\ UNCHANGED <<server, chains, floor>>

Step(ch) == EnsureCached(ch) \/ EnsureFetches(ch) \/ EnsureReturns(ch) \/ AfterChange(ch)
Answer(ch) == Respond(ch) \/ StatementRuns(ch) \/ StatementFails(ch)
User(ch, c) == Read(ch, c) \/ Filter(ch, c) \/ Refresh(ch, c) \/ runSchemaChange(ch, c)
Outside(c) == Changed(c) \/ BackendDisconnects(c) \/ disconnect(c)
Next ==
  \/ \E ch \in Chains : Step(ch) \/ Answer(ch) \/ FilterCleared(ch) \/ \E c \in Conns : User(ch, c)
  \/ \E c \in Conns : Outside(c)
Spec == Init /\ [][Next]_vars

(*************************************************************************)
(* Properties                                                            *)
(*************************************************************************)
(* Nothing that was read before a refresh is shown after it: whatever is cached under a
   key was the server's schema at or after the time the key was last dropped, however
   many reads of it were in flight then and in whichever order they return (ensure,
   invalidate). *)
NothingFromBeforeARefresh ==
  \A c \in Conns, k \in Keys : known[c][k] # Null => known[c][k].version >= floor[c][k]

(* A connection the app has left has no schema, and no read that was in flight when it
   was left gives it one (forget, connectionStore.disconnect). *)
LeftIsForgotten == \A c \in Conns : link[c] = "left" => known[c] = Empty

(* A key is listed as loading only while a read of it is in flight, so that no spinner
   stays and the toolbar's Refresh, which waits for them all, comes back (setLoading). *)
LoadingIsReading ==
  \A c \in Conns : \A k \in loading[c] : \E ch \in Chains : chains[ch].conn = c /\ Reads(ch, k)
=============================================================================
