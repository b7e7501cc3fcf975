---------------------------- MODULE TableDesigner ----------------------------
(***************************************************************************)
(* The table designer and the structure panel                              *)
(* (src/src/components/designer/TableDesigner.tsx,                         *)
(* src/src/components/schema/TableStructure.tsx): a form is loaded from a  *)
(* table, edited, and applied as the difference from the baseline it was   *)
(* loaded with.  Both read through the table details store                 *)
(* (src/src/stores/tableDetailsStore.ts), keyed by the view that asked.    *)
(* MainPanel gives neither a key, so going from one tab to another of the  *)
(* same kind keeps the component and changes its table.                    *)
(*                                                                         *)
(* A column is its name and whether it may be NULL; of the indexes only    *)
(* the primary key is kept.  The database's other tables and clients do    *)
(* not change these tables.                                                *)
(***************************************************************************)
EXTENDS Naturals, Sequences, SequencesExt, Functions

CONSTANTS
  Tables,      \* names a table has or may get
  Names,       \* column names
  First,       \* the tables there are at the start, by name
  Views,       \* ids of mounted components (a bound on mounts), a sequence
  References,  \* the tables foreign keys are pointed at
  MaxLoads, MaxEdits, MaxSaves,  \* bounds on loads, edits of the form, executed previews
  MaxWork,     \* a bound on them and mounts together, loads and mounts counting as two
  NoName,      \* the empty name
  Null

\* Tables of the server; forms, their columns and their primary key.
AnyName    == Names \cup {NoName}
TableType  == [cols : Seq([name : AnyName, nullable : BOOLEAN]), pk : Seq(AnyName)]
FormColumn == [id : Nat, name : AnyName, nullable : BOOLEAN]
KeyType    == [id : Nat, cols : Seq(AnyName)]
FormType   == [name : Tables \cup {NoName}, cols : Seq(FormColumn), key : KeyType \cup {Null}]

Unique(cols) == \A i, j \in DOMAIN cols : cols[i].name = cols[j].name => i = j

\* Null is no name, component, load, table, key, form or answer.
ASSUME DesignerAssumption ==
  /\ Views \in Seq(Range(Views))
  /\ Null \notin Tables /\ Null \notin Names /\ Null # NoName /\ NoName \notin Names
  /\ Null \notin [kind : {"designer", "structure"}, view : Range(Views), table : Tables \cup {Null}]
  /\ Null \notin [table : Tables, token : Nat]
  /\ Null \notin TableType
  /\ Null \notin KeyType
  /\ Null \notin FormType
  /\ Null \notin {"done", "refused"}

\* The tables at the start are tables.
ASSUME FirstAssumption ==
  /\ DOMAIN First \subseteq Tables
  /\ \A t \in DOMAIN First : First[t] \in TableType /\ Unique(First[t].cols)

VARIABLES
  server,     \* the tables of the database, Null where there is none
  shown,      \* the active designer or structure tab's component, or Null
  form,       \* useState of the designer: name, columns, primary key
  baseline,   \* originalConfig
  flags,      \* loadError, loadWarning, showPreview and saving
  store,      \* tableDetailsStore: details, references, latestRead, referenceGeneration
  reads,      \* loadDetails calls not settled
  refReads,   \* reference reads not answered
  saves,      \* executeQuery calls of runSave not answered
  confirming, \* the statement the production dialog asks about
  ids,        \* idCounter
  spent,      \* mounts, loads, edits and saves so far
  from,       \* (history) the load the form comes from: its table and token
  astray      \* (history) why the baseline no longer says what the server has

vars == <<server, shown, form, baseline, flags, store, reads, refReads, saves,
          confirming, ids, spent, from, astray>>

(***************************************************************************)
(* Configurations and the statement that takes one to another              *)
(***************************************************************************)
Column(id, name, nullable) == [id |-> id, name |-> name, nullable |-> nullable]
newColumn(id) == Column(id, NoName, TRUE)

\* filter: the elements of seq that are in S, in their order.
Kept(seq, S) ==
  LET kept[i \in 0..Len(seq)] ==
        IF i = 0 THEN <<>> ELSE IF seq[i] \in S THEN Append(kept[i - 1], seq[i]) ELSE kept[i - 1]
  IN  kept[Len(seq)]

IdsOf(cols)   == {c.id : c \in ToSet(cols)}
NamesOf(cols) == {c.name : c \in ToSet(cols)}
Named(cols)   == Kept(cols, {c \in ToSet(cols) : c.name # NoName})
WithId(cols, id) == CHOOSE c \in ToSet(cols) : c.id = id
KeyColumns(config) == IF config.key = Null THEN <<>> ELSE config.key.cols

\* What a column is on the server.
Defined(c) == [name |-> c.name, nullable |-> c.nullable]

isColumnChanged(a, b) == a.name # b.name \/ a.nullable # b.nullable

NothingToDo == [kind |-> "none", table |-> Null, to |-> Null, drops |-> {}, changes |-> {},
                adds |-> <<>>, dropKey |-> FALSE, addKey |-> <<>>]

\* The added columns, each after the one before it in the form.
Additions(original, cols) ==
  LET placed == [i \in DOMAIN cols |->
                   [col |-> cols[i], after |-> IF i = 1 THEN Null ELSE cols[i - 1].name]]
  IN  Kept(placed, {p \in ToSet(placed) : p.col.id \notin IdsOf(original.cols)})

\* DROP PRIMARY KEY and ADD PRIMARY KEY: an index is the same one by its id.
KeyClauses(original, modified) ==
  LET o == original.key
      k == modified.key
      same    == o # Null /\ k # Null /\ k.id = o.id
      changed == same /\ k.cols # <<>> /\ k.cols # o.cols
      added   == ~same /\ k # Null /\ k.cols # <<>>
  IN  [drop |-> (o # Null /\ ~same) \/ changed, add |-> IF changed \/ added THEN k.cols ELSE <<>>]

\* The clauses of the statement.
Clauses(table, original, modified) ==
  LET cols == Named(modified.cols)
  IN  [kind    |-> "alter", table |-> table,
       to      |-> IF modified.name \notin {original.name, NoName} THEN modified.name ELSE Null,
       drops   |-> {c.name : c \in {d \in ToSet(original.cols) : d.id \notin IdsOf(modified.cols)}},
       changes |-> {[old |-> WithId(original.cols, c.id).name, new |-> c] :
                      c \in {d \in ToSet(cols) : /\ d.id \in IdsOf(original.cols)
                                                 /\ isColumnChanged(WithId(original.cols, d.id), d)}},
       adds    |-> Additions(original, cols),
       dropKey |-> KeyClauses(original, modified).drop,
       addKey  |-> KeyClauses(original, modified).add]

generateAlterTable(table, original, modified) ==
  LET s == Clauses(table, original, modified)
  IN  IF s = [NothingToDo EXCEPT !.kind = "alter", !.table = table] THEN NothingToDo ELSE s

generateCreateTable(config) ==
  IF config.name = NoName \/ config.cols = <<>> THEN NothingToDo
  ELSE [NothingToDo EXCEPT
          !.kind = "create", !.table = config.name, !.addKey = KeyColumns(config),
          !.adds = [i \in DOMAIN Named(config.cols) |-> [col |-> Named(config.cols)[i], after |-> Null]]]

\* generateSql: an alter without a baseline, and no change at all, are a comment.
generateSql(table) ==
  IF table = Null THEN generateCreateTable(form)
  ELSE IF baseline = Null THEN NothingToDo
  ELSE generateAlterTable(table, baseline, form)

(***************************************************************************)
(* The server (external): what MySQL makes of the statement                *)
(***************************************************************************)
\* An added column follows the one it names, or is the first.
Place(cols, add) ==
  LET i == IF add.after \in NamesOf(cols) THEN CHOOSE j \in DOMAIN cols : cols[j].name = add.after ELSE 0
  IN  InsertAt(cols, i + 1, Defined(add.col))

\* The columns of t with the dropped gone and the changed changed.
ChangedColumns(t, s) ==
  LET kept == Kept(t.cols, {c \in ToSet(t.cols) : c.name \notin s.drops}) IN
  [i \in DOMAIN kept |-> IF \E c \in s.changes : c.old = kept[i].name
                         THEN Defined((CHOOSE c \in s.changes : c.old = kept[i].name).new)
                         ELSE kept[i]]

\* The added columns follow one that is there, or one added before.
CanPlace(t, s) == \A i \in DOMAIN s.adds :
  \/ s.adds[i].after = Null
  \/ s.adds[i].after \in NamesOf(ChangedColumns(t, s)) \cup {s.adds[j].col.name : j \in 1..(i - 1)}

AlteredColumns(t, s) ==
  LET placed[i \in 0..Len(s.adds)] ==
        IF i = 0 THEN ChangedColumns(t, s) ELSE Place(placed[i - 1], s.adds[i])
  IN  placed[Len(s.adds)]

\* The primary key the server is left with before one is added: it follows
\* renames, and loses the columns that are dropped.
KeptKey(t, s) ==
  LET left == Kept(t.pk, ToSet(t.pk) \ s.drops) IN
  IF s.dropKey THEN <<>>
  ELSE [i \in DOMAIN left |-> IF \E c \in s.changes : c.old = left[i]
                              THEN (CHOOSE c \in s.changes : c.old = left[i]).new.name ELSE left[i]]

\* The columns a statement states the nullability of.
Stated(s) == {c.new : c \in s.changes} \cup {a.col : a \in ToSet(s.adds)}

\* Refused (Null), or the altered table: one statement, all of it or nothing.
Altered(t, s) ==
  LET cols == AlteredColumns(t, s)
      key  == IF s.addKey # <<>> THEN s.addKey ELSE KeptKey(t, s)
      names == NamesOf(t.cols)
  IN  IF /\ s.drops \cup {c.old : c \in s.changes} \subseteq names
         /\ s.dropKey => t.pk # <<>>
         /\ s.addKey # <<>> => KeptKey(t, s) = <<>>
         /\ CanPlace(t, s)
         /\ cols # <<>> /\ Unique(cols)
         /\ ToSet(key) \subseteq NamesOf(cols)
         /\ \A c \in Stated(s) : c.name \in ToSet(key) => ~c.nullable
      THEN [cols |-> [i \in DOMAIN cols |-> IF cols[i].name \in ToSet(key)
                                            THEN [cols[i] EXCEPT !.nullable = FALSE] ELSE cols[i]],
            pk |-> key]
      ELSE Null

\* The tables after statement s, or Null when the server refuses it.
Executed(tables, s) ==
  LET there == tables[s.table]
      cols  == [i \in DOMAIN s.adds |-> Defined(s.adds[i].col)]
  IN  IF s.kind = "create"
      THEN IF /\ there = Null /\ cols # <<>> /\ Unique(cols)
              /\ ToSet(s.addKey) \subseteq NamesOf(cols)
              /\ \A c \in ToSet(cols) : c.name \in ToSet(s.addKey) => ~c.nullable
           THEN [tables EXCEPT ![s.table] = [cols |-> cols, pk |-> s.addKey]]
           ELSE Null
      ELSE IF there = Null \/ (s.to # Null /\ tables[s.to] # Null) \/ Altered(there, s) = Null THEN Null
      ELSE [tables EXCEPT ![s.table] = IF s.to = Null THEN Altered(there, s) ELSE Null,
                          ![IF s.to = Null THEN s.table ELSE s.to] = Altered(there, s)]

(***************************************************************************)
(* The table details store                                                 *)
(***************************************************************************)
With(f, k, v)  == [x \in DOMAIN f \cup {k} |-> IF x = k THEN v ELSE f[x]]
Without(f, k)  == Restrict(f, DOMAIN f \ {k})

\* The read of a view's token: none once the view is released, or it landed.
IsLatest(s, r) == r.view \in DOMAIN s.latestRead /\ s.latestRead[r.view] = r.token

\* loadDetails, up to its await: the entry keeps what it showed, and loads.
StartRead(s, view) ==
  [s EXCEPT !.counter = @ + 1, !.latestRead = With(@, view, s.counter + 1),
            !.details = With(@, view, [of |-> IF view \in DOMAIN @ THEN @[view].of ELSE Null,
                                       loading |-> TRUE])]

\* (mutant) Every read lands.
LandAny(s, r) == [s EXCEPT !.latestRead = Without(@, r.view),
                           !.details = With(@, r.view, [of |-> r.table, loading |-> FALSE])]

\* loadDetails, once every part has settled.
Land(s, r) == IF IsLatest(s, r)
              THEN [s EXCEPT !.latestRead = Without(@, r.view),
                             !.details = With(@, r.view, [of |-> r.table, loading |-> FALSE])]
              ELSE s

\* referenceGenerationOf: the view's generation, a new one if it has none.
WithGeneration(s, view) ==
  IF view \in DOMAIN s.generation THEN s
  ELSE [s EXCEPT !.counter = @ + 1, !.generation = With(@, view, s.counter + 1)]

\* putReferences: a view that released its references does not get them back.
PutReferences(s, r) ==
  IF r.view \in DOMAIN s.generation /\ s.generation[r.view] = r.generation
  THEN [s EXCEPT !.references =
          With(@, r.view, {r.what} \cup (IF r.view \in DOMAIN @ THEN @[r.view] ELSE {}))]
  ELSE s

\* (mutant) The generations and the latest read outlive the view.
ReleaseEntries(s, view) == [s EXCEPT !.details = Without(@, view), !.references = Without(@, view)]

Release(s, view) ==
  [s EXCEPT !.latestRead = Without(@, view), !.generation = Without(@, view),
            !.details = Without(@, view), !.references = Without(@, view)]

Parts == {"columns", "indexes"}  \* columns stands for the DDL too: the form needs both

\* A part's answer once it is there, and whether a statement changed the table
\* while the parts were read.
NewRead(s, kind, view, table) ==
  [kind |-> kind, view |-> view, token |-> s.counter, table |-> table,
   columns |-> Null, indexes |-> Null, moved |-> FALSE]

Failed == [failed |-> TRUE]
Got(v) == [failed |-> FALSE, value |-> v]

(***************************************************************************)
(* Opening and leaving                                                     *)
(***************************************************************************)
Mounted(view)  == shown # Null /\ shown.view = view
IsDesigner     == shown # Null /\ shown.kind = "designer"

\* The reason the form stops being trusted is forgotten with the form.
NoFlags == [loadError |-> FALSE, warned |-> FALSE, preview |-> FALSE, saving |-> FALSE]

BlankForm(table, id) == [name |-> IF table = Null THEN NoName ELSE table,
                         cols |-> <<newColumn(id)>>, key |-> Null]

\* Mounts, loads, edits and executed previews so far.
Work == 2 * (spent.loads + spent.mounts) + spent.edits + spent.saves

MayLoad == spent.loads < MaxLoads /\ Work + 2 <= MaxWork
CanLoad(table) == table = Null \/ MayLoad
Loads(table)   == IF table = Null THEN 0 ELSE 1

\* The effects of a mounted designer or panel: read the table, if there is one.
Effects(s, kind, view, table) ==
  /\ store' = IF table = Null THEN s ELSE StartRead(s, view)
  /\ reads' = IF table = Null THEN reads ELSE reads \cup {NewRead(StartRead(s, view), kind, view, table)}

\* Another tab of the same kind: the component stays, its table changes.
Switch(table) ==
  /\ shown # Null /\ table # shown.table
  /\ shown.kind = "structure" => table # Null
  /\ CanLoad(table)
  /\ shown' = [shown EXCEPT !.table = table]
  /\ Effects(store, shown.kind, shown.view, table)
  /\ flags' = IF table = Null THEN flags ELSE [flags EXCEPT !.loadError = FALSE, !.warned = FALSE]
  /\ spent' = [spent EXCEPT !.loads = @ + Loads(table)]
  /\ UNCHANGED <<server, form, baseline, refReads, saves, confirming, ids, from, astray>>

\* A tab of another kind than the one shown: the old component goes, a new one
\* comes with a view of its own, and a designer asks for the reference tables.
Open(kind, table) ==
  LET left == IF shown = Null THEN store ELSE Release(store, shown.view)
      view == Views[spent.mounts + 1]
      s    == IF kind = "designer" THEN WithGeneration(left, view) ELSE left
  IN  /\ shown # Null => shown.kind # kind
      /\ kind = "structure" => table # Null
      /\ spent.mounts < Len(Views) /\ Work + 2 * (1 + Loads(table)) <= MaxWork
      /\ CanLoad(table)
      /\ shown' = [kind |-> kind, view |-> view, table |-> table]
      /\ Effects(s, kind, view, table)
      /\ refReads' = IF kind = "designer"
                     THEN refReads \cup {[view |-> view, generation |-> s.generation[view], what |-> "tables"]}
                     ELSE refReads
      /\ form' = BlankForm(table, ids + 1)
      /\ ids' = ids + 1
      /\ baseline' = Null /\ flags' = NoFlags /\ from' = Null /\ astray' = {}
      /\ spent' = [spent EXCEPT !.mounts = @ + 1, !.loads = @ + Loads(table)]
      /\ UNCHANGED <<server, saves, confirming>>

\* A tab of a third kind, or none.
Leave ==
  /\ shown # Null
  /\ shown' = Null
  /\ store' = Release(store, shown.view)
  /\ form' = BlankForm(Null, 0) /\ baseline' = Null /\ flags' = NoFlags
  /\ from' = Null /\ astray' = {}
  /\ UNCHANGED <<server, reads, refReads, saves, confirming, ids, spent>>

Loading == shown # Null /\ shown.table # Null
           /\ (shown.view \in DOMAIN store.details => store.details[shown.view].loading)

\* The form is on screen: not the spinner, not the error.
FormShown == IsDesigner /\ ~Loading /\ ~flags.loadError

\* Retry, offered with a load error.
Retry ==
  /\ IsDesigner /\ ~Loading /\ flags.loadError /\ shown.table # Null
  /\ MayLoad
  /\ Effects(store, "designer", shown.view, shown.table)
  /\ flags' = [flags EXCEPT !.loadError = FALSE, !.warned = FALSE]
  /\ spent' = [spent EXCEPT !.loads = @ + 1]
  /\ UNCHANGED <<server, shown, form, baseline, refReads, saves, confirming, ids, from, astray>>

(***************************************************************************)
(* Answers of the reads                                                    *)
(***************************************************************************)
\* The form a designer makes of what it read: ids of its own, one blank column
\* where there are none.
LoadedForm(r) ==
  LET cols == r.columns.value
      pk   == IF r.indexes.failed THEN <<>> ELSE r.indexes.value
  IN  [name |-> r.table,
       cols |-> [i \in DOMAIN cols |-> Column(ids + i, cols[i].name, cols[i].nullable)],
       key  |-> IF pk = <<>> THEN Null ELSE [id |-> ids + Len(cols) + 1, cols |-> pk]]

\* The designer's load after its await: whatever it read, wherever the tab is now.
FormTakes(r) ==
  IF ~(r.kind = "designer" /\ Mounted(r.view))
  THEN UNCHANGED <<form, baseline, flags, ids, from, astray>>
  ELSE IF r.columns.failed
  THEN /\ baseline' = Null
       /\ flags' = [flags EXCEPT !.loadError = TRUE]
       /\ UNCHANGED <<form, ids, from, astray>>
  ELSE /\ form' = LoadedForm(r)
       /\ baseline' = LoadedForm(r)
       /\ flags' = [flags EXCEPT !.warned = @ \/ r.indexes.failed]
       /\ ids' = ids + Len(r.columns.value) + 1
       /\ from' = [table |-> r.table, token |-> r.token]
       /\ astray' = (IF r.indexes.failed THEN {"incomplete"} ELSE {})
                    \cup (IF r.moved THEN {"elsewhere"} ELSE {})

\* One part's answer, as the table is when the server reads it, or a failure.
\* The last part settles the whole read.
Answers(table, part) ==
  {Failed} \cup (IF server[table] = Null THEN {}
                 ELSE {Got(IF part = "columns" THEN server[table].cols ELSE server[table].pk)})

AnswerPart(r, part, a) ==
  LET q == [r EXCEPT ![part] = a] IN
  /\ r[part] = Null
  /\ IF \E p \in Parts : q[p] = Null
     THEN /\ reads' = (reads \ {r}) \cup {q}
          /\ UNCHANGED <<form, baseline, flags, store, ids, from, astray>>
     ELSE /\ reads' = reads \ {r}
          /\ store' = Land(store, q)
          /\ FormTakes(q)
  /\ UNCHANGED <<server, shown, refReads, saves, confirming, spent>>

\* The foreign key tab picks a table: its columns are read once per view.
LoadReferenceColumns(table) ==
  LET s == WithGeneration(store, shown.view) IN
  /\ FormShown /\ CanLoad(table)
  /\ shown.view \in DOMAIN store.references => table \notin store.references[shown.view]
  /\ refReads' = refReads \cup
       {[view |-> shown.view, generation |-> s.generation[shown.view], what |-> table]}
  /\ store' = s
  /\ spent' = [spent EXCEPT !.loads = @ + 1]
  /\ UNCHANGED <<server, shown, form, baseline, flags, reads, saves, confirming, ids, from, astray>>

\* A reference read answers; one that failed leaves nothing but its error.
AnswerReference(r, ok) ==
  /\ refReads' = refReads \ {r}
  /\ store' = IF ok THEN PutReferences(store, r) ELSE store
  /\ UNCHANGED <<server, shown, form, baseline, flags, reads, saves, confirming, ids, spent, from, astray>>

(***************************************************************************)
(* Editing                                                                 *)
(***************************************************************************)
CanEdit == spent.edits < MaxEdits /\ Work < MaxWork
CanSave == spent.saves < MaxSaves /\ Work < MaxWork

\* The form takes edits while no dialog is over it.
Edit(f) ==
  /\ FormShown /\ ~flags.preview /\ confirming = Null
  /\ CanEdit
  /\ f # form
  /\ form' = f
  /\ spent' = [spent EXCEPT !.edits = @ + 1]
  /\ UNCHANGED <<server, shown, baseline, flags, store, reads, refReads, saves, confirming, from, astray>>

SetColumns(cols) == [form EXCEPT !.cols = cols]

updateColumn(i, c) == Edit(SetColumns([form.cols EXCEPT ![i] = c])) /\ UNCHANGED ids

RenameColumn(i, name)  == updateColumn(i, [form.cols[i] EXCEPT !.name = name])
ToggleNullable(i)      == updateColumn(i, [form.cols[i] EXCEPT !.nullable = ~@])

addColumn == Edit(SetColumns(Append(form.cols, newColumn(ids + 1)))) /\ ids' = ids + 1
removeColumn(i) == Edit(SetColumns(RemoveAt(form.cols, i))) /\ UNCHANGED ids

\* handleDragEnd: the dragged column is taken out and put back where it was dropped.
DragColumn(i, j) ==
  Edit(SetColumns(InsertAt(RemoveAt(form.cols, i), j, form.cols[i]))) /\ UNCHANGED ids

\* A key column cannot be NULL.
WithKeyColumn(cols, name) ==
  [i \in DOMAIN cols |-> IF cols[i].name = name THEN [cols[i] EXCEPT !.nullable = FALSE] ELSE cols[i]]

togglePrimaryKey(name) ==
  LET inKey == name \in ToSet(KeyColumns(form))
      cols  == IF inKey THEN Kept(KeyColumns(form), ToSet(KeyColumns(form)) \ {name})
               ELSE Append(KeyColumns(form), name)
      id    == IF form.key = Null THEN ids + 1 ELSE form.key.id
  IN  /\ name # NoName
      /\ Edit([form EXCEPT !.cols = IF inKey THEN @ ELSE WithKeyColumn(@, name),
                           !.key = IF cols = <<>> THEN Null ELSE [id |-> id, cols |-> cols]])
      /\ ids' = IF form.key = Null THEN ids + 1 ELSE ids

removeIndex == Edit([form EXCEPT !.key = Null]) /\ UNCHANGED ids

SetTableName(name) == Edit([form EXCEPT !.name = name]) /\ UNCHANGED ids

(***************************************************************************)
(* Applying                                                                *)
(***************************************************************************)
\* Preview SQL, and the primary button.
OpenPreview ==
  /\ FormShown /\ ~flags.preview /\ confirming = Null
  /\ CanSave
  /\ flags' = [flags EXCEPT !.preview = TRUE]
  /\ UNCHANGED <<server, shown, form, baseline, store, reads, refReads, saves, confirming, ids, spent, from, astray>>

ClosePreview ==
  /\ FormShown /\ flags.preview
  /\ flags' = [flags EXCEPT !.preview = FALSE]
  /\ UNCHANGED <<server, shown, form, baseline, store, reads, refReads, saves, confirming, ids, spent, from, astray>>

\* The columns the form and the baseline share are in the same order.
KeptOrder(original, modified) ==
  \A i, j \in DOMAIN original.cols, k, l \in DOMAIN modified.cols :
    original.cols[i].id = modified.cols[k].id /\ original.cols[j].id = modified.cols[l].id
      => (i < j <=> k < l)

\* The key's columns are there, and are the ones it named in the baseline: the
\* form's key goes by name and the server's by column.
KeyKept(original, modified) ==
  LET idsOf(config, n) == {c.id : c \in {d \in ToSet(config.cols) : d.name = n}} IN
  \A n \in ToSet(KeyColumns(modified)) :
    /\ idsOf(modified, n) # {}
    /\ original # Null /\ n \in ToSet(KeyColumns(original)) => idsOf(modified, n) = idsOf(original, n)

\* What the user made of the table is a table the server can have: named
\* columns, distinct, a key of them that takes no NULL and still names the
\* columns it named, the columns the table had in the order it had them.
WellFormed(original, modified) ==
  /\ modified.cols # <<>> /\ NoName \notin NamesOf(modified.cols) /\ Unique(modified.cols)
  /\ KeyKept(original, modified)
  /\ \A c \in ToSet(modified.cols) : c.name \in ToSet(KeyColumns(modified)) => ~c.nullable
  /\ original # Null => KeptOrder(original, modified)

\* (history) Why a saved form would say more than the server has: what the
\* statement leaves out or the server makes of it, and the table's new name.
LeftOut ==
  (IF WellFormed(baseline, form) THEN {} ELSE {"malformed"})
  \cup (IF baseline # Null /\ form.name # baseline.name THEN {"renamed"} ELSE {})

\* Execute in the preview: runSave up to its await, and the preview closes.
\* Nothing but the Apply button is disabled while a save runs.
Execute ==
  LET s == generateSql(shown.table) IN
  /\ FormShown /\ flags.preview
  /\ CanSave
  /\ spent' = [spent EXCEPT !.saves = @ + 1]
  /\ flags' = [flags EXCEPT !.preview = FALSE, !.saving = @ \/ s.kind # "none"]
  /\ saves' = IF s.kind = "none" THEN saves
              ELSE saves \cup {[view |-> shown.view, stmt |-> s, config |-> form, alter |-> shown.table # Null,
                                from |-> from, leftOut |-> LeftOut, answer |-> Null, n |-> spent.saves]}
  /\ astray' = IF s.kind # "none" /\ \E v \in saves : v.view = shown.view
               THEN astray \cup {"overlap"} ELSE astray
  /\ UNCHANGED <<server, shown, form, baseline, store, reads, refReads, confirming, ids, from>>

\* The tables s can have changed.
TablesOf(s) == {s.table, s.to} \ {Null}

\* A statement's effect on the server: what a form or a read there is of these
\* tables may no longer say what they are.
Effect(s, own) ==
  LET done == Executed(server, s) IN
  /\ server' = IF done = Null THEN server ELSE done
  /\ reads' = IF done = Null THEN reads
              ELSE {[r EXCEPT !.moved = @ \/ r.table \in TablesOf(s)] : r \in reads}
  /\ astray' = IF done # Null /\ from # Null /\ from.table \in TablesOf(s) /\ from # own
               THEN astray \cup {"elsewhere"} ELSE astray

\* The server runs the statement of a save.
RunStatement(v) ==
  /\ v.answer = Null
  /\ Effect(v.stmt, v.from)
  /\ saves' = (saves \ {v}) \cup {[v EXCEPT !.answer = IF Executed(server, v.stmt) = Null
                                                      THEN "refused" ELSE "done"]}
  /\ UNCHANGED <<shown, form, baseline, flags, store, refReads, confirming, ids, spent, from>>

\* (mutant) The baseline is the form as it is when the save is done.
BaselineNow(v) == form
\* currentConfig of the render that ran the save.
BaselineOf(v) == v.config

\* runSave after its await: saved, or refused.
Saved(v) ==
  LET mine == Mounted(v.view) IN
  /\ v.answer # Null
  /\ saves' = saves \ {v}
  /\ flags' = IF mine THEN [flags EXCEPT !.saving = FALSE] ELSE flags
  /\ IF mine /\ v.answer = "done" /\ v.alter
     THEN /\ baseline' = BaselineOf(v)
          /\ astray' = astray \cup v.leftOut \cup (IF v.from # from THEN {"elsewhere"} ELSE {})
     ELSE UNCHANGED <<baseline, astray>>
  /\ UNCHANGED <<server, shown, form, store, reads, refReads, confirming, ids, spent, from>>

\* Cancelled, or failed with the connection: the statement ran or it never will,
\* and the baseline stays.
Lost(v) ==
  LET mine == Mounted(v.view) IN
  /\ saves' = saves \ {v}
  /\ flags' = IF mine THEN [flags EXCEPT !.saving = FALSE] ELSE flags
  /\ astray' = IF v.answer = "done" /\ mine THEN astray \cup {"unconfirmed"} ELSE astray
  /\ UNCHANGED <<server, shown, form, baseline, store, reads, refReads, confirming, ids, spent, from>>

\* A production connection: nothing runs before the dialog is answered, and the
\* save is over for the designer.  There is one dialog: what it asked before is
\* not asked again.
AwaitConfirmation(v) ==
  /\ v.answer = Null
  /\ confirming' = [stmt |-> v.stmt, view |-> v.view]
  /\ saves' = saves \ {v}
  /\ flags' = IF Mounted(v.view) THEN [flags EXCEPT !.saving = FALSE] ELSE flags
  /\ UNCHANGED <<server, shown, form, baseline, store, reads, refReads, ids, spent, from, astray>>

Confirm ==
  /\ confirming # Null
  /\ Effect(confirming.stmt, Null)
  /\ confirming' = Null
  /\ UNCHANGED <<shown, form, baseline, flags, store, refReads, saves, ids, spent, from>>

Decline ==
  /\ confirming # Null
  /\ confirming' = Null
  /\ UNCHANGED <<server, shown, form, baseline, flags, store, reads, refReads, saves, ids, spent, from, astray>>

(***************************************************************************)
(* The specification                                                       *)
(***************************************************************************)
Init ==
  /\ server = [t \in Tables |-> IF t \in DOMAIN First THEN First[t] ELSE Null]
  /\ shown = Null /\ form = BlankForm(Null, 0) /\ baseline = Null /\ flags = NoFlags
  /\ store = [counter |-> 0, latestRead |-> <<>>, generation |-> <<>>, details |-> <<>>, references |-> <<>>]
  /\ reads = {} /\ refReads = {} /\ saves = {} /\ confirming = Null
  /\ ids = 0 /\ spent = [mounts |-> 0, loads |-> 0, edits |-> 0, saves |-> 0]
  /\ from = Null /\ astray = {}

\* Tabs about a table are opened from the schema tree, which lists what is there.
Openable == {t \in Tables : server[t] # Null}

Navigate ==
  \/ \E t \in Openable \cup {Null} : Switch(t)
  \/ \E kind \in {"designer", "structure"}, t \in Openable \cup {Null} : Open(kind, t)
  \/ Leave
  \/ Retry

EditForm ==
  \/ \E i \in DOMAIN form.cols, n \in Names \cup {NoName} : RenameColumn(i, n)
  \/ \E i \in DOMAIN form.cols : ToggleNullable(i)
  \/ addColumn
  \/ \E i \in DOMAIN form.cols : removeColumn(i)
  \/ \E i, j \in DOMAIN form.cols : DragColumn(i, j)
  \/ \E n \in NamesOf(form.cols) : togglePrimaryKey(n)
  \/ removeIndex
  \/ \E t \in Tables \cup {NoName} : SetTableName(t)

Reading ==
  \/ \E r \in reads : \E p \in Parts : \E a \in Answers(r.table, p) : AnswerPart(r, p, a)
  \/ \E t \in References \cap Openable : LoadReferenceColumns(t)
  \/ \E r \in refReads, ok \in BOOLEAN : AnswerReference(r, ok)

Applying ==
  \/ OpenPreview \/ ClosePreview \/ Execute
  \/ \E v \in saves : RunStatement(v) \/ Saved(v) \/ Lost(v) \/ AwaitConfirmation(v)
  \/ Confirm \/ Decline

Next == Navigate \/ EditForm \/ Reading \/ Applying

Spec == Init /\ [][Next]_vars

(***************************************************************************)
(* Properties                                                              *)
(***************************************************************************)
Content(config) == [cols |-> [i \in DOMAIN config.cols |-> Defined(config.cols[i])], pk |-> KeyColumns(config)]

\* A form of the table it is shown for, at rest.
AtRest == /\ FormShown /\ shown.table # Null /\ baseline # Null
          /\ from # Null /\ from.table = shown.table
          /\ \A v \in saves : v.view # shown.view

\* Whatever was edited, saved and edited again, Apply makes the table what the
\* form shows: the difference is taken from what the server really has
\* (TableDesigner.tsx 245-247, generateAlterTable).  Not once the baseline went
\* astray, for the reasons the actions record.
AppliesWhatIsShown ==
  AtRest /\ astray = {} /\ WellFormed(baseline, form) /\ form.name = baseline.name
    => LET s == generateSql(shown.table)
           t == IF s.kind = "none" THEN server[shown.table] ELSE Altered(server[shown.table], s)
       IN  t = Content(form)

\* The structure panel shows the table its tab names, however its reads
\* overtake one another (tableDetailsStore, latestRead).
PanelShowsItsTable ==
  shown # Null /\ shown.kind = "structure" /\ ~Loading
    => store.details[shown.view].of = shown.table

\* The store keeps nothing for a view that is gone, and an answer that comes
\* after it does not bring its entries back (release).
NothingOfClosedViews ==
  DOMAIN store.details \cup DOMAIN store.references \cup DOMAIN store.latestRead
    \cup DOMAIN store.generation \subseteq (IF shown = Null THEN {} ELSE {shown.view})
=============================================================================
