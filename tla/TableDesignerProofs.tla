-------------------------- MODULE TableDesignerProofs --------------------------
(***************************************************************************)
(* Theorems about TableDesigner for any tables, columns, views and bounds: *)
(* the details store keeps nothing of a view that is gone, the panel shows *)
(* the table its tab names, however reads overtake one another, and the    *)
(* statement of a preview makes the table what its form shows.             *)
(***************************************************************************)
EXTENDS TableDesigner, TLAPS, WellFoundedInduction, SequenceTheorems

(* The records, of which only what the store looks at has a type. *)
StoreShape(s) ==
  s \in [counter : Nat, latestRead : {s.latestRead}, generation : {s.generation},
         details : {s.details}, references : {s.references}]
ReadShape(r) ==
  r \in [kind : {r.kind}, view : {r.view}, token : Nat, table : {r.table},
         columns : {r.columns}, indexes : {r.indexes}, moved : {r.moved}]
Component == [kind : {"designer", "structure"}, view : Range(Views), table : Tables \cup {Null}]
Counters  == [mounts : Nat, loads : Nat, edits : Nat, saves : Nat]

Shapes ==
  /\ StoreShape(store)
  /\ \A r \in reads : ReadShape(r)
  /\ shown # Null => shown \in Component
  /\ spent \in Counters

(* Tokens are never used twice. *)
TokenInv == \A r \in reads : r.token <= store.counter

(* What the panel shows, and the one read that can still change it, are of the
   table of its tab. *)
PanelInv == shown # Null /\ shown.kind = "structure" =>
  /\ shown.table # Null
  /\ shown.view \in DOMAIN store.details /\ ~store.details[shown.view].loading
       => store.details[shown.view].of = shown.table
  /\ \A r \in reads : IsLatest(store, r) => r.table = shown.table

IInv == Shapes /\ TokenInv /\ NothingOfClosedViews /\ PanelInv

(* The views the store has something of. *)
ViewsOf(s) == DOMAIN s.details \cup DOMAIN s.references \cup DOMAIN s.latestRead \cup DOMAIN s.generation
-----------------------------------------------------------------------------
LEMMA StartReadStore ==
  ASSUME NEW s, StoreShape(s), NEW view
  PROVE  LET t == StartRead(s, view) IN
         /\ StoreShape(t) /\ t.counter = s.counter + 1 /\ ViewsOf(t) = ViewsOf(s) \cup {view}
         /\ view \in DOMAIN t.details /\ t.details[view].loading = TRUE
         /\ DOMAIN t.latestRead = DOMAIN s.latestRead \cup {view}
         /\ t.latestRead[view] = s.counter + 1
<1> DEFINE l == With(s.latestRead, view, s.counter + 1)
           d == With(s.details, view, [of |-> IF view \in DOMAIN s.details THEN s.details[view].of ELSE Null,
                                       loading |-> TRUE])
           t == StartRead(s, view)
<1>1. DOMAIN l = DOMAIN s.latestRead \cup {view} /\ l[view] = s.counter + 1
  BY DEF With
<1>2. DOMAIN d = DOMAIN s.details \cup {view} /\ d[view].loading = TRUE
  BY DEF With
<1>3. t = [s EXCEPT !.counter = s.counter + 1, !.latestRead = l, !.details = d]
  BY DEF StartRead, StoreShape
<1> HIDE DEF l, d
<1>4. /\ StoreShape(t) /\ t.counter = s.counter + 1 /\ t.latestRead = l /\ t.details = d
      /\ t.references = s.references /\ t.generation = s.generation
  <2>1. s.counter + 1 \in Nat
    BY DEF StoreShape
  <2> QED
    BY <1>3, <2>1 DEF StoreShape
<1> HIDE DEF t
<1> QED
  BY <1>1, <1>2, <1>4 DEF ViewsOf, t

LEMMA LandStore ==
  ASSUME NEW s, StoreShape(s), NEW r, IsLatest(s, r)
  PROVE  LET t == Land(s, r) IN
         /\ StoreShape(t) /\ t.counter = s.counter /\ ViewsOf(t) \subseteq ViewsOf(s) \cup {r.view}
         /\ t.details[r.view] = [of |-> r.table, loading |-> FALSE]
         /\ DOMAIN t.latestRead = DOMAIN s.latestRead \ {r.view}
         /\ \A v \in DOMAIN t.latestRead : t.latestRead[v] = s.latestRead[v]
<1> DEFINE l == Without(s.latestRead, r.view)
           d == With(s.details, r.view, [of |-> r.table, loading |-> FALSE])
           t == Land(s, r)
<1>1. DOMAIN l = DOMAIN s.latestRead \ {r.view} /\ \A v \in DOMAIN l : l[v] = s.latestRead[v]
  BY DEF Without, Restrict
<1>2. DOMAIN d = DOMAIN s.details \cup {r.view} /\ d[r.view] = [of |-> r.table, loading |-> FALSE]
  BY DEF With
<1>3. t = [s EXCEPT !.latestRead = l, !.details = d]
  BY DEF Land, StoreShape
<1> HIDE DEF l, d
<1>4. /\ StoreShape(t) /\ t.counter = s.counter /\ t.latestRead = l /\ t.details = d
      /\ t.references = s.references /\ t.generation = s.generation
  BY <1>3 DEF StoreShape
<1> HIDE DEF t
<1> QED
  BY <1>1, <1>2, <1>4 DEF ViewsOf, t

LEMMA ReleaseStore ==
  ASSUME NEW s, StoreShape(s), NEW view
  PROVE  LET t == Release(s, view)
         IN  StoreShape(t) /\ t.counter = s.counter /\ ViewsOf(t) = ViewsOf(s) \ {view}
<1> DEFINE t == Release(s, view)
<1>1. /\ StoreShape(t) /\ t.counter = s.counter
      /\ t.latestRead = Without(s.latestRead, view) /\ t.details = Without(s.details, view)
      /\ t.references = Without(s.references, view) /\ t.generation = Without(s.generation, view)
  BY DEF Release, StoreShape
<1>2. \A f : DOMAIN Without(f, view) = DOMAIN f \ {view}
  BY DEF Without, Restrict
<1> HIDE DEF t
<1>3. /\ DOMAIN t.latestRead = DOMAIN s.latestRead \ {view} /\ DOMAIN t.details = DOMAIN s.details \ {view}
      /\ DOMAIN t.references = DOMAIN s.references \ {view} /\ DOMAIN t.generation = DOMAIN s.generation \ {view}
  BY <1>1, <1>2
<1>4. ViewsOf(t) = ViewsOf(s) \ {view}
  BY <1>3 DEF ViewsOf
<1> QED
  BY <1>1, <1>4 DEF t

(* A generation, or a reference, is added for a view. *)
LEMMA GenerationStore ==
  ASSUME NEW s, StoreShape(s), NEW view
  PROVE  LET t == WithGeneration(s, view) IN
         /\ StoreShape(t) /\ t.counter \in {s.counter, s.counter + 1}
         /\ ViewsOf(t) = ViewsOf(s) \cup {view}
         /\ t.details = s.details /\ t.latestRead = s.latestRead
<1> DEFINE t == WithGeneration(s, view)
<1>1. CASE view \in DOMAIN s.generation
  BY <1>1 DEF WithGeneration, ViewsOf
<1>2. CASE view \notin DOMAIN s.generation
  <2> DEFINE g == With(s.generation, view, s.counter + 1)
  <2>1. DOMAIN g = DOMAIN s.generation \cup {view} /\ s.counter + 1 \in Nat
    BY DEF With, StoreShape
  <2>2. t = [s EXCEPT !.counter = s.counter + 1, !.generation = g]
    BY <1>2 DEF WithGeneration, StoreShape
  <2> HIDE DEF g
  <2>3. /\ StoreShape(t) /\ t.counter = s.counter + 1 /\ t.generation = g
        /\ t.references = s.references /\ t.details = s.details /\ t.latestRead = s.latestRead
    BY <2>1, <2>2 DEF StoreShape
  <2> HIDE DEF t
  <2> QED
    BY <2>1, <2>3 DEF ViewsOf, t
<1> QED
  BY <1>1, <1>2

LEMMA PutReferencesStore ==
  ASSUME NEW s, StoreShape(s), NEW r
  PROVE  LET t == PutReferences(s, r) IN
         /\ StoreShape(t) /\ t.counter = s.counter /\ ViewsOf(t) = ViewsOf(s)
         /\ t.details = s.details /\ t.latestRead = s.latestRead
<1> DEFINE t == PutReferences(s, r)
           f == With(s.references, r.view, {r.what} \cup (IF r.view \in DOMAIN s.references
                                                         THEN s.references[r.view] ELSE {}))
<1>1. CASE r.view \in DOMAIN s.generation /\ s.generation[r.view] = r.generation
  <2>1. DOMAIN f = DOMAIN s.references \cup {r.view}
    BY DEF With
  <2>2. t = [s EXCEPT !.references = f]
    BY <1>1 DEF PutReferences, StoreShape
  <2> HIDE DEF f
  <2>3. /\ StoreShape(t) /\ t.counter = s.counter /\ t.references = f /\ t.generation = s.generation
        /\ t.details = s.details /\ t.latestRead = s.latestRead
    BY <2>2 DEF StoreShape
  <2> HIDE DEF t
  <2> QED
    BY <1>1, <2>1, <2>3 DEF ViewsOf, t
<1>2. CASE ~(r.view \in DOMAIN s.generation /\ s.generation[r.view] = r.generation)
  BY <1>2 DEF PutReferences
<1> QED
  BY <1>1, <1>2
-----------------------------------------------------------------------------
(* The views of the store, and those a mounted component accounts for. *)
LEMMA ViewsInv == NothingOfClosedViews <=> ViewsOf(store) \subseteq (IF shown = Null THEN {} ELSE {shown.view})
BY DEF NothingOfClosedViews, ViewsOf

(* The read that is begun. *)
LEMMA NewReadShape ==
  ASSUME NEW s, StoreShape(s), NEW kind, NEW view, NEW table
  PROVE  LET r == NewRead(s, kind, view, table)
         IN  ReadShape(r) /\ r.view = view /\ r.token = s.counter /\ r.table = table
BY DEF NewRead, ReadShape, StoreShape

(* A step that leaves the store and the shown component alone. *)
LEMMA KeepStep ==
  ASSUME IInv, shown' = shown, store' = store, spent' \in Counters,
         \A q \in reads' : ReadShape(q) /\ \E r \in reads : q.view = r.view /\ q.token = r.token /\ q.table = r.table
  PROVE  IInv'
<1>1. Shapes' /\ TokenInv' /\ NothingOfClosedViews'
  BY DEF IInv, Shapes, StoreShape, ReadShape, TokenInv, NothingOfClosedViews
<1>2. PanelInv'
  BY DEF IInv, PanelInv, IsLatest
<1> QED
  BY <1>1, <1>2 DEF IInv

(* The shown component is one. *)
LEMMA ComponentShown == ASSUME NEW v \in Component PROVE v # Null
BY DesignerAssumption DEF Component

(* The store changes, and not what it shows or waits for: an answer for the
   references, a generation. *)
LEMMA ReferenceStep ==
  ASSUME IInv, NEW s, StoreShape(s), s.counter >= store.counter,
         s.details = store.details, s.latestRead = store.latestRead,
         ViewsOf(s) \subseteq (IF shown = Null THEN {} ELSE {shown.view}),
         store' = s, shown' = shown, reads' = reads, spent' \in Counters
  PROVE  IInv'
<1>1. Shapes'
  BY DEF IInv, Shapes, StoreShape, ReadShape
<1>2. TokenInv'
  <2> SUFFICES ASSUME NEW r \in reads PROVE r.token <= s.counter
    BY DEF TokenInv
  <2> QED
    BY DEF IInv, Shapes, StoreShape, ReadShape, TokenInv
<1>3. NothingOfClosedViews'
  BY DEF NothingOfClosedViews, ViewsOf
<1>4. PanelInv'
  BY DEF IInv, PanelInv, IsLatest
<1> QED
  BY <1>1, <1>2, <1>3, <1>4 DEF IInv

(* A table is read for the component on screen, from a store that has nothing
   of any other view. *)
LEMMA EffectsStep ==
  ASSUME IInv, NEW s, StoreShape(s), s.counter >= store.counter,
         NEW view, NEW kind, NEW table, table # Null,
         ViewsOf(s) \subseteq {view}, Effects(s, kind, view, table), spent' \in Counters,
         shown' \in Component, shown'.view = view, shown'.table = table
  PROVE  IInv'
<1> DEFINE t == StartRead(s, view)
           q == NewRead(t, kind, view, table)
<1>1. store' = t /\ reads' = reads \cup {q}
  BY DEF Effects
<1>2. /\ StoreShape(t) /\ t.counter = s.counter + 1 /\ ViewsOf(t) = ViewsOf(s) \cup {view}
      /\ view \in DOMAIN t.details /\ t.details[view].loading = TRUE
      /\ DOMAIN t.latestRead = DOMAIN s.latestRead \cup {view} /\ t.latestRead[view] = s.counter + 1
  BY StartReadStore
<1> HIDE DEF t
<1>3. ReadShape(q) /\ q.view = view /\ q.token = t.counter /\ q.table = table
  BY <1>2, NewReadShape
<1> HIDE DEF q
<1>4. s.counter \in Nat /\ store.counter \in Nat /\ t.counter \in Nat
  BY <1>2 DEF StoreShape, IInv, Shapes
<1>5. \A r \in reads : r.token \in Nat /\ r.token < t.counter
  <2>1. \A r \in reads : r.token \in Nat /\ r.token <= store.counter
    BY DEF IInv, Shapes, ReadShape, TokenInv
  <2> QED
    BY <2>1, <1>2, <1>4
<1>0. shown' # Null
  BY ComponentShown
<1>6. Shapes'
  BY <1>1, <1>2, <1>3 DEF IInv, Shapes, StoreShape, ReadShape
<1>7. TokenInv'
  BY <1>1, <1>3, <1>4, <1>5 DEF TokenInv
<1>8. NothingOfClosedViews'
  BY <1>0, <1>1, <1>2 DEF NothingOfClosedViews, ViewsOf
<1>9. PanelInv'
  <2>1. \A r \in reads' : IsLatest(t, r) => r.table = table
    <3> SUFFICES ASSUME NEW r \in reads, IsLatest(t, r) PROVE FALSE
      BY <1>1, <1>3
    <3>1. r.view \in DOMAIN t.latestRead /\ t.latestRead[r.view] = r.token
      BY DEF IsLatest
    <3>2. r.view = view
      BY <3>1, <1>2 DEF ViewsOf
    <3> QED
      BY <3>1, <3>2, <1>2, <1>4, <1>5
  <2> QED
    BY <2>1, <1>0, <1>1, <1>2 DEF PanelInv
<1> QED
  BY <1>6, <1>7, <1>8, <1>9 DEF IInv

(* A designer of a table that is not there yet reads nothing. *)
LEMMA NewTableStep ==
  ASSUME IInv, NEW s, StoreShape(s), s.counter >= store.counter, ViewsOf(s) \subseteq {shown'.view},
         store' = s, reads' = reads, spent' \in Counters,
         shown' \in Component, shown'.kind # "structure"
  PROVE  IInv'
<1>1. Shapes'
  BY DEF IInv, Shapes, StoreShape, ReadShape
<1>2. TokenInv'
  <2> SUFFICES ASSUME NEW r \in reads PROVE r.token <= s.counter
    BY DEF TokenInv
  <2> QED
    BY DEF IInv, Shapes, StoreShape, ReadShape, TokenInv
<1>3. shown' # Null
  BY ComponentShown
<1>4. NothingOfClosedViews' /\ PanelInv'
  BY <1>3 DEF NothingOfClosedViews, ViewsOf, PanelInv
<1> QED
  BY <1>1, <1>2, <1>4 DEF IInv

(* What every step starts from. *)
LEMMA Known ==
  ASSUME IInv
  PROVE  /\ StoreShape(store) /\ store.counter \in Nat /\ store.counter >= store.counter
         /\ ViewsOf(store) \subseteq (IF shown = Null THEN {} ELSE {shown.view})
         /\ shown # Null => shown \in Component /\ ViewsOf(store) \subseteq {shown.view}
         /\ spent \in Counters
BY ViewsInv DEF IInv, Shapes, StoreShape

LEMMA SwitchStep == ASSUME IInv, NEW table \in Openable \cup {Null}, Switch(table) PROVE IInv'
<1>1. /\ shown # Null /\ shown' = [shown EXCEPT !.table = table]
      /\ Effects(store, shown.kind, shown.view, table) /\ (shown.kind = "structure" => table # Null)
      /\ spent' = [spent EXCEPT !.loads = @ + Loads(table)]
  BY DEF Switch
<1>2. shown' \in Component /\ shown'.view = shown.view /\ shown'.table = table /\ shown'.kind = shown.kind
  BY <1>1, Known DEF Component, Openable
<1>3. spent' \in Counters
  BY <1>1, Known DEF Counters, Loads
<1>4. /\ StoreShape(store) /\ ViewsOf(store) \subseteq {shown.view} /\ store.counter >= store.counter
      /\ Effects(store, shown.kind, shown.view, table)
  BY <1>1, Known
<1>5. CASE table # Null
  BY <1>2, <1>3, <1>4, <1>5, EffectsStep
<1>6. CASE table = Null
  <2>1. store' = store /\ reads' = reads /\ shown'.kind # "structure"
    BY <1>1, <1>2, <1>6 DEF Effects
  <2> QED
    BY <2>1, <1>2, <1>3, <1>4, NewTableStep
<1> QED
  BY <1>5, <1>6

LEMMA OpenStep ==
  ASSUME IInv, NEW kind \in {"designer", "structure"}, NEW table \in Openable \cup {Null}, Open(kind, table)
  PROVE  IInv'
<1> DEFINE left == IF shown = Null THEN store ELSE Release(store, shown.view)
           view == Views[spent.mounts + 1]
           s    == IF kind = "designer" THEN WithGeneration(left, view) ELSE left
<1>1. /\ shown' = [kind |-> kind, view |-> view, table |-> table]
      /\ Effects(s, kind, view, table) /\ (kind = "structure" => table # Null)
      /\ spent' = [spent EXCEPT !.mounts = @ + 1, !.loads = @ + Loads(table)]
      /\ spent.mounts < Len(Views)
  BY DEF Open
<1>2. spent.mounts \in Nat /\ spent' \in Counters
  <2>1. spent \in Counters /\ Loads(table) \in Nat
    BY Known DEF Loads
  <2>2. spent' = [spent EXCEPT !.mounts = spent.mounts + 1, !.loads = spent.loads + Loads(table)]
    BY <1>1
  <2>3. spent.mounts + 1 \in Nat /\ spent.loads + Loads(table) \in Nat /\ spent.mounts \in Nat
    BY <2>1 DEF Counters
  <2> QED
    BY <2>1, <2>2, <2>3 DEF Counters
<1>3. view \in Range(Views)
  <2>1. Views \in Seq(Range(Views)) /\ spent.mounts + 1 \in 1..Len(Views)
    BY <1>1, <1>2, DesignerAssumption
  <2> QED
    BY <2>1 DEF Range
<1>4. shown' \in Component /\ shown'.view = view /\ shown'.table = table /\ shown'.kind = kind
  BY <1>1, <1>3 DEF Component, Openable
<1> HIDE DEF view
<1>5. StoreShape(left) /\ left.counter = store.counter /\ ViewsOf(left) = {}
  <2>1. CASE shown = Null
    BY <2>1, Known
  <2>2. CASE shown # Null
    BY <2>2, Known, ReleaseStore
  <2> QED
    BY <2>1, <2>2
<1> HIDE DEF left
<1>6. StoreShape(s) /\ ViewsOf(s) \subseteq {view} /\ s.counter >= store.counter
  <2>1. CASE kind = "designer"
    <3>1. /\ StoreShape(s) /\ s.counter \in {left.counter, left.counter + 1}
          /\ ViewsOf(s) = ViewsOf(left) \cup {view}
      BY <2>1, <1>5, GenerationStore
    <3> HIDE DEF s
    <3> QED
      BY <3>1, <1>5, Known
  <2>2. CASE kind # "designer"
    BY <2>2, <1>5, Known
  <2> QED
    BY <2>1, <2>2
<1> HIDE DEF s
<1>7. CASE table # Null
  BY <1>1, <1>2, <1>4, <1>6, <1>7, EffectsStep
<1>8. CASE table = Null
  <2>1. store' = s /\ reads' = reads /\ shown'.kind # "structure"
    BY <1>1, <1>4, <1>8 DEF Effects
  <2> QED
    BY <2>1, <1>2, <1>4, <1>6, NewTableStep
<1> QED
  BY <1>7, <1>8

LEMMA LeaveStep == ASSUME IInv, Leave PROVE IInv'
<1>1. /\ shown # Null /\ shown' = Null /\ store' = Release(store, shown.view)
      /\ reads' = reads /\ spent' = spent
  BY DEF Leave
<1>2. StoreShape(store') /\ store'.counter = store.counter /\ ViewsOf(store') = {}
  BY <1>1, Known, ReleaseStore
<1>3. Shapes' /\ TokenInv'
  BY <1>1, <1>2 DEF IInv, Shapes, TokenInv, StoreShape, ReadShape
<1>4. NothingOfClosedViews' /\ PanelInv'
  BY <1>1, <1>2 DEF NothingOfClosedViews, ViewsOf, PanelInv
<1> QED
  BY <1>3, <1>4 DEF IInv

LEMMA RetryStep == ASSUME IInv, Retry PROVE IInv'
<1>1. /\ shown # Null /\ shown' = shown /\ shown.table # Null
      /\ Effects(store, "designer", shown.view, shown.table)
      /\ spent' = [spent EXCEPT !.loads = @ + 1]
  BY DEF Retry, IsDesigner
<1>2. spent' \in Counters
  BY <1>1, Known DEF Counters
<1>3. /\ StoreShape(store) /\ ViewsOf(store) \subseteq {shown.view} /\ store.counter >= store.counter
      /\ shown' \in Component /\ shown'.view = shown.view /\ shown'.table = shown.table
  BY <1>1, Known
<1> QED
  BY <1>1, <1>2, <1>3, EffectsStep

LEMMA AnswerPartStep == ASSUME IInv, NEW r \in reads, NEW p \in Parts, NEW a, AnswerPart(r, p, a) PROVE IInv'
<1> DEFINE q == [r EXCEPT ![p] = a]
<1>1. ReadShape(q) /\ q.view = r.view /\ q.token = r.token /\ q.table = r.table
  BY DEF IInv, Shapes, ReadShape, Parts
<1>2. shown' = shown /\ spent' = spent /\ spent \in Counters
  BY Known DEF AnswerPart
<1>3. \A v \in reads : ReadShape(v)
  BY DEF IInv, Shapes
<1>4. CASE \E x \in Parts : q[x] = Null
  <2>1. store' = store /\ reads' = (reads \ {r}) \cup {q}
    BY <1>4 DEF AnswerPart
  <2> HIDE DEF q
  <2> QED
    BY <2>1, <1>1, <1>2, <1>3, KeepStep
<1>5. CASE ~\E x \in Parts : q[x] = Null
  <2>1. store' = Land(store, q) /\ reads' = reads \ {r}
    BY <1>5 DEF AnswerPart
  <2> HIDE DEF q
  <2>2. CASE ~IsLatest(store, q)
    <3>1. store' = store
      BY <2>1, <2>2 DEF Land
    <3> QED
      BY <2>1, <3>1, <1>2, <1>3, KeepStep
  <2>3. CASE IsLatest(store, q)
    <3> DEFINE t == Land(store, q)
    <3>1. /\ StoreShape(t) /\ t.counter = store.counter /\ ViewsOf(t) \subseteq ViewsOf(store) \cup {q.view}
          /\ t.details[q.view] = [of |-> q.table, loading |-> FALSE]
          /\ DOMAIN t.latestRead = DOMAIN store.latestRead \ {q.view}
          /\ \A v \in DOMAIN t.latestRead : t.latestRead[v] = store.latestRead[v]
      BY <2>3, Known, LandStore
    <3> HIDE DEF t
    <3>2. q.view \in ViewsOf(store) /\ shown # Null /\ q.view = shown.view /\ ViewsOf(t) \subseteq {shown.view}
      BY <2>3, <3>1, Known DEF IsLatest, ViewsOf
    <3>3. store' = t
      BY <2>1 DEF t
    <3>4. Shapes' /\ TokenInv'
      BY <2>1, <3>1, <3>3, <1>2, Known DEF IInv, Shapes, TokenInv, StoreShape, ReadShape
    <3>5. NothingOfClosedViews'
      BY <3>2, <3>3, <1>2 DEF NothingOfClosedViews, ViewsOf
    <3>6. PanelInv'
      <4> SUFFICES ASSUME shown.kind = "structure"
                   PROVE  /\ shown.table # Null /\ t.details[shown.view].of = shown.table
                          /\ \A v \in reads : IsLatest(t, v) => v.table = shown.table
        BY <2>1, <3>2, <3>3, <1>2 DEF PanelInv
      <4>1. /\ shown.table # Null /\ IsLatest(store, r) /\ r.table = shown.table
            /\ \A v \in reads : IsLatest(store, v) => v.table = shown.table
        BY <2>3, <3>2, <1>1 DEF IInv, PanelInv, IsLatest
      <4>2. \A v \in reads : IsLatest(t, v) => IsLatest(store, v)
        BY <3>1 DEF IsLatest
      <4> QED
        BY <4>1, <4>2, <3>1, <3>2, <1>1
    <3> QED
      BY <3>4, <3>5, <3>6 DEF IInv
  <2> QED
    BY <2>2, <2>3
<1> QED
  BY <1>4, <1>5

LEMMA LoadReferenceColumnsStep == ASSUME IInv, NEW table, LoadReferenceColumns(table) PROVE IInv'
<1> DEFINE s == WithGeneration(store, shown.view)
<1>1. /\ shown # Null /\ store' = s /\ shown' = shown /\ reads' = reads
      /\ spent' = [spent EXCEPT !.loads = @ + 1]
  BY DEF LoadReferenceColumns, FormShown, IsDesigner
<1>2. spent' \in Counters
  BY <1>1, Known DEF Counters
<1>3. /\ StoreShape(s) /\ s.counter \in {store.counter, store.counter + 1}
      /\ ViewsOf(s) = ViewsOf(store) \cup {shown.view}
      /\ s.details = store.details /\ s.latestRead = store.latestRead
  BY Known, GenerationStore
<1> HIDE DEF s
<1>4. s.counter >= store.counter /\ ViewsOf(s) \subseteq {shown.view}
  BY <1>1, <1>3, Known
<1> QED
  BY <1>1, <1>2, <1>3, <1>4, ReferenceStep

LEMMA AnswerReferenceStep == ASSUME IInv, NEW r, NEW ok, AnswerReference(r, ok) PROVE IInv'
<1> DEFINE s == IF ok THEN PutReferences(store, r) ELSE store
<1>1. store' = s /\ shown' = shown /\ reads' = reads /\ spent' = spent
  BY DEF AnswerReference
<1>2. /\ StoreShape(s) /\ s.counter = store.counter /\ ViewsOf(s) = ViewsOf(store)
      /\ s.details = store.details /\ s.latestRead = store.latestRead
  BY Known, PutReferencesStore
<1> HIDE DEF s
<1> QED
  BY <1>1, <1>2, Known, ReferenceStep

(* The form's edits, the previews, and what becomes of a save. *)
LEMMA EditStep == ASSUME IInv, NEW f, Edit(f) PROVE IInv'
<1>1. shown' = shown /\ store' = store /\ reads' = reads /\ spent' = [spent EXCEPT !.edits = @ + 1]
  BY DEF Edit
<1>2. spent' \in Counters
  BY <1>1, Known DEF Counters
<1> QED
  BY <1>1, <1>2, KeepStep DEF IInv, Shapes

LEMMA EditFormStep == ASSUME IInv, EditForm PROVE IInv'
<1>1. \E f : Edit(f)
  BY DEF EditForm, RenameColumn, ToggleNullable, updateColumn, addColumn, removeColumn, DragColumn,
         togglePrimaryKey, removeIndex, SetTableName
<1> QED
  BY <1>1, EditStep

(* A statement marks the reads it overtakes. *)
LEMMA EffectStep ==
  ASSUME IInv, NEW s, NEW own, Effect(s, own), shown' = shown, store' = store, spent' = spent
  PROVE  IInv'
<1>1. \A r \in reads : ReadShape(r)
  BY DEF IInv, Shapes
<1>2. \A q \in reads' : ReadShape(q) /\ \E r \in reads : q.view = r.view /\ q.token = r.token /\ q.table = r.table
  <2>1. CASE Executed(server, s) = Null
    BY <1>1, <2>1 DEF Effect
  <2>2. CASE Executed(server, s) # Null
    <3> SUFFICES ASSUME NEW q \in reads'
                 PROVE  ReadShape(q) /\ \E r \in reads : q.view = r.view /\ q.token = r.token /\ q.table = r.table
      OBVIOUS
    <3>1. PICK r \in reads : q = [r EXCEPT !.moved = @ \/ r.table \in TablesOf(s)]
      BY <2>2 DEF Effect
    <3> QED
      BY <1>1, <3>1 DEF ReadShape
  <2> QED
    BY <2>1, <2>2
<1> QED
  BY <1>2, Known, KeepStep

LEMMA ApplyingStep == ASSUME IInv, Applying PROVE IInv'
<1>1. CASE \E v \in saves : RunStatement(v)
  BY <1>1, EffectStep DEF RunStatement
<1>2. CASE Confirm
  BY <1>2, EffectStep DEF Confirm
<1>3. CASE Execute
  <2>1. shown' = shown /\ store' = store /\ reads' = reads /\ spent' = [spent EXCEPT !.saves = @ + 1]
    BY <1>3 DEF Execute
  <2>2. spent' \in Counters
    BY <2>1, Known DEF Counters
  <2> QED
    BY <2>1, <2>2, KeepStep DEF IInv, Shapes
<1>4. CASE OpenPreview \/ ClosePreview \/ Decline \/ \E v \in saves : Saved(v) \/ Lost(v) \/ AwaitConfirmation(v)
  <2>1. shown' = shown /\ store' = store /\ reads' = reads /\ spent' = spent
    BY <1>4 DEF OpenPreview, ClosePreview, Decline, Saved, Lost, AwaitConfirmation
  <2> QED
    BY <2>1, KeepStep DEF IInv, Shapes
<1> QED
  BY <1>1, <1>2, <1>3, <1>4 DEF Applying
-----------------------------------------------------------------------------
LEMMA Initial == Init => IInv
<1> SUFFICES ASSUME Init PROVE IInv
  OBVIOUS
<1>1. /\ store = [counter |-> 0, latestRead |-> <<>>, generation |-> <<>>, details |-> <<>>, references |-> <<>>]
      /\ reads = {} /\ shown = Null /\ spent = [mounts |-> 0, loads |-> 0, edits |-> 0, saves |-> 0]
  BY DEF Init
<1>2. Shapes /\ TokenInv /\ PanelInv
  BY <1>1 DEF Shapes, TokenInv, PanelInv, StoreShape, Counters
<1>3. NothingOfClosedViews
  BY <1>1 DEF NothingOfClosedViews
<1> QED
  BY <1>2, <1>3 DEF IInv

LEMMA NextStep == IInv /\ [Next]_vars => IInv'
<1> SUFFICES ASSUME IInv, [Next]_vars PROVE IInv'
  OBVIOUS
<1>1. CASE Navigate
  BY <1>1, SwitchStep, OpenStep, LeaveStep, RetryStep DEF Navigate
<1>2. CASE EditForm
  BY <1>2, EditFormStep
<1>3. CASE Reading
  BY <1>3, AnswerPartStep, LoadReferenceColumnsStep, AnswerReferenceStep DEF Reading
<1>4. CASE Applying
  BY <1>4, ApplyingStep
<1>5. CASE UNCHANGED vars
  BY <1>5, Known, KeepStep DEF vars, IInv, Shapes
<1> QED
  BY <1>1, <1>2, <1>3, <1>4, <1>5 DEF Next

(* A view that is gone leaves nothing in the details store, and no answer that
   comes after it brings anything back (tableDetailsStore, release). *)
THEOREM NothingIsLeft == Spec => []NothingOfClosedViews
<1>1. IInv => NothingOfClosedViews
  BY DEF IInv
<1> QED
  BY Initial, NextStep, <1>1, PTL DEF Spec

(* The structure panel shows the table its tab names once it stops loading,
   however many reads it was switched through (tableDetailsStore, latestRead). *)
THEOREM PanelIsTrue == Spec => []PanelShowsItsTable
<1>1. IInv => PanelShowsItsTable
  BY DEF IInv, PanelInv, PanelShowsItsTable, Loading
<1> QED
  BY Initial, NextStep, <1>1, PTL DEF Spec

(***************************************************************************)
(* Sequences by their numbering: what a filter leaves is numbered by the   *)
(* places it keeps, in their order.                                        *)
(***************************************************************************)
(* Induction up to n, for a set of numbers. *)
LEMMA UpTo ==
  ASSUME NEW n \in Nat, NEW P, 0 \in P, \A i \in 1..n : i - 1 \in P => i \in P
  PROVE  0..n \subseteq P
<1> DEFINE T == (0..n) \ P
<1>1. ASSUME T # {} PROVE FALSE
  <2>1. PICK m \in T : \A k \in T : ~(<<k, m>> \in OpToRel(<, Nat))
    <3>1. T \subseteq Nat
      OBVIOUS
    <3> HIDE DEF T
    <3> QED
      BY <1>1, <3>1, NatLessThanWellFounded, WFMin
  <2>2. m \in 1..n /\ m - 1 \in 0..n /\ m - 1 \notin P
    OBVIOUS
  <2>3. m - 1 \in T
    BY <2>2
  <2>4. <<m - 1, m>> \in OpToRel(<, Nat)
    BY <2>2 DEF OpToRel
  <2> QED
    BY <2>1, <2>3, <2>4
<1> QED
  BY <1>1

(* f is defined from its value before, which step keeps in S. *)
Follows(f, n, S, base, step) ==
  f \in [0..n -> S] /\ f[0] = base /\ \A i \in 1..n : f[i] = step[i][f[i - 1]]
Within(n, S, step) == \A i \in 1..n, x \in S : step[i][x] \in S

LEMMA RecursionIs ==
  ASSUME NEW n \in Nat, NEW S, NEW base \in S, NEW step, Within(n, S, step)
  PROVE  \E f : Follows(f, n, S, base, step)
<1> USE DEF Follows, Within
<1> DEFINE Is(f, m) == f \in [0..m -> S] /\ f[0] = base /\ \A i \in 1..m : f[i] = step[i][f[i - 1]]
           P == {m \in 0..n : \E f : Is(f, m)}
<1>1. 0 \in P
  <2>1. Is([i \in 0..0 |-> base], 0)
    OBVIOUS
  <2> HIDE DEF Is
  <2> QED
    BY <2>1
<1>2. ASSUME NEW m \in 1..n, m - 1 \in P PROVE m \in P
  <2>1. PICK f : Is(f, m - 1)
    BY <1>2
  <2> DEFINE g == [i \in 0..m |-> IF i = m THEN step[m][f[m - 1]] ELSE f[i]]
  <2>2. f \in [0..(m - 1) -> S] /\ f[m - 1] \in S /\ step[m][f[m - 1]] \in S /\ m \in Nat /\ m \in 0..n
    BY <2>1
  <2>3. g \in [0..m -> S]
    <3> SUFFICES ASSUME NEW i \in 0..m PROVE g[i] \in S
      OBVIOUS
    <3>1. CASE i = m
      BY <2>2, <3>1
    <3>2. CASE i # m
      <4>1. i \in 0..(m - 1)
        BY <3>2
      <4> QED
        BY <2>2, <3>2, <4>1
    <3> QED
      BY <3>1, <3>2
  <2>4. \A i \in 0..(m - 1) : g[i] = f[i]
    OBVIOUS
  <2>5. g[0] = base
    <3>1. g[0] = f[0]
      BY <2>2, <2>4
    <3> QED
      BY <2>1, <3>1
  <2>6. ASSUME NEW i \in 1..m PROVE g[i] = step[i][g[i - 1]]
    <3>1. i - 1 \in 0..(m - 1) /\ g[i - 1] = f[i - 1]
      BY <2>4
    <3>2. CASE i = m
      BY <3>1, <3>2
    <3>3. CASE i # m
      <4>1. i \in 1..(m - 1) /\ g[i] = f[i]
        BY <2>4, <3>3
      <4> QED
        BY <2>1, <3>1, <4>1
    <3> QED
      BY <3>2, <3>3
  <2> HIDE DEF g
  <2>7. Is(g, m)
    BY <2>3, <2>5, <2>6
  <2> HIDE DEF Is
  <2> QED
    BY <2>2, <2>7
<1> HIDE DEF P
<1>3. 0..n \subseteq P
  BY <1>1, <1>2, UpTo
<1>4. n \in P
  BY <1>3
<1> QED
  BY <1>4 DEF P

(* f is what is kept of every beginning of seq. *)
Keeps(f, seq, S, T) ==
  /\ f \in [0..Len(seq) -> Seq(T)] /\ f[0] = <<>>
  /\ \A i \in 1..Len(seq) : f[i] = IF seq[i] \in S THEN Append(f[i - 1], seq[i]) ELSE f[i - 1]

LEMMA KeptEquation ==
  ASSUME NEW T, NEW seq \in Seq(T), NEW S
  PROVE  \E f : Keeps(f, seq, S, T) /\ Kept(seq, S) = f[Len(seq)]
<1> DEFINE n == Len(seq)
           step == [i \in 1..n |-> [r \in Seq(T) |-> IF seq[i] \in S THEN Append(r, seq[i]) ELSE r]]
<1>2. n \in Nat /\ <<>> \in Seq(T) /\ \A i \in 1..n : seq[i] \in T
  OBVIOUS
<1>3. Within(n, Seq(T), step)
  BY <1>2 DEF Within
<1>4. \A i \in 1..n, r \in Seq(T) : step[i][r] = IF seq[i] \in S THEN Append(r, seq[i]) ELSE r
  OBVIOUS
<1> HIDE DEF step
<1>5. PICK g : Follows(g, n, Seq(T), <<>>, step)
  BY <1>2, <1>3, RecursionIs
<1> DEFINE E(f) == [i \in 0..n |-> IF i = 0 THEN <<>>
                                   ELSE IF seq[i] \in S THEN Append(f[i - 1], seq[i]) ELSE f[i - 1]]
           kept == CHOOSE f : f = E(f)
<1>1. Kept(seq, S) = kept[n]
  BY DEF Kept
<1> HIDE DEF kept
<1>6. ASSUME NEW i \in 1..n PROVE g[i] = IF seq[i] \in S THEN Append(g[i - 1], seq[i]) ELSE g[i - 1]
  <2>1. i - 1 \in 0..n
    BY <1>2
  <2>2. g[i - 1] \in Seq(T)
    BY <1>5, <2>1 DEF Follows
  <2> QED
    BY <1>4, <1>5, <2>2 DEF Follows
<1>7. g = E(g)
  <2>1. \A i \in 0..n : i # 0 => i \in 1..n
    BY <1>2
  <2> QED
    BY <1>5, <1>6, <2>1 DEF Follows
<1>8. kept = E(kept)
  BY <1>7, Zenon DEF kept
<1>9. kept[0] = <<>>
  BY <1>2, <1>8
<1>10. \A i \in 1..n : kept[i] = IF seq[i] \in S THEN Append(kept[i - 1], seq[i]) ELSE kept[i - 1]
  <2>1. \A i \in 1..n : i \in 0..n /\ i # 0
    BY <1>2
  <2> QED
    BY <1>8, <2>1
<1> DEFINE P == {m \in 0..n : kept[m] = g[m]}
<1>11. 0..n \subseteq P
  <2>1. 0 \in P
    BY <1>2, <1>5, <1>9 DEF Follows
  <2>2. ASSUME NEW i \in 1..n, i - 1 \in P PROVE i \in P
    <3>1. kept[i - 1] = g[i - 1] /\ i \in 0..n
      BY <2>2, <1>2
    <3> QED
      BY <1>6, <1>10, <3>1
  <2> HIDE DEF P
  <2> QED
    BY <1>2, <2>1, <2>2, UpTo
<1>12. kept[n] = g[n]
  BY <1>2, <1>11
<1>13. Keeps(g, seq, S, T)
  BY <1>5, <1>6 DEF Follows, Keeps
<1> QED
  BY <1>1, <1>12, <1>13

(* h numbers the members of I in their order. *)
Numbers(h, m, I) ==
  /\ h \in [1..m -> I]
  /\ \A i, j \in 1..m : i < j => h[i] < h[j]
  /\ \A k \in I : \E i \in 1..m : h[i] = k

Positive(I) == \A k \in I : k \in Nat /\ k >= 1

(* One more, after all the others. *)
LEMMA NumbersNext ==
  ASSUME NEW m \in Nat, NEW I, I \subseteq Nat, NEW h, Numbers(h, m, I), NEW x \in Nat, \A k \in I : k < x
  PROVE  Numbers([i \in 1..(m + 1) |-> IF i = m + 1 THEN x ELSE h[i]], m + 1, I \cup {x})
<1> DEFINE g == [i \in 1..(m + 1) |-> IF i = m + 1 THEN x ELSE h[i]]
<1>1. \A i \in 1..m : g[i] = h[i] /\ h[i] \in I
  BY DEF Numbers
<1>2. g[m + 1] = x /\ \A i \in 1..(m + 1) : i # m + 1 => i \in 1..m
  OBVIOUS
<1>3. g \in [1..(m + 1) -> I \cup {x}]
  BY <1>1, <1>2
<1>4. ASSUME NEW i \in 1..(m + 1), NEW j \in 1..(m + 1), i < j PROVE g[i] < g[j]
  <2>1. i \in 1..m
    BY <1>4
  <2>2. CASE j = m + 1
    BY <1>1, <1>2, <2>1, <2>2
  <2>3. CASE j # m + 1
    BY <1>1, <1>2, <1>4, <2>1, <2>3 DEF Numbers
  <2> QED
    BY <2>2, <2>3
<1>5. ASSUME NEW k \in I \cup {x} PROVE \E i \in 1..(m + 1) : g[i] = k
  <2>1. CASE k \in I
    <3>1. PICK i \in 1..m : h[i] = k
      BY <2>1 DEF Numbers
    <3>2. i \in 1..(m + 1) /\ g[i] = k
      BY <1>1, <3>1
    <3> QED
      BY <3>2
  <2>2. CASE k = x
    <3>1. m + 1 \in 1..(m + 1)
      OBVIOUS
    <3> QED
      BY <1>2, <2>2, <3>1
  <2> QED
    BY <2>1, <2>2
<1> HIDE DEF g
<1> QED
  BY <1>3, <1>4, <1>5 DEF Numbers, g

(* Numbered from 1 on, what is there of 1..x comes first. *)
LEMMA NumbersFill ==
  ASSUME NEW m \in Nat, NEW I, Positive(I), NEW h, Numbers(h, m, I),
         NEW x \in Nat, \A j \in 1..x : j \in I
  PROVE  x <= m /\ \A j \in 1..x : h[j] = j
<1> USE DEF Positive
<1> DEFINE P == {j \in 0..x : j <= m /\ \A i \in 1..j : h[i] = i}
<1>0. \A i \in 1..m : h[i] \in Nat /\ h[i] >= 1
  BY DEF Numbers
<1>1. 0 \in P
  OBVIOUS
<1>2. ASSUME NEW j \in 1..x, j - 1 \in P PROVE j \in P
  <2>1. j - 1 <= m /\ \A i \in 1..(j - 1) : h[i] = i
    BY <1>2
  <2>2. PICK k \in 1..m : h[k] = j
    BY DEF Numbers
  <2>3. k >= j
    <3> SUFFICES ASSUME k < j PROVE FALSE
      OBVIOUS
    <3>1. k \in 1..(j - 1)
      OBVIOUS
    <3> QED
      BY <2>1, <2>2, <3>1
  <2>4. j \in 1..m
    BY <2>3
  <2>5. h[j] <= j
    <3>1. k = j \/ h[j] < h[k]
      BY <2>3, <2>4 DEF Numbers
    <3> QED
      BY <1>0, <2>2, <2>4, <3>1
  <2>6. h[j] >= j
    <3>1. CASE j = 1
      BY <1>0, <2>4, <3>1
    <3>2. CASE j # 1
      <4>1. j - 1 \in 1..m /\ j - 1 \in 1..(j - 1)
        BY <2>4, <3>2
      <4>2. h[j - 1] < h[j] /\ h[j - 1] = j - 1
        BY <2>1, <2>4, <4>1 DEF Numbers
      <4> QED
        BY <1>0, <2>4, <4>2
    <3> QED
      BY <3>1, <3>2
  <2>7. h[j] = j
    BY <1>0, <2>4, <2>5, <2>6
  <2>8. \A i \in 1..j : i = j \/ i \in 1..(j - 1)
    OBVIOUS
  <2> QED
    BY <2>1, <2>4, <2>7, <2>8
<1> HIDE DEF P
<1>3. x \in P
  <2>1. 0..x \subseteq P
    BY <1>1, <1>2, UpTo
  <2> QED
    BY <2>1
<1> QED
  BY <1>3 DEF P

(* All of them are numbered by themselves. *)
LEMMA NumbersAll ==
  ASSUME NEW m \in Nat, NEW x \in Nat, NEW h, Numbers(h, m, 1..x)
  PROVE  m = x /\ \A j \in 1..x : h[j] = j
<1>1. x <= m /\ \A j \in 1..x : h[j] = j
  <2> DEFINE I == 1..x
  <2>1. Positive(I) /\ Numbers(h, m, I) /\ \A j \in 1..x : j \in I
    BY DEF Positive
  <2> HIDE DEF I
  <2> QED
    BY <2>1, NumbersFill
<1>2. ASSUME x < m PROVE FALSE
  <2>1. x + 1 \in 1..m /\ h[x + 1] \in 1..x
    BY <1>2 DEF Numbers
  <2>2. x \in 1..m /\ h[x] = x
    BY <1>1, <2>1
  <2>3. h[x] < h[x + 1]
    BY <2>1, <2>2 DEF Numbers
  <2> QED
    BY <2>1, <2>2, <2>3
<1> QED
  BY <1>1, <1>2

(* One more, between those before it, which are all there, and the others. *)
LEMMA NumbersInsert ==
  ASSUME NEW m \in Nat, NEW I, Positive(I), NEW h, Numbers(h, m, I),
         NEW x \in Nat, x >= 1, x \notin I, \A j \in 1..(x - 1) : j \in I
  PROVE  /\ x - 1 <= m /\ \A j \in 1..(x - 1) : h[j] = j
         /\ Numbers([j \in 1..(m + 1) |-> IF j < x THEN h[j] ELSE IF j = x THEN x ELSE h[j - 1]], m + 1, I \cup {x})
<1> DEFINE g == [j \in 1..(m + 1) |-> IF j < x THEN h[j] ELSE IF j = x THEN x ELSE h[j - 1]]
<1>1. x - 1 <= m /\ \A j \in 1..(x - 1) : h[j] = j
  <2> DEFINE y == x - 1
  <2>1. y \in Nat /\ \A j \in 1..y : j \in I
    OBVIOUS
  <2> HIDE DEF y
  <2>2. y <= m /\ \A j \in 1..y : h[j] = j
    BY <2>1, NumbersFill
  <2> QED
    BY <2>2 DEF y
<1>2. \A i \in 1..m : h[i] \in I /\ h[i] \in Nat /\ h[i] >= 1
  BY DEF Numbers, Positive
<1>3. \A i, j \in 1..m : i < j => h[i] < h[j]
  BY DEF Numbers
<1>4. ASSUME NEW j \in 1..m, j >= x PROVE h[j] > x
  <2>1. h[j] >= x
    <3>1. CASE x = 1
      BY <1>2, <3>1
    <3>2. CASE x # 1
      <4>1. x - 1 \in 1..m /\ x - 1 \in 1..(x - 1) /\ x - 1 < j
        BY <1>1, <1>4, <3>2
      <4>2. h[x - 1] = x - 1 /\ h[x - 1] < h[j]
        BY <1>1, <1>3, <4>1
      <4> QED
        BY <1>2, <4>2
    <3> QED
      BY <3>1, <3>2
  <2>2. h[j] # x
    BY <1>2
  <2> QED
    BY <1>2, <2>1, <2>2
<1>5. ASSUME NEW j \in 1..(m + 1)
      PROVE  /\ j < x => j \in 1..m /\ j \in 1..(x - 1) /\ g[j] = j /\ h[j] = j
             /\ j = x => g[j] = x
             /\ j > x => j - 1 \in 1..m /\ j - 1 >= x /\ g[j] = h[j - 1] /\ g[j] > x
  <2>1. j < x => j \in 1..m /\ j \in 1..(x - 1)
    BY <1>1
  <2>2. j > x => j - 1 \in 1..m /\ j - 1 >= x
    OBVIOUS
  <2>3. j > x => g[j] = h[j - 1] /\ h[j - 1] > x
    BY <1>4, <2>2
  <2>4. j < x => g[j] = h[j] /\ h[j] = j
    BY <1>1, <2>1
  <2> QED
    BY <2>1, <2>2, <2>3, <2>4
<1>6. g \in [1..(m + 1) -> I \cup {x}]
  <2> SUFFICES ASSUME NEW j \in 1..(m + 1) PROVE g[j] \in I \cup {x}
    OBVIOUS
  <2> HIDE DEF g
  <2>1. CASE j < x
    BY <1>2, <1>5, <2>1
  <2>2. CASE j = x
    BY <1>5, <2>2
  <2>3. CASE j > x
    BY <1>2, <1>5, <2>3
  <2> QED
    BY <2>1, <2>2, <2>3
<1> HIDE DEF g
<1>7. ASSUME NEW i \in 1..(m + 1), NEW j \in 1..(m + 1), i < j PROVE g[i] < g[j]
  <2>1. CASE j <= x
    BY <1>5, <1>7, <2>1
  <2>2. CASE j > x /\ i <= x
    <3>1. g[j] > x /\ g[j] \in Nat
      BY <1>2, <1>5, <2>2
    <3>2. g[i] <= x /\ g[i] \in Nat
      BY <1>5, <2>2
    <3> QED
      BY <3>1, <3>2
  <2>3. CASE i > x
    <3>1. i - 1 \in 1..m /\ j - 1 \in 1..m /\ g[i] = h[i - 1] /\ g[j] = h[j - 1] /\ i - 1 < j - 1
      BY <1>5, <1>7, <2>3
    <3> QED
      BY <1>3, <3>1
  <2> QED
    BY <2>1, <2>2, <2>3
<1>8. ASSUME NEW k \in I \cup {x} PROVE \E i \in 1..(m + 1) : g[i] = k
  <2>1. CASE k = x
    <3>1. x \in 1..(m + 1)
      BY <1>1
    <3> QED
      BY <1>5, <2>1, <3>1
  <2>2. CASE k # x
    <3>1. PICK i \in 1..m : h[i] = k
      BY <2>2 DEF Numbers
    <3>2. CASE i < x
      <4>1. i \in 1..(m + 1) /\ i \in 1..(x - 1)
        BY <3>2
      <4>2. g[i] = i /\ h[i] = i
        BY <1>5, <3>2, <4>1
      <4> QED
        BY <3>1, <4>1, <4>2
    <3>3. CASE i >= x
      <4>1. i + 1 \in 1..(m + 1) /\ i + 1 > x /\ (i + 1) - 1 = i
        BY <3>3
      <4>2. g[i + 1] = h[i]
        BY <1>5, <4>1
      <4> QED
        BY <3>1, <4>1, <4>2
    <3> QED
      BY <3>2, <3>3
  <2> QED
    BY <2>1, <2>2
<1>9. Numbers(g, m + 1, I \cup {x})
  BY <1>6, <1>7, <1>8 DEF Numbers
<1> QED
  BY <1>1, <1>9 DEF g

(* What is kept of a sequence is what its numbers name. *)
Picked(seq, S, n) == {i \in 1..n : seq[i] \in S}
LEMMA KeptIs ==
  ASSUME NEW T, NEW seq \in Seq(T), NEW S
  PROVE  /\ Kept(seq, S) \in Seq(T)
         /\ \E h : /\ Numbers(h, Len(Kept(seq, S)), Picked(seq, S, Len(seq)))
                  /\ \A j \in 1..Len(Kept(seq, S)) : Kept(seq, S)[j] = seq[h[j]]
<1>0. PICK f : Keeps(f, seq, S, T) /\ Kept(seq, S) = f[Len(seq)]
  BY KeptEquation
<1>1. /\ f \in [0..Len(seq) -> Seq(T)] /\ Kept(seq, S) = f[Len(seq)] /\ f[0] = <<>>
      /\ \A i \in 1..Len(seq) : f[i] = IF seq[i] \in S THEN Append(f[i - 1], seq[i]) ELSE f[i - 1]
  BY <1>0 DEF Keeps
<1> DEFINE n == Len(seq)
           Is(h, m) == /\ Numbers(h, Len(f[m]), Picked(seq, S, m))
                       /\ \A j \in 1..Len(f[m]) : f[m][j] = seq[h[j]]
           P == {m \in 0..n : \E h : Is(h, m)}
<1>2. n \in Nat
  OBVIOUS
<1>3. 0 \in P
  <2>1. Is([i \in 1..0 |-> i], 0)
    BY <1>1 DEF Numbers, Picked
  <2> HIDE DEF Is
  <2> QED
    BY <2>1
<1>4. ASSUME NEW m \in 1..n, m - 1 \in P PROVE m \in P
  <2>1. PICK h : Is(h, m - 1)
    BY <1>4
  <2> DEFINE l == Len(f[m - 1])  I == Picked(seq, S, m - 1)
  <2>2. f[m - 1] \in Seq(T) /\ f[m] \in Seq(T) /\ l \in Nat /\ seq[m] \in T /\ m \in 0..n /\ m \in Nat
    BY <1>1
  <2>3. CASE seq[m] \in S
    <3> DEFINE g == [i \in 1..(l + 1) |-> IF i = l + 1 THEN m ELSE h[i]]
    <3>1. f[m] = Append(f[m - 1], seq[m]) /\ Len(f[m]) = l + 1
      <4>1. f[m] = Append(f[m - 1], seq[m])
        BY <1>1, <2>3
      <4> QED
        BY <2>2, <4>1
    <3>2. Picked(seq, S, m) = I \cup {m} /\ I \subseteq Nat /\ \A k \in I : k < m
      BY <2>3 DEF Picked
    <3>3. Numbers(h, l, I)
      BY <2>1
    <3>4. Numbers(g, l + 1, I \cup {m})
      <4> HIDE DEF I, l
      <4> QED
        BY <2>2, <3>2, <3>3, NumbersNext
    <3>5. \A j \in 1..(l + 1) : f[m][j] = seq[g[j]]
      <4> SUFFICES ASSUME NEW j \in 1..(l + 1) PROVE f[m][j] = seq[g[j]]
        OBVIOUS
      <4>1. CASE j = l + 1
        BY <2>2, <3>1, <4>1
      <4>2. CASE j # l + 1
        <5>1. j \in 1..l /\ f[m][j] = f[m - 1][j] /\ g[j] = h[j]
          BY <2>2, <3>1, <4>2
        <5> QED
          BY <2>1, <5>1
      <4> QED
        BY <4>1, <4>2
    <3> HIDE DEF g
    <3>6. Is(g, m)
      BY <3>1, <3>2, <3>4, <3>5
    <3> HIDE DEF Is
    <3> QED
      BY <2>2, <3>6
  <2>4. CASE seq[m] \notin S
    <3>1. f[m] = f[m - 1]
      BY <1>1, <2>4
    <3>2. Picked(seq, S, m) = I
      BY <2>4 DEF Picked
    <3>3. Is(h, m)
      BY <2>1, <3>1, <3>2
    <3> HIDE DEF Is
    <3> QED
      BY <2>2, <3>3
  <2> QED
    BY <2>3, <2>4
<1> HIDE DEF P
<1>5. n \in P
  <2>1. 0..n \subseteq P
    BY <1>2, <1>3, <1>4, UpTo
  <2> QED
    BY <1>2, <2>1
<1>6. \E h : Is(h, n)
  BY <1>5 DEF P
<1>7. f[n] \in Seq(T)
  BY <1>1, <1>2
<1> QED
  BY <1>1, <1>6, <1>7

(* Where everything is kept nothing changes. *)
LEMMA KeptAll ==
  ASSUME NEW T, NEW seq \in Seq(T), NEW S, \A i \in 1..Len(seq) : seq[i] \in S
  PROVE  Kept(seq, S) = seq
<1>1. PICK h : /\ Numbers(h, Len(Kept(seq, S)), Picked(seq, S, Len(seq)))
               /\ \A j \in 1..Len(Kept(seq, S)) : Kept(seq, S)[j] = seq[h[j]]
  BY KeptIs
<1>2. Kept(seq, S) \in Seq(T)
  BY KeptIs
<1> DEFINE k == Kept(seq, S)
<1>3. Picked(seq, S, Len(seq)) = 1..Len(seq)
  BY DEF Picked
<1>4. Len(k) \in Nat /\ Len(seq) \in Nat
  BY <1>2
<1>5. Len(k) = Len(seq) /\ \A j \in 1..Len(seq) : h[j] = j
  BY <1>1, <1>3, <1>4, NumbersAll
<1> HIDE DEF k
<1>6. \A j \in 1..Len(seq) : k[j] = seq[j]
  BY <1>1, <1>5 DEF k
<1> QED
  BY <1>2, <1>5, <1>6 DEF k

(* Where one is put in, the rest keep their order. *)
(* r is s with v put in as the one numbered x. *)
Inserted(r, s, x, v) ==
  /\ Len(r) = Len(s) + 1
  /\ \A j \in 1..(Len(s) + 1) : r[j] = IF j < x THEN s[j] ELSE IF j = x THEN v ELSE s[j - 1]

LEMMA InsertIs ==
  ASSUME NEW T, NEW s \in Seq(T), NEW x \in 1..(Len(s) + 1), NEW v \in T
  PROVE  InsertAt(s, x, v) \in Seq(T) /\ Inserted(InsertAt(s, x, v), s, x, v)
<1> DEFINE a == SubSeq(s, 1, x - 1)  b == <<v>>  c == SubSeq(s, x, Len(s))  ab == a \o b  r == ab \o c
<1>1. Len(s) \in Nat /\ x \in Int
  OBVIOUS
<1>2. a \in Seq(T) /\ Len(a) = x - 1 /\ \A i \in 1..(x - 1) : a[i] = s[i]
  BY <1>1
<1>3. b \in Seq(T) /\ Len(b) = 1 /\ b[1] = v
  OBVIOUS
<1>4. c \in Seq(T) /\ Len(c) = Len(s) - x + 1 /\ \A i \in 1..(Len(s) - x + 1) : c[i] = s[x + i - 1]
  BY <1>1
<1> HIDE DEF a, b, c
<1>5. ab \in Seq(T) /\ Len(ab) = x /\ \A i \in 1..x : ab[i] = IF i < x THEN a[i] ELSE b[1]
  <2>1. /\ ab \in Seq(T) /\ Len(ab) = Len(a) + Len(b)
        /\ \A i \in 1..(Len(a) + Len(b)) : ab[i] = IF i <= Len(a) THEN a[i] ELSE b[i - Len(a)]
    BY <1>2, <1>3, ConcatProperties
  <2>2. Len(ab) = x /\ \A i \in 1..x : ab[i] = IF i <= Len(a) THEN a[i] ELSE b[i - Len(a)]
    BY <1>1, <1>2, <1>3, <2>1
  <2>3. ASSUME NEW i \in 1..x PROVE ab[i] = IF i < x THEN a[i] ELSE b[1]
    <3>1. i < x \/ i = x
      BY <1>1
    <3>2. i < x => i <= Len(a)
      BY <1>1, <1>2
    <3>3. i = x => ~(i <= Len(a)) /\ i - Len(a) = 1
      BY <1>1, <1>2
    <3> QED
      BY <1>1, <2>2, <3>1, <3>2, <3>3
  <2> QED
    BY <2>1, <2>2, <2>3
<1> HIDE DEF ab
<1>6. r \in Seq(T) /\ Len(r) = Len(s) + 1
  <2>1. r \in Seq(T) /\ Len(r) = Len(ab) + Len(c)
    BY <1>4, <1>5, ConcatProperties
  <2> QED
    BY <1>1, <1>4, <1>5, <2>1
<1>7. \A j \in 1..(Len(s) + 1) : r[j] = IF j <= x THEN ab[j] ELSE c[j - x]
  <2>1. \A i \in 1..(Len(ab) + Len(c)) : r[i] = IF i <= Len(ab) THEN ab[i] ELSE c[i - Len(ab)]
    BY <1>4, <1>5, ConcatProperties
  <2>2. Len(ab) + Len(c) = Len(s) + 1
    BY <1>1, <1>4, <1>5
  <2> QED
    BY <1>5, <2>1, <2>2
<1> HIDE DEF r
<1>8. ASSUME NEW j \in 1..(Len(s) + 1) PROVE r[j] = IF j < x THEN s[j] ELSE IF j = x THEN v ELSE s[j - 1]
  <2>1. CASE j < x
    <3>1. j \in 1..x /\ j \in 1..(x - 1)
      BY <1>1, <2>1
    <3> QED
      BY <1>1, <1>2, <1>5, <1>7, <2>1, <3>1
  <2>2. CASE j = x
    BY <1>1, <1>3, <1>5, <1>7, <2>2
  <2>3. CASE j > x
    <3>1. j - x \in 1..(Len(s) - x + 1) /\ x + (j - x) - 1 = j - 1
      BY <1>1, <2>3
    <3>2. c[j - x] = s[j - 1]
      BY <1>4, <3>1
    <3>3. r[j] = c[j - x] /\ ~(j < x) /\ j # x
      BY <1>1, <1>7, <2>3
    <3> QED
      BY <3>2, <3>3
  <2>4. j < x \/ j = x \/ j > x
    BY <1>1
  <2> QED
    BY <2>1, <2>2, <2>3, <2>4
<1> QED
  <2>1. Inserted(r, s, x, v)
    BY <1>6, <1>8 DEF Inserted
  <2>2. r = InsertAt(s, x, v)
    BY DEF InsertAt, r, ab, a, b, c
  <2> QED
    BY <1>6, <2>1, <2>2

(***************************************************************************)
(* The difference of two forms, run on the content of the first, makes the *)
(* content of the second: the columns that stay, where each added one      *)
(* goes, and the key.                                                      *)
(***************************************************************************)
Stored == [name : AnyName, nullable : BOOLEAN]
UniqueIds(cols) == \A i, j \in DOMAIN cols : cols[i].id = cols[j].id => i = j
FormShape(c) == c \in FormType /\ UniqueIds(c.cols) /\ (c.key # Null => c.key.cols # <<>>)

(* f is the table with the first n columns added. *)
Adds(f, first, adds) ==
  /\ f \in [0..Len(adds) -> Seq(Stored)] /\ f[0] = first
  /\ \A i \in 1..Len(adds) : f[i] = Place(f[i - 1], adds[i])

LEMMA PlaceIs ==
  ASSUME NEW cols \in Seq(Stored), NEW add, Defined(add.col) \in Stored
  PROVE  /\ Place(cols, add) \in Seq(Stored)
         /\ add.after \notin NamesOf(cols) => Place(cols, add) = InsertAt(cols, 1, Defined(add.col))
         /\ add.after \in NamesOf(cols) => \E j \in 1..Len(cols) :
              cols[j].name = add.after /\ Place(cols, add) = InsertAt(cols, j + 1, Defined(add.col))
<1> DEFINE v == Defined(add.col)
           j == CHOOSE j \in DOMAIN cols : cols[j].name = add.after
<1> HIDE DEF v
<1>1. Len(cols) \in Nat /\ v \in Stored /\ DOMAIN cols = 1..Len(cols)
  BY DEF v
<1>2. CASE add.after \notin NamesOf(cols)
  <2>1. Place(cols, add) = InsertAt(cols, 1, v)
    BY <1>2 DEF Place, v
  <2>2. 1 \in 1..(Len(cols) + 1)
    BY <1>1
  <2>3. InsertAt(cols, 1, v) \in Seq(Stored)
    BY <1>1, <2>2, InsertIs
  <2> QED
    BY <1>2, <2>1, <2>3 DEF v
<1>3. CASE add.after \in NamesOf(cols)
  <2>1. \E k \in DOMAIN cols : cols[k].name = add.after
    BY <1>3 DEF NamesOf, ToSet
  <2>2. j \in 1..Len(cols) /\ cols[j].name = add.after
    BY <1>1, <2>1, Zenon
  <2>3. Place(cols, add) = InsertAt(cols, j + 1, v)
    BY <1>3 DEF Place, v
  <2> HIDE DEF j
  <2>4. j + 1 \in 1..(Len(cols) + 1)
    BY <1>1, <2>2
  <2>5. InsertAt(cols, j + 1, v) \in Seq(Stored)
    BY <1>1, <2>4, InsertIs
  <2> QED
    BY <1>3, <2>2, <2>3, <2>5 DEF v
<1> QED
  BY <1>2, <1>3

LEMMA AddsEquation ==
  ASSUME NEW t, NEW s, ChangedColumns(t, s) \in Seq(Stored), NEW C, s.adds \in Seq(C),
         \A i \in 1..Len(s.adds) : Defined(s.adds[i].col) \in Stored
  PROVE  \E f : Adds(f, ChangedColumns(t, s), s.adds) /\ AlteredColumns(t, s) = f[Len(s.adds)]
<1> DEFINE adds == s.adds
           n == Len(adds)
           first == ChangedColumns(t, s)
           step == [i \in 1..n |-> [r \in Seq(Stored) |-> Place(r, adds[i])]]
<1>2. n \in Nat /\ first \in Seq(Stored)
  OBVIOUS
<1>0. AlteredColumns(t, s) = LET placed[i \in 0..n] == IF i = 0 THEN first ELSE Place(placed[i - 1], adds[i]) IN placed[n]
  BY DEF AlteredColumns
<1>14. \A i \in 1..n : Defined(adds[i].col) \in Stored
  OBVIOUS
<1> HIDE DEF first, adds
<1>15. \A i \in 1..n, r \in Seq(Stored) : Place(r, adds[i]) \in Seq(Stored)
  BY <1>14, PlaceIs
<1>4. \A i \in 1..n, r \in Seq(Stored) : step[i][r] = Place(r, adds[i])
  OBVIOUS
<1>3. Within(n, Seq(Stored), step)
  BY <1>4, <1>15 DEF Within
<1> HIDE DEF step, n
<1>5. PICK g : Follows(g, n, Seq(Stored), first, step)
  BY <1>2, <1>3, RecursionIs
<1> DEFINE E(f) == [i \in 0..n |-> IF i = 0 THEN first ELSE Place(f[i - 1], adds[i])]
           placed == CHOOSE f : f = E(f)
<1>1. AlteredColumns(t, s) = placed[n]
  BY <1>0 DEF AlteredColumns
<1> HIDE DEF placed
<1>6. ASSUME NEW i \in 1..n PROVE g[i] = Place(g[i - 1], adds[i])
  <2>1. i - 1 \in 0..n
    BY <1>2
  <2>2. g[i - 1] \in Seq(Stored)
    BY <1>5, <2>1 DEF Follows
  <2> QED
    BY <1>4, <1>5, <2>2 DEF Follows
<1>7. g = E(g)
  <2>1. \A i \in 0..n : i # 0 => i \in 1..n
    BY <1>2
  <2> QED
    BY <1>5, <1>6, <2>1 DEF Follows
<1>8. placed = E(placed)
  BY <1>7, Zenon DEF placed
<1>9. placed[0] = first
  BY <1>2, <1>8
<1>10. \A i \in 1..n : placed[i] = Place(placed[i - 1], adds[i])
  <2>1. \A i \in 1..n : i \in 0..n /\ i # 0
    BY <1>2
  <2> QED
    BY <1>8, <2>1
<1> DEFINE P == {m \in 0..n : placed[m] = g[m]}
<1>11. 0..n \subseteq P
  <2>1. 0 \in P
    BY <1>2, <1>5, <1>9 DEF Follows
  <2>2. ASSUME NEW i \in 1..n, i - 1 \in P PROVE i \in P
    <3>1. placed[i - 1] = g[i - 1] /\ i \in 0..n
      BY <2>2, <1>2
    <3> QED
      BY <1>6, <1>10, <3>1
  <2> HIDE DEF P
  <2> QED
    BY <1>2, <2>1, <2>2, UpTo
<1>12. placed[n] = g[n]
  BY <1>2, <1>11
<1>13. Adds(g, first, adds)
  BY <1>5, <1>6 DEF Follows, Adds, n
<1> QED
  BY <1>1, <1>12, <1>13 DEF first, adds, n

(* A form and the baseline it is applied against. *)
Pair(o, m) == FormShape(o) /\ FormShape(m) /\ Unique(o.cols) /\ WellFormed(o, m)

(* The columns of the one that the other has, and has not. *)
Shared(a, b) == {k \in 1..Len(a.cols) : a.cols[k].id \in IdsOf(b.cols)}
Own(a, b)    == {k \in 1..Len(a.cols) : a.cols[k].id \notin IdsOf(b.cols)}

LEMMA FormCols ==
  ASSUME NEW c, FormShape(c)
  PROVE  /\ c.cols \in Seq(FormColumn) /\ Len(c.cols) \in Nat /\ DOMAIN c.cols = 1..Len(c.cols)
         /\ \A i \in 1..Len(c.cols) : c.cols[i] \in FormColumn /\ c.cols[i].name \in AnyName /\ c.cols[i].nullable \in BOOLEAN
         /\ \A i, j \in 1..Len(c.cols) : c.cols[i].id = c.cols[j].id => i = j
<1>1. c.cols \in Seq(FormColumn)
  BY DEF FormShape, FormType
<1>2. Len(c.cols) \in Nat /\ DOMAIN c.cols = 1..Len(c.cols) /\ \A i \in 1..Len(c.cols) : c.cols[i] \in FormColumn
  BY <1>1
<1>3. \A i \in 1..Len(c.cols) : c.cols[i].name \in AnyName /\ c.cols[i].nullable \in BOOLEAN
  BY <1>2 DEF FormColumn
<1>4. \A i, j \in 1..Len(c.cols) : c.cols[i].id = c.cols[j].id => i = j
  BY <1>2 DEF FormShape, UniqueIds
<1> QED
  BY <1>1, <1>2, <1>3, <1>4

LEMMA SetsOf ==
  ASSUME NEW S, NEW cols \in Seq(S)
  PROVE  /\ ToSet(cols) = {cols[i] : i \in 1..Len(cols)}
         /\ \A id : id \in IdsOf(cols) <=> \E i \in 1..Len(cols) : cols[i].id = id
         /\ \A n : n \in NamesOf(cols) <=> \E i \in 1..Len(cols) : cols[i].name = n
<1>1. ToSet(cols) = {cols[i] : i \in 1..Len(cols)}
  BY DEF ToSet
<1>2. \A id : id \in IdsOf(cols) <=> \E i \in 1..Len(cols) : cols[i].id = id
  BY <1>1 DEF IdsOf
<1>3. \A n : n \in NamesOf(cols) <=> \E i \in 1..Len(cols) : cols[i].name = n
  BY <1>1 DEF NamesOf
<1> QED
  BY <1>1, <1>2, <1>3

LEMMA FormSets ==
  ASSUME NEW c, FormShape(c)
  PROVE  /\ ToSet(c.cols) = {c.cols[i] : i \in 1..Len(c.cols)}
         /\ \A id : id \in IdsOf(c.cols) <=> \E i \in 1..Len(c.cols) : c.cols[i].id = id
         /\ \A n : n \in NamesOf(c.cols) <=> \E i \in 1..Len(c.cols) : c.cols[i].name = n
BY FormCols, SetsOf

LEMMA PairNames ==
  ASSUME NEW o, NEW m, Pair(o, m)
  PROVE  /\ \A i, j \in 1..Len(o.cols) : o.cols[i].name = o.cols[j].name => i = j
         /\ \A i, j \in 1..Len(m.cols) : m.cols[i].name = m.cols[j].name => i = j
         /\ \A i \in 1..Len(m.cols) : m.cols[i].name # NoName
         /\ Len(m.cols) >= 1
<1>1. DOMAIN o.cols = 1..Len(o.cols) /\ DOMAIN m.cols = 1..Len(m.cols) /\ Len(m.cols) \in Nat /\ m.cols \in Seq(FormColumn)
  BY FormCols DEF Pair
<1>2. Unique(o.cols) /\ Unique(m.cols) /\ NoName \notin NamesOf(m.cols) /\ m.cols # <<>>
  BY DEF Pair, WellFormed
<1>3. \A i \in 1..Len(m.cols) : m.cols[i].name # NoName
  BY <1>2, FormSets DEF Pair
<1>4. Len(m.cols) >= 1
  BY <1>1, <1>2
<1> QED
  BY <1>1, <1>2, <1>3, <1>4 DEF Unique

LEMMA AllNamed ==
  ASSUME NEW o, NEW m, Pair(o, m)
  PROVE  Named(m.cols) = m.cols
<1>1. m.cols \in Seq(FormColumn)
  BY FormCols DEF Pair
<1>3. ToSet(m.cols) = {m.cols[i] : i \in 1..Len(m.cols)}
  BY FormSets DEF Pair
<1>2. \A i \in 1..Len(m.cols) : m.cols[i] \in {c \in ToSet(m.cols) : c.name # NoName}
  BY <1>3, PairNames
<1> QED
  BY <1>1, <1>2, KeptAll DEF Named

(* A column of the baseline by its id. *)
LEMMA WithIdIs ==
  ASSUME NEW c, FormShape(c), NEW i \in 1..Len(c.cols)
  PROVE  WithId(c.cols, c.cols[i].id) = c.cols[i]
<1>1. c.cols[i] \in ToSet(c.cols) /\ \A d \in ToSet(c.cols) : d.id = c.cols[i].id => d = c.cols[i]
  <2>1. ToSet(c.cols) = {c.cols[j] : j \in 1..Len(c.cols)}
    BY FormSets
  <2>2. \A j \in 1..Len(c.cols) : c.cols[i].id = c.cols[j].id => i = j
    BY FormCols
  <2> QED
    BY <2>1, <2>2
<1> QED
  BY <1>1, Zenon DEF WithId

(* What is dropped: the baseline's columns the form has no more. *)
LEMMA DropsAre ==
  ASSUME NEW o, NEW m, Pair(o, m), NEW table, NEW i \in 1..Len(o.cols)
  PROVE  o.cols[i].name \in Clauses(table, o, m).drops <=> o.cols[i].id \notin IdsOf(m.cols)
<1>1. Clauses(table, o, m).drops = {c.name : c \in {d \in ToSet(o.cols) : d.id \notin IdsOf(m.cols)}}
  BY DEF Clauses
<1>2. ToSet(o.cols) = {o.cols[j] : j \in 1..Len(o.cols)}
  BY FormSets DEF Pair
<1>3. \A j \in 1..Len(o.cols) : o.cols[i].name = o.cols[j].name => i = j
  BY PairNames
<1> QED
  BY <1>1, <1>2, <1>3

(* What is changed: the columns both have, where they differ. *)
LEMMA ChangesAre ==
  ASSUME NEW o, NEW m, Pair(o, m), NEW table, NEW i \in 1..Len(o.cols), NEW k \in 1..Len(m.cols),
         o.cols[i].id = m.cols[k].id
  PROVE  LET changes == Clauses(table, o, m).changes IN
         /\ \A c \in changes : c.old = o.cols[i].name => c.new = m.cols[k]
         /\ (\E c \in changes : c.old = o.cols[i].name) \/ Defined(m.cols[k]) = Defined(o.cols[i])
<1> DEFINE changes == Clauses(table, o, m).changes
<1>1. Named(m.cols) = m.cols
  BY AllNamed
<1>2. changes = {[old |-> WithId(o.cols, c.id).name, new |-> c] :
                   c \in {d \in ToSet(m.cols) : d.id \in IdsOf(o.cols) /\ isColumnChanged(WithId(o.cols, d.id), d)}}
  BY <1>1 DEF Clauses
<1> HIDE DEF changes
<1>3. ToSet(m.cols) = {m.cols[j] : j \in 1..Len(m.cols)}
  BY FormSets DEF Pair
<1>4. ASSUME NEW c \in changes, c.old = o.cols[i].name PROVE c.new = m.cols[k]
  <2>1. PICK l \in 1..Len(m.cols) : /\ c = [old |-> WithId(o.cols, m.cols[l].id).name, new |-> m.cols[l]]
                                    /\ m.cols[l].id \in IdsOf(o.cols)
    BY <1>2, <1>3
  <2>2. PICK j \in 1..Len(o.cols) : o.cols[j].id = m.cols[l].id
    <3>1. \A id : id \in IdsOf(o.cols) <=> \E j \in 1..Len(o.cols) : o.cols[j].id = id
      BY FormSets DEF Pair
    <3> QED
      BY <2>1, <3>1
  <2>3. c.old = o.cols[j].name
    BY <2>1, <2>2, WithIdIs DEF Pair
  <2>4. i = j
    BY <1>4, <2>3, PairNames
  <2>5. l = k
    BY <2>2, <2>4, FormCols DEF Pair
  <2> QED
    BY <2>1, <2>5
<1>5. CASE isColumnChanged(o.cols[i], m.cols[k])
  <2>1. WithId(o.cols, m.cols[k].id) = o.cols[i] /\ m.cols[k].id \in IdsOf(o.cols)
    <3>1. WithId(o.cols, o.cols[i].id) = o.cols[i]
      BY WithIdIs DEF Pair
    <3>2. o.cols[i].id \in IdsOf(o.cols)
      BY FormSets DEF Pair
    <3> QED
      BY <3>1, <3>2
  <2>2. [old |-> o.cols[i].name, new |-> m.cols[k]] \in changes
    BY <1>2, <1>3, <1>5, <2>1
  <2> QED
    BY <1>4, <2>2 DEF changes
<1>6. CASE ~isColumnChanged(o.cols[i], m.cols[k])
  BY <1>4, <1>6 DEF isColumnChanged, Defined, changes
<1> QED
  BY <1>5, <1>6

(* Numbers that follow other ones in their order. *)
LEMMA NumbersThrough ==
  ASSUME NEW n \in Nat, NEW I, NEW h, Numbers(h, n, I), NEW J, NEW g,
         \A i \in I : g[i] \in J, \A i, j \in I : i < j => g[i] < g[j], \A k \in J : \E i \in I : g[i] = k
  PROVE  Numbers([j \in 1..n |-> g[h[j]]], n, J)
<1> DEFINE e == [j \in 1..n |-> g[h[j]]]
<1>1. \A j \in 1..n : h[j] \in I /\ e[j] = g[h[j]]
  BY DEF Numbers
<1>2. e \in [1..n -> J]
  BY <1>1
<1>3. \A i, j \in 1..n : i < j => e[i] < e[j]
  BY <1>1 DEF Numbers
<1>4. \A k \in J : \E j \in 1..n : e[j] = k
  BY <1>1 DEF Numbers
<1> HIDE DEF e
<1>5. Numbers(e, n, J)
  BY <1>2, <1>3, <1>4 DEF Numbers
<1> QED
  BY <1>5 DEF e

(* cols are, in their order, the columns of m that I numbers. *)
Shows(e, cols, m, I) ==
  /\ Numbers(e, Len(cols), I)
  /\ \A j \in 1..Len(cols) : cols[j] = Defined(m.cols[e[j]])

LEMMA ContentIs ==
  ASSUME NEW c, FormShape(c)
  PROVE  /\ Content(c).cols \in Seq(Stored) /\ Len(Content(c).cols) = Len(c.cols)
         /\ \A i \in 1..Len(c.cols) : Content(c).cols[i] = Defined(c.cols[i]) /\ Content(c).cols[i] \in Stored
                                      /\ Content(c).cols[i].name = c.cols[i].name
         /\ Content(c).pk = KeyColumns(c)
<1>1. /\ Len(c.cols) \in Nat /\ DOMAIN c.cols = 1..Len(c.cols)
      /\ \A i \in 1..Len(c.cols) : c.cols[i].name \in AnyName /\ c.cols[i].nullable \in BOOLEAN
  BY FormCols
<1>2. \A i \in 1..Len(c.cols) : Defined(c.cols[i]) \in Stored /\ Defined(c.cols[i]).name = c.cols[i].name
  BY <1>1 DEF Defined, Stored
<1>3. Content(c).cols = [i \in 1..Len(c.cols) |-> Defined(c.cols[i])] /\ Content(c).pk = KeyColumns(c)
  BY <1>1 DEF Content
<1> QED
  BY <1>1, <1>2, <1>3

(* The columns the server keeps, changed: those the form shares with the
   baseline, as the form has them and in its order. *)
LEMMA ChangedAre ==
  ASSUME NEW o, NEW m, Pair(o, m), NEW table
  PROVE  LET cols == ChangedColumns(Content(o), Clauses(table, o, m))
         IN  cols \in Seq(Stored) /\ \E e : Shows(e, cols, m, Shared(m, o))
<1> DEFINE s == Clauses(table, o, m)
           t == Content(o)
           S == {c \in ToSet(t.cols) : c.name \notin s.drops}
           kept == Kept(t.cols, S)
           n == Len(kept)
           M == Len(o.cols)
           N == Len(m.cols)
           cols == ChangedColumns(t, s)
<1>1. /\ t.cols \in Seq(Stored) /\ Len(t.cols) = M
      /\ \A i \in 1..M : t.cols[i] = Defined(o.cols[i]) /\ t.cols[i] \in Stored /\ t.cols[i].name = o.cols[i].name
  BY ContentIs DEF Pair
<1>2. \A i \in 1..M : o.cols[i].name \in s.drops <=> o.cols[i].id \notin IdsOf(m.cols)
  BY DropsAre
<1>3. \A i \in 1..M, k \in 1..N : o.cols[i].id = m.cols[k].id =>
        /\ \A c \in s.changes : c.old = o.cols[i].name => c.new = m.cols[k]
        /\ (\E c \in s.changes : c.old = o.cols[i].name) \/ Defined(m.cols[k]) = Defined(o.cols[i])
  BY ChangesAre
<1>4. cols = [i \in DOMAIN kept |-> IF \E c \in s.changes : c.old = kept[i].name
                                    THEN Defined((CHOOSE c \in s.changes : c.old = kept[i].name).new)
                                    ELSE kept[i]]
  BY DEF ChangedColumns
<1> HIDE DEF s, t, cols
<1>5. Picked(t.cols, S, M) = Shared(o, m)
  <2>1. \A i \in 1..M : t.cols[i] \in S <=> o.cols[i].id \in IdsOf(m.cols)
    <3>1. \A i \in 1..M : t.cols[i] \in ToSet(t.cols)
      BY <1>1, SetsOf
    <3> QED
      BY <1>1, <1>2, <3>1
  <2> HIDE DEF S
  <2> QED
    BY <2>1 DEF Picked, Shared
<1> HIDE DEF S
<1>6. kept \in Seq(Stored) /\ n \in Nat /\ DOMAIN kept = 1..n
  BY <1>1, KeptIs
<1>7. PICK h : Numbers(h, n, Shared(o, m)) /\ \A j \in 1..n : kept[j] = t.cols[h[j]]
  BY <1>1, <1>5, KeptIs
<1> HIDE DEF kept, n
<1> DEFINE g == [i \in Shared(o, m) |-> CHOOSE k \in 1..N : m.cols[k].id = o.cols[i].id]
<1>8. \A i \in Shared(o, m) : i \in 1..M /\ g[i] \in 1..N /\ m.cols[g[i]].id = o.cols[i].id
  <2> SUFFICES ASSUME NEW i \in Shared(o, m)
               PROVE  i \in 1..M /\ g[i] \in 1..N /\ m.cols[g[i]].id = o.cols[i].id
    OBVIOUS
  <2>1. i \in 1..M /\ o.cols[i].id \in IdsOf(m.cols)
    BY DEF Shared
  <2>2. \A id : id \in IdsOf(m.cols) <=> \E k \in 1..N : m.cols[k].id = id
    BY FormSets DEF Pair
  <2>3. \E k \in 1..N : m.cols[k].id = o.cols[i].id
    BY <2>1, <2>2
  <2>4. g[i] \in 1..N /\ m.cols[g[i]].id = o.cols[i].id
    BY <2>3, Zenon
  <2> QED
    BY <2>1, <2>4
<1> HIDE DEF g
<1>9. \A i \in Shared(o, m) : g[i] \in Shared(m, o)
  <2> SUFFICES ASSUME NEW i \in Shared(o, m) PROVE m.cols[g[i]].id \in IdsOf(o.cols)
    BY <1>8 DEF Shared
  <2>1. o.cols[i].id \in IdsOf(o.cols)
    BY <1>8, FormSets DEF Pair
  <2> QED
    BY <1>8, <2>1
<1>10. \A i, j \in Shared(o, m) : i < j => g[i] < g[j]
  <2>1. DOMAIN o.cols = 1..M /\ DOMAIN m.cols = 1..N
    BY FormCols DEF Pair
  <2>2. KeptOrder(o, m)
    <3>1. FormShape(o) => o # Null
      BY DesignerAssumption DEF FormShape
    <3> QED
      BY <3>1 DEF Pair, WellFormed
  <2> QED
    BY <1>8, <2>1, <2>2 DEF KeptOrder
<1>11. \A k \in Shared(m, o) : \E i \in Shared(o, m) : g[i] = k
  <2> SUFFICES ASSUME NEW k \in Shared(m, o) PROVE \E i \in Shared(o, m) : g[i] = k
    OBVIOUS
  <2>1. k \in 1..N /\ m.cols[k].id \in IdsOf(o.cols)
    BY DEF Shared
  <2>2. \A id : id \in IdsOf(o.cols) <=> \E i \in 1..M : o.cols[i].id = id
    BY FormSets DEF Pair
  <2>3. PICK i \in 1..M : o.cols[i].id = m.cols[k].id
    BY <2>1, <2>2
  <2>4. m.cols[k].id \in IdsOf(m.cols)
    BY <2>1, FormSets DEF Pair
  <2>5. i \in Shared(o, m)
    BY <2>3, <2>4 DEF Shared
  <2>6. g[i] = k
    <3>1. \A k1, k2 \in 1..N : m.cols[k1].id = m.cols[k2].id => k1 = k2
      BY FormCols DEF Pair
    <3> QED
      BY <1>8, <2>1, <2>3, <2>5, <3>1
  <2> QED
    BY <2>5, <2>6
<1> DEFINE e == [j \in 1..n |-> g[h[j]]]
<1>12. Numbers(e, n, Shared(m, o))
  BY <1>6, <1>7, <1>9, <1>10, <1>11, NumbersThrough
<1>13. ASSUME NEW j \in 1..n
       PROVE  /\ h[j] \in 1..M /\ e[j] = g[h[j]] /\ e[j] \in 1..N /\ o.cols[h[j]].id = m.cols[e[j]].id
              /\ kept[j] = Defined(o.cols[h[j]]) /\ kept[j].name = o.cols[h[j]].name
  <2>1. h[j] \in Shared(o, m) /\ e[j] = g[h[j]]
    BY <1>7 DEF Numbers
  <2>2. h[j] \in 1..M /\ kept[j] = t.cols[h[j]]
    BY <1>7, <1>8, <2>1
  <2> QED
    BY <1>1, <1>8, <2>1, <2>2
<1> HIDE DEF e
<1>14. ASSUME NEW j \in 1..n PROVE cols[j] = Defined(m.cols[e[j]])
  <2>1. cols[j] = IF \E c \in s.changes : c.old = kept[j].name
                  THEN Defined((CHOOSE c \in s.changes : c.old = kept[j].name).new) ELSE kept[j]
    BY <1>4, <1>6
  <2>2. CASE \E c \in s.changes : c.old = kept[j].name
    <3> DEFINE c == CHOOSE c \in s.changes : c.old = kept[j].name
    <3>1. c \in s.changes /\ c.old = o.cols[h[j]].name
      BY <2>2, <1>13
    <3>2. c.new = m.cols[e[j]]
      <4> HIDE DEF c
      <4> QED
        BY <1>3, <1>13, <3>1
    <3> QED
      BY <2>1, <2>2, <3>2
  <2>3. CASE ~\E c \in s.changes : c.old = kept[j].name
    <3>1. cols[j] = kept[j]
      BY <2>1, <2>3, Zenon
    <3>2. ~\E c \in s.changes : c.old = o.cols[h[j]].name
      BY <1>13, <2>3
    <3> QED
      BY <1>3, <1>13, <3>1, <3>2
  <2> QED
    BY <2>2, <2>3
<1>15. cols \in Seq(Stored) /\ Len(cols) = n
  <2>1. \A j \in 1..n : Defined(m.cols[e[j]]) \in Stored
    BY <1>13, ContentIs DEF Pair
  <2>2. DOMAIN cols = 1..n /\ cols = [j \in 1..n |-> cols[j]]
    BY <1>4, <1>6
  <2> QED
    BY <1>6, <1>14, <2>1, <2>2
<1>16. Shows(e, cols, m, Shared(m, o))
  BY <1>12, <1>14, <1>15 DEF Shows
<1> QED
  BY <1>15, <1>16 DEF cols, s, t

Addition == [col : FormColumn, after : AnyName \cup {Null}]

(* adds are the columns of m that I numbers, each after the one before it in m. *)
Follow(h, adds, m, I) ==
  /\ Numbers(h, Len(adds), I)
  /\ \A j \in 1..Len(adds) : /\ adds[j].col = m.cols[h[j]]
                             /\ adds[j].after = IF h[j] = 1 THEN Null ELSE m.cols[h[j] - 1].name

LEMMA AdditionsAre ==
  ASSUME NEW o, NEW m, FormShape(o), FormShape(m)
  PROVE  LET adds == Additions(o, m.cols)
         IN  adds \in Seq(Addition) /\ \E h : Follow(h, adds, m, Own(m, o))
<1> DEFINE N == Len(m.cols)
           placed == [i \in DOMAIN m.cols |->
                        [col |-> m.cols[i], after |-> IF i = 1 THEN Null ELSE m.cols[i - 1].name]]
           S == {p \in ToSet(placed) : p.col.id \notin IdsOf(o.cols)}
           adds == Additions(o, m.cols)
<1>1. /\ N \in Nat /\ DOMAIN m.cols = 1..N
      /\ \A i \in 1..N : m.cols[i] \in FormColumn /\ m.cols[i].name \in AnyName
  BY FormCols
<1>2. adds = Kept(placed, S)
  BY DEF Additions
<1> HIDE DEF adds
<1>3. ASSUME NEW i \in 1..N
      PROVE  placed[i].col = m.cols[i] /\ placed[i] \in Addition /\ placed[i].after = IF i = 1 THEN Null ELSE m.cols[i - 1].name
  <2>1. i = 1 \/ i - 1 \in 1..N
    BY <1>1
  <2> QED
    BY <1>1, <2>1 DEF Addition
<1>4. placed \in Seq(Addition) /\ Len(placed) = N
  <2>1. placed = [i \in 1..N |-> placed[i]]
    BY <1>1
  <2> HIDE DEF placed
  <2> QED
    BY <1>1, <1>3, <2>1
<1> HIDE DEF placed
<1>5. Picked(placed, S, N) = Own(m, o)
  <2>1. \A i \in 1..N : placed[i] \in S <=> m.cols[i].id \notin IdsOf(o.cols)
    BY <1>3, <1>4, SetsOf
  <2> HIDE DEF S
  <2> QED
    BY <2>1 DEF Picked, Own
<1> HIDE DEF S
<1>6. adds \in Seq(Addition) /\ Len(adds) \in Nat
  BY <1>2, <1>4, KeptIs
<1>7. PICK h : Numbers(h, Len(adds), Own(m, o)) /\ \A j \in 1..Len(adds) : adds[j] = placed[h[j]]
  BY <1>2, <1>4, <1>5, KeptIs
<1>8. \A j \in 1..Len(adds) : h[j] \in 1..N
  BY <1>7 DEF Numbers, Own
<1>9. Follow(h, adds, m, Own(m, o))
  BY <1>3, <1>7, <1>8 DEF Follow
<1> QED
  BY <1>6, <1>9 DEF adds

(* The next column of the form, put after the one before it, is in its place. *)
LEMMA PlacedNext ==
  ASSUME NEW m, FormShape(m), Unique(m.cols),
         NEW cols \in Seq(Stored), NEW I, I \subseteq 1..Len(m.cols), NEW e, Shows(e, cols, m, I),
         NEW x \in 1..Len(m.cols), x \notin I, \A j \in 1..(x - 1) : j \in I,
         NEW add, add.col = m.cols[x], add.after = IF x = 1 THEN Null ELSE m.cols[x - 1].name
  PROVE  Place(cols, add) \in Seq(Stored) /\ \E g : Shows(g, Place(cols, add), m, I \cup {x})
<1> DEFINE N == Len(m.cols)
           l == Len(cols)
           r == Place(cols, add)
           v == Defined(m.cols[x])
<1>1. /\ N \in Nat /\ DOMAIN m.cols = 1..N /\ l \in Nat
      /\ \A i \in 1..N : m.cols[i].name \in AnyName
  BY FormCols
<1>2. v \in Stored /\ Defined(add.col) = v /\ \A i \in 1..N : Defined(m.cols[i]).name = m.cols[i].name
  BY ContentIs DEF Defined
<1> HIDE DEF v
<1>3. Positive(I) /\ x \in Nat /\ x >= 1
  BY DEF Positive
<1>4. Numbers(e, l, I) /\ \A j \in 1..l : cols[j] = Defined(m.cols[e[j]]) /\ e[j] \in 1..N
  BY DEF Shows, Numbers
<1>5. \A j \in 1..l : cols[j].name = m.cols[e[j]].name
  BY <1>2, <1>4
<1> DEFINE g == [j \in 1..(l + 1) |-> IF j < x THEN e[j] ELSE IF j = x THEN x ELSE e[j - 1]]
<1>6. x - 1 <= l /\ (\A j \in 1..(x - 1) : e[j] = j) /\ Numbers(g, l + 1, I \cup {x})
  <2> HIDE DEF l
  <2> QED
    BY <1>1, <1>3, <1>4, NumbersInsert
<1>7. r \in Seq(Stored) /\ r = InsertAt(cols, x, v)
  <2>0. r \in Seq(Stored)
    BY <1>2, PlaceIs
  <2>1. CASE x = 1
    <3>1. add.after = Null /\ Null \notin AnyName
      BY <2>1, DesignerAssumption DEF AnyName
    <3>2. \A j \in 1..l : cols[j].name \in AnyName
      BY <1>1, <1>4, <1>5
    <3>3. add.after \notin NamesOf(cols)
      BY <3>1, <3>2, SetsOf
    <3> QED
      BY <1>2, <2>0, <2>1, <3>3, PlaceIs
  <2>2. CASE x # 1
    <3>1. x - 1 \in 1..l /\ x - 1 \in 1..(x - 1) /\ x - 1 \in 1..N
      BY <1>1, <1>3, <1>6, <2>2
    <3>2. e[x - 1] = x - 1 /\ add.after = m.cols[x - 1].name
      BY <1>6, <2>2, <3>1
    <3>3. cols[x - 1].name = add.after
      BY <1>5, <3>1, <3>2
    <3>4. add.after \in NamesOf(cols)
      BY <3>1, <3>3, SetsOf
    <3>5. PICK j \in 1..l : cols[j].name = add.after /\ r = InsertAt(cols, j + 1, v)
      BY <1>2, <3>4, PlaceIs
    <3>6. e[j] = x - 1
      <4>1. m.cols[e[j]].name = m.cols[x - 1].name /\ e[j] \in 1..N
        BY <1>4, <1>5, <3>2, <3>5
      <4> QED
        BY <1>1, <3>1, <4>1 DEF Unique
    <3>7. j = x - 1
      <4>1. ~(j < x - 1) /\ ~(x - 1 < j)
        <5>1. \A i, k \in 1..l : i < k => e[i] < e[k]
          BY <1>4 DEF Numbers
        <5>2. ~(x - 1 < x - 1)
          BY <1>3
        <5> QED
          BY <3>1, <3>2, <3>6, <5>1, <5>2
      <4> QED
        BY <1>1, <1>3, <4>1
    <3>8. j + 1 = x
      BY <1>3, <3>7
    <3> QED
      BY <2>0, <3>5, <3>8
  <2> QED
    BY <2>1, <2>2
<1>8. Len(r) = l + 1 /\ \A j \in 1..(l + 1) : r[j] = IF j < x THEN cols[j] ELSE IF j = x THEN v ELSE cols[j - 1]
  <2>1. x \in 1..(l + 1)
    BY <1>1, <1>3, <1>6
  <2> QED
    <3>1. Inserted(r, cols, x, v)
      BY <1>2, <1>7, <2>1, InsertIs, Zenon
    <3> HIDE DEF r
    <3> QED
      BY <3>1 DEF Inserted
<1> HIDE DEF r
<1>9. \A j \in 1..(l + 1) : r[j] = Defined(m.cols[g[j]])
  <2> SUFFICES ASSUME NEW j \in 1..(l + 1) PROVE r[j] = Defined(m.cols[g[j]])
    OBVIOUS
  <2>1. CASE j < x
    <3>1. j \in 1..l /\ g[j] = e[j] /\ r[j] = cols[j]
      BY <1>1, <1>3, <1>6, <1>8, <2>1
    <3> QED
      BY <1>4, <3>1
  <2>2. CASE j = x
    <3>1. g[j] = x /\ r[j] = v
      BY <1>3, <1>8, <2>2
    <3> QED
      BY <3>1 DEF v
  <2>3. CASE j > x
    <3>1. j - 1 \in 1..l /\ g[j] = e[j - 1] /\ r[j] = cols[j - 1]
      BY <1>1, <1>3, <1>8, <2>3
    <3> QED
      BY <1>4, <3>1
  <2>4. j < x \/ j = x \/ j > x
    BY <1>1, <1>3
  <2> QED
    BY <2>1, <2>2, <2>3, <2>4
<1> HIDE DEF g
<1>10. Shows(g, r, m, I \cup {x})
  BY <1>6, <1>8, <1>9 DEF Shows
<1> QED
  BY <1>7, <1>10 DEF r

(* Column after column, the columns of the table are those of the form. *)
LEMMA AlteredAre ==
  ASSUME NEW o, NEW m, Pair(o, m), NEW table
  PROVE  LET s == Clauses(table, o, m) IN
         AlteredColumns(Content(o), s) = Content(m).cols /\ CanPlace(Content(o), s)
<1> DEFINE s == Clauses(table, o, m)
           t == Content(o)
           N == Len(m.cols)
           first == ChangedColumns(t, s)
           adds == s.adds
           K == Shared(m, o)
           A == Own(m, o)
<1>1. N \in Nat /\ DOMAIN m.cols = 1..N
  BY FormCols DEF Pair
<1>2. PICK e0 : first \in Seq(Stored) /\ Shows(e0, first, m, K)
  BY ChangedAre
<1>3. adds = Additions(o, m.cols)
  BY AllNamed DEF Clauses
<1>4. PICK h : adds \in Seq(Addition) /\ Follow(h, adds, m, A)
  BY <1>3, AdditionsAre DEF Pair
<1> HIDE DEF adds
<1> DEFINE n == Len(adds)
<1>5. /\ n \in Nat /\ Numbers(h, n, A)
      /\ \A j \in 1..n : adds[j].col = m.cols[h[j]] /\ adds[j].after = IF h[j] = 1 THEN Null ELSE m.cols[h[j] - 1].name
  BY <1>4 DEF Follow
<1>6. \A k \in 1..N : k \in K <=> k \notin A
  BY DEF Shared, Own
<1>7. K \subseteq 1..N /\ A \subseteq 1..N
  BY DEF Shared, Own
<1>8. \A j \in 1..n : h[j] \in A /\ h[j] \in 1..N /\ h[j] \notin K
  BY <1>5, <1>6, <1>7 DEF Numbers
<1> HIDE DEF K, A
<1> DEFINE In(j) == K \cup {h[i] : i \in 1..j}
<1>9. ASSUME NEW j \in 1..n, NEW k \in 1..(h[j] - 1) PROVE k \in In(j - 1)
  <2>1. k \in 1..N /\ k < h[j]
    BY <1>1, <1>8
  <2>2. CASE k \in A
    <3>1. PICK i \in 1..n : h[i] = k
      BY <1>5, <2>2 DEF Numbers
    <3>2. i < j
      <4>1. ~(j < i)
        BY <1>5, <1>8, <2>1, <3>1 DEF Numbers
      <4>2. i # j
        BY <1>8, <2>1, <3>1
      <4> QED
        BY <1>5, <4>1, <4>2
    <3>3. i \in 1..(j - 1)
      BY <3>2
    <3> QED
      BY <3>1, <3>3
  <2>3. CASE k \notin A
    BY <1>6, <2>1, <2>3
  <2> QED
    BY <2>2, <2>3
<1>10. PICK f : Adds(f, first, adds) /\ AlteredColumns(t, s) = f[n]
  <2>1. \A i \in 1..n : Defined(adds[i].col) \in Stored
    <3>1. \A k \in 1..N : Defined(m.cols[k]) \in Stored
      BY ContentIs DEF Pair
    <3> QED
      BY <1>5, <1>8, <3>1
  <2> HIDE DEF t, s
  <2> QED
    BY <1>2, <1>4, <2>1, AddsEquation DEF adds
<1> HIDE DEF first
<1> DEFINE P == {j \in 0..n : \E e : Shows(e, f[j], m, In(j))}
<1>11. 0 \in P
  <2>1. f[0] = first /\ In(0) = K
    BY <1>10 DEF Adds
  <2> HIDE DEF In
  <2> QED
    BY <1>2, <1>5, <2>1
<1>12. ASSUME NEW j \in 1..n, j - 1 \in P PROVE j \in P
  <2>1. PICK e : Shows(e, f[j - 1], m, In(j - 1))
    BY <1>12
  <2> DEFINE x == h[j]
  <2>2. In(j) = In(j - 1) \cup {x}
    <3>1. \A i \in 1..j : i = j \/ i \in 1..(j - 1)
      OBVIOUS
    <3>2. \A i \in 1..(j - 1) : i \in 1..j
      OBVIOUS
    <3>3. j \in 1..j
      OBVIOUS
    <3> QED
      BY <3>1, <3>2, <3>3
  <2>3. x \in 1..N /\ x \notin In(j - 1)
    <3>1. \A i \in 1..(j - 1) : i \in 1..n /\ i < j
      OBVIOUS
    <3>2. \A i \in 1..(j - 1) : h[i] < h[j] /\ h[i] # h[j]
      BY <1>5, <1>8, <3>1 DEF Numbers
    <3> QED
      BY <1>8, <3>2
  <2>4. In(j - 1) \subseteq 1..N
    <3>1. \A i \in 1..(j - 1) : i \in 1..n
      OBVIOUS
    <3> QED
      BY <1>7, <1>8, <3>1
  <2>5. \A k \in 1..(x - 1) : k \in In(j - 1)
    BY <1>9
  <2>6. f[j - 1] \in Seq(Stored) /\ f[j] = Place(f[j - 1], adds[j])
    <3>1. j - 1 \in 0..n
      BY <1>5
    <3> QED
      BY <1>10, <3>1 DEF Adds
  <2>7. adds[j].col = m.cols[x] /\ adds[j].after = IF x = 1 THEN Null ELSE m.cols[x - 1].name
    BY <1>5
  <2>8. FormShape(m) /\ Unique(m.cols)
    BY DEF Pair, WellFormed
  <2> DEFINE I == In(j - 1)  cols == f[j - 1]  add == adds[j]
  <2>9. \E g : Shows(g, Place(cols, add), m, I \cup {x})
    <3>1. Shows(e, cols, m, I)
      BY <2>1
    <3>2. x \in 1..Len(m.cols) /\ x \notin I /\ I \subseteq 1..Len(m.cols) /\ \A k \in 1..(x - 1) : k \in I
      BY <2>3, <2>4, <2>5
    <3>3. cols \in Seq(Stored) /\ add.col = m.cols[x] /\ add.after = IF x = 1 THEN Null ELSE m.cols[x - 1].name
      BY <2>6, <2>7
    <3> HIDE DEF I, cols, add, x
    <3> QED
      BY <2>8, <3>1, <3>2, <3>3, PlacedNext
  <2>10. \E g : Shows(g, f[j], m, In(j))
    BY <2>2, <2>6, <2>9
  <2> HIDE DEF In, x
  <2> QED
    BY <1>5, <2>10
<1> HIDE DEF P
<1>13. n \in P
  <2>1. 0..n \subseteq P
    BY <1>5, <1>11, <1>12, UpTo
  <2> QED
    BY <1>5, <2>1
<1>14. PICK e : Shows(e, f[n], m, In(n))
  BY <1>13 DEF P
<1>15. In(n) = 1..N
  <2>1. \A k \in A : \E i \in 1..n : h[i] = k
    BY <1>5 DEF Numbers
  <2> QED
    BY <1>6, <1>7, <1>8, <2>1
<1>16. f[n] \in Seq(Stored)
  BY <1>5, <1>10 DEF Adds
<1>17. Len(f[n]) = N /\ \A j \in 1..N : f[n][j] = Defined(m.cols[j])
  <2>1. Numbers(e, Len(f[n]), 1..N) /\ \A j \in 1..Len(f[n]) : f[n][j] = Defined(m.cols[e[j]])
    BY <1>14, <1>15 DEF Shows
  <2>2. Len(f[n]) \in Nat
    BY <1>16
  <2>3. Len(f[n]) = N /\ \A j \in 1..N : e[j] = j
    BY <1>1, <2>1, <2>2, NumbersAll
  <2> QED
    BY <2>1, <2>3
<1>18. f[n] = Content(m).cols
  <2>1. /\ Content(m).cols \in Seq(Stored) /\ Len(Content(m).cols) = N
        /\ \A i \in 1..N : Content(m).cols[i] = Defined(m.cols[i])
    BY ContentIs DEF Pair
  <2> DEFINE c == Content(m).cols  d == f[n]
  <2> HIDE DEF c, d
  <2> QED
    BY <2>1, <1>16, <1>17 DEF c, d
<1>19. CanPlace(t, s)
  <2> SUFFICES ASSUME NEW i \in 1..n, adds[i].after # Null
               PROVE  adds[i].after \in NamesOf(first) \cup {adds[j].col.name : j \in 1..(i - 1)}
    BY <1>4 DEF CanPlace, adds, first
  <2> DEFINE x == h[i] - 1
  <2>1. x \in 1..(h[i] - 1) /\ x \in 1..N /\ adds[i].after = m.cols[x].name
    BY <1>5, <1>8
  <2>2. x \in In(i - 1)
    BY <1>9, <2>1
  <2> HIDE DEF x
  <2>3. CASE x \in K
    <3>1. PICK j \in 1..Len(first) : e0[j] = x
      BY <1>2, <2>3 DEF Shows, Numbers
    <3>2. first[j].name = m.cols[x].name
      <4>1. first[j] = Defined(m.cols[x])
        BY <1>2, <3>1 DEF Shows
      <4> QED
        BY <4>1 DEF Defined
    <3>3. m.cols[x].name \in NamesOf(first)
      BY <1>2, <3>1, <3>2, SetsOf
    <3> QED
      BY <2>1, <3>3
  <2>4. CASE x \notin K
    <3>1. PICK j \in 1..(i - 1) : h[j] = x
      BY <2>2, <2>4
    <3>2. j \in 1..n
      BY <1>5, <3>1
    <3>3. adds[j].col.name = m.cols[x].name
      BY <1>5, <3>1, <3>2
    <3> QED
      BY <2>1, <3>1, <3>3
  <2> QED
    BY <2>3, <2>4
<1> QED
  BY <1>10, <1>18, <1>19

LEMMA FormKey ==
  ASSUME NEW c, FormShape(c)
  PROVE  /\ c # Null
         /\ KeyColumns(c) \in Seq(AnyName)
         /\ c.key # Null => KeyColumns(c) = c.key.cols /\ c.key.cols # <<>>
         /\ c.key = Null => KeyColumns(c) = <<>>
<1>1. c # Null /\ c.key \in KeyType \cup {Null}
  BY DesignerAssumption DEF FormShape, FormType
<1> QED
  BY <1>1 DEF FormShape, KeyColumns, KeyType

(* A column the key keeps is not dropped, and keeps its name. *)
LEMMA KeyColumnKept ==
  ASSUME NEW o, NEW m, Pair(o, m), NEW table, NEW n \in ToSet(KeyColumns(m)), n \in ToSet(KeyColumns(o))
  PROVE  LET s == Clauses(table, o, m)
         IN  n \notin s.drops /\ \A c \in s.changes : c.old = n => c.new.name = n
<1> DEFINE idsOf(c, x) == {d.id : d \in {e \in ToSet(c.cols) : e.name = x}}
<1>1. idsOf(m, n) # {} /\ idsOf(m, n) = idsOf(o, n)
  BY FormKey DEF Pair, WellFormed, KeyKept
<1>2. PICK k \in 1..Len(m.cols) : m.cols[k].name = n
  <2>1. ToSet(m.cols) = {m.cols[i] : i \in 1..Len(m.cols)}
    BY FormSets DEF Pair
  <2>2. \E d \in ToSet(m.cols) : d.name = n
    BY <1>1
  <2> QED
    BY <2>1, <2>2
<1>3. m.cols[k].id \in idsOf(o, n)
  <2>1. ToSet(m.cols) = {m.cols[i] : i \in 1..Len(m.cols)}
    BY FormSets DEF Pair
  <2>2. m.cols[k] \in ToSet(m.cols)
    BY <2>1
  <2> QED
    BY <1>1, <1>2, <2>2
<1>4. PICK i \in 1..Len(o.cols) : o.cols[i].name = n /\ o.cols[i].id = m.cols[k].id
  <2>1. ToSet(o.cols) = {o.cols[i] : i \in 1..Len(o.cols)}
    BY FormSets DEF Pair
  <2>2. \E d \in ToSet(o.cols) : d.name = n /\ d.id = m.cols[k].id
    BY <1>3
  <2> QED
    BY <2>1, <2>2
<1>5. o.cols[i].id \in IdsOf(m.cols)
  BY <1>4, FormSets DEF Pair
<1> QED
  BY <1>2, <1>4, <1>5, DropsAre, ChangesAre

LEMMA ElementsOf ==
  ASSUME NEW S, NEW seq \in Seq(S)
  PROVE  ToSet(seq) = {seq[i] : i \in 1..Len(seq)}
BY DEF ToSet

(* The key the server is left with, or is given, is the form's. *)
LEMMA KeyIs ==
  ASSUME NEW o, NEW m, Pair(o, m), NEW table
  PROVE  LET s == Clauses(table, o, m)
             t == Content(o)
         IN  /\ s.dropKey => t.pk # <<>>
             /\ s.addKey # <<>> => KeptKey(t, s) = <<>>
             /\ KeyColumns(m) = IF s.addKey # <<>> THEN s.addKey ELSE KeptKey(t, s)
<1> DEFINE s == Clauses(table, o, m)
           t == Content(o)
           left == Kept(t.pk, ToSet(t.pk) \ s.drops)
           same == o.key # Null /\ m.key # Null /\ m.key.id = o.key.id
           changed == same /\ m.key.cols # <<>> /\ m.key.cols # o.key.cols
           added == ~same /\ m.key # Null /\ m.key.cols # <<>>
<1>1. /\ s.dropKey = ((o.key # Null /\ ~same) \/ changed)
      /\ s.addKey = IF changed \/ added THEN m.key.cols ELSE <<>>
  BY Zenon DEF Clauses, KeyClauses
<1>2. /\ t.pk = KeyColumns(o) /\ KeyColumns(o) \in Seq(AnyName) /\ KeyColumns(m) \in Seq(AnyName)
      /\ o.key # Null => t.pk = o.key.cols /\ o.key.cols # <<>>
      /\ o.key = Null => t.pk = <<>>
      /\ m.key # Null => KeyColumns(m) = m.key.cols /\ m.key.cols # <<>>
      /\ m.key = Null => KeyColumns(m) = <<>>
  BY FormKey, ContentIs DEF Pair
<1>3. KeptKey(t, s) = IF s.dropKey THEN <<>>
                      ELSE [i \in DOMAIN left |-> IF \E c \in s.changes : c.old = left[i]
                              THEN (CHOOSE c \in s.changes : c.old = left[i]).new.name ELSE left[i]]
  BY DEF KeptKey
<1>4. \A n \in ToSet(KeyColumns(m)) : n \in ToSet(KeyColumns(o)) =>
        n \notin s.drops /\ \A c \in s.changes : c.old = n => c.new.name = n
  BY KeyColumnKept
<1> SUFFICES /\ s.dropKey => t.pk # <<>>
             /\ s.addKey # <<>> => KeptKey(t, s) = <<>>
             /\ KeyColumns(m) = IF s.addKey # <<>> THEN s.addKey ELSE KeptKey(t, s)
  OBVIOUS
<1> HIDE DEF s, t
<1>5. CASE o.key = Null
  <2>1. left = <<>>
    <3>1. t.pk \in Seq(AnyName) /\ \A i \in 1..Len(t.pk) : t.pk[i] \in ToSet(t.pk) \ s.drops
      BY <1>2, <1>5
    <3> QED
      BY <1>2, <1>5, <3>1, KeptAll
  <2>2. KeptKey(t, s) = <<>>
    <3> HIDE DEF left
    <3> QED
      BY <1>3, <2>1
  <2> QED
    BY <1>1, <1>2, <1>5, <2>2
<1>6. CASE o.key # Null /\ (~same \/ changed)
  <2>1. s.dropKey /\ KeptKey(t, s) = <<>>
    BY <1>1, <1>3, <1>6
  <2> QED
    BY <1>1, <1>2, <1>6, <2>1
<1>7. CASE same /\ ~changed
  <2>1. m.key.cols = o.key.cols /\ ~s.dropKey /\ s.addKey = <<>> /\ t.pk = KeyColumns(m)
    BY <1>1, <1>2, <1>7
  <2>2. \A i \in 1..Len(t.pk) : /\ t.pk[i] \in ToSet(t.pk) /\ t.pk[i] \notin s.drops
                                /\ \A c \in s.changes : c.old = t.pk[i] => c.new.name = t.pk[i]
    BY <1>2, <1>4, <2>1, ElementsOf
  <2>3. left = t.pk
    BY <1>2, <2>2, KeptAll
  <2> HIDE DEF left
  <2>4. KeptKey(t, s) = [i \in DOMAIN t.pk |-> IF \E c \in s.changes : c.old = t.pk[i]
                              THEN (CHOOSE c \in s.changes : c.old = t.pk[i]).new.name ELSE t.pk[i]]
    BY <1>3, <2>1, <2>3
  <2>5. \A i \in 1..Len(t.pk) : t.pk[i] = IF \E c \in s.changes : c.old = t.pk[i]
                              THEN (CHOOSE c \in s.changes : c.old = t.pk[i]).new.name ELSE t.pk[i]
    BY <2>2, Zenon
  <2>6. KeptKey(t, s) = t.pk
    <3>1. t.pk \in Seq(AnyName) /\ DOMAIN t.pk = 1..Len(t.pk)
      BY <1>2
    <3>2. [i \in DOMAIN t.pk |-> t.pk[i]] = t.pk
      BY <3>1
    <3>3. KeptKey(t, s) = [i \in DOMAIN t.pk |-> t.pk[i]]
      BY <2>4, <2>5, <3>1, Zenon
    <3> QED
      BY <3>2, <3>3
  <2> QED
    BY <1>1, <2>1, <2>6
<1> QED
  BY <1>5, <1>6, <1>7

(* The statement made of the difference makes the table the form. *)
LEMMA DifferenceApplies ==
  ASSUME NEW o, NEW m, Pair(o, m), NEW table
  PROVE  Altered(Content(o), Clauses(table, o, m)) = Content(m)
<1> DEFINE s == Clauses(table, o, m)
           t == Content(o)
           key == IF s.addKey # <<>> THEN s.addKey ELSE KeptKey(t, s)
           cols == AlteredColumns(t, s)
           N == Len(m.cols)
<1>1. cols = Content(m).cols /\ CanPlace(t, s)
  BY AlteredAre
<1>2. key = KeyColumns(m) /\ (s.dropKey => t.pk # <<>>) /\ (s.addKey # <<>> => KeptKey(t, s) = <<>>)
  BY KeyIs
<1>3. /\ Content(m).cols \in Seq(Stored) /\ Len(Content(m).cols) = N /\ Content(m).pk = KeyColumns(m)
      /\ \A i \in 1..N : Content(m).cols[i] = Defined(m.cols[i]) /\ Content(m).cols[i].name = m.cols[i].name
  BY ContentIs DEF Pair
<1>4. s.drops \cup {c.old : c \in s.changes} \subseteq NamesOf(t.cols)
  <2>1. \A n : n \in NamesOf(t.cols) <=> \E i \in 1..Len(o.cols) : o.cols[i].name = n
    <3>1. /\ t.cols \in Seq(Stored) /\ Len(t.cols) = Len(o.cols)
          /\ \A i \in 1..Len(o.cols) : t.cols[i].name = o.cols[i].name
      BY ContentIs DEF Pair
    <3>2. \A n : n \in NamesOf(t.cols) <=> \E i \in 1..Len(t.cols) : t.cols[i].name = n
      BY <3>1, SetsOf
    <3> QED
      BY <3>1, <3>2
  <2>2. ASSUME NEW n \in s.drops PROVE n \in NamesOf(t.cols)
    <3>1. \E d \in ToSet(o.cols) : d.name = n
      BY DEF Clauses
    <3>2. ToSet(o.cols) = {o.cols[i] : i \in 1..Len(o.cols)}
      BY FormSets DEF Pair
    <3> HIDE DEF s, t
    <3> QED
      BY <2>1, <3>1, <3>2
  <2>3. ASSUME NEW c \in s.changes PROVE c.old \in NamesOf(t.cols)
    <3>1. PICK d \in ToSet(Named(m.cols)) : d.id \in IdsOf(o.cols) /\ c.old = WithId(o.cols, d.id).name
      BY DEF Clauses
    <3>2. \A id : id \in IdsOf(o.cols) <=> \E i \in 1..Len(o.cols) : o.cols[i].id = id
      BY FormSets DEF Pair
    <3>3. PICK i \in 1..Len(o.cols) : o.cols[i].id = d.id
      BY <3>1, <3>2
    <3>4. c.old = o.cols[i].name
      BY <3>1, <3>3, WithIdIs DEF Pair
    <3> HIDE DEF s, t
    <3> QED
      BY <2>1, <3>4
  <2> HIDE DEF s, t
  <2> QED
    BY <2>2, <2>3
<1>5. cols # <<>> /\ Unique(cols)
  <2>1. DOMAIN Content(m).cols = 1..N /\ N >= 1
    BY <1>3, PairNames
  <2>2. Unique(Content(m).cols)
    BY <1>3, <2>1, PairNames DEF Unique
  <2>3. Content(m).cols # <<>>
    BY <1>3, <2>1
  <2> QED
    BY <1>1, <2>2, <2>3
<1>6. \A n : n \in NamesOf(Content(m).cols) <=> \E i \in 1..N : m.cols[i].name = n
  <2>1. \A n : n \in NamesOf(Content(m).cols) <=> \E i \in 1..Len(Content(m).cols) : Content(m).cols[i].name = n
    BY <1>3, SetsOf
  <2> QED
    BY <1>3, <2>1
<1>7. ToSet(KeyColumns(m)) \subseteq NamesOf(cols)
  <2> SUFFICES ASSUME NEW n \in ToSet(KeyColumns(m)) PROVE \E i \in 1..N : m.cols[i].name = n
    BY <1>1, <1>6
  <2>1. {d.id : d \in {e \in ToSet(m.cols) : e.name = n}} # {}
    BY DEF Pair, WellFormed, KeyKept
  <2>2. \E d \in ToSet(m.cols) : d.name = n
    BY <2>1
  <2>3. ToSet(m.cols) = {m.cols[i] : i \in 1..Len(m.cols)}
    BY FormSets DEF Pair
  <2> QED
    BY <2>2, <2>3
<1>8. \A c \in ToSet(m.cols) : c.name \in ToSet(KeyColumns(m)) => ~c.nullable
  BY DEF Pair, WellFormed
<1>9. Stated(s) \subseteq ToSet(m.cols)
  <2>1. \A c \in s.changes : c.new \in ToSet(m.cols)
    BY AllNamed DEF Clauses
  <2>2. s.adds = Additions(o, m.cols)
    BY AllNamed DEF Clauses
  <2>3. ToSet(m.cols) = {m.cols[i] : i \in 1..Len(m.cols)}
    BY FormSets DEF Pair
  <2>4. PICK h : s.adds \in Seq(Addition) /\ Follow(h, s.adds, m, Own(m, o))
    BY <2>2, AdditionsAre DEF Pair
  <2>5. \A j \in 1..Len(s.adds) : s.adds[j].col \in ToSet(m.cols)
    <3>1. \A j \in 1..Len(s.adds) : s.adds[j].col = m.cols[h[j]] /\ h[j] \in Own(m, o)
      BY <2>4 DEF Follow, Numbers
    <3>2. Own(m, o) \subseteq 1..Len(m.cols)
      BY DEF Own
    <3> HIDE DEF s
    <3> QED
      BY <2>3, <3>1, <3>2
  <2>6. ToSet(s.adds) = {s.adds[j] : j \in 1..Len(s.adds)}
    BY <2>4, ElementsOf
  <2> HIDE DEF s
  <2> QED
    BY <2>1, <2>5, <2>6 DEF Stated
<1> HIDE DEF s, t
<1>10. Altered(t, s) = [cols |-> [i \in DOMAIN cols |-> IF cols[i].name \in ToSet(key)
                                   THEN [cols[i] EXCEPT !.nullable = FALSE] ELSE cols[i]], pk |-> key]
  <2>1. /\ s.drops \cup {c.old : c \in s.changes} \subseteq NamesOf(t.cols)
        /\ s.dropKey => t.pk # <<>>
        /\ s.addKey # <<>> => KeptKey(t, s) = <<>>
        /\ CanPlace(t, s)
        /\ cols # <<>> /\ Unique(cols)
        /\ ToSet(key) \subseteq NamesOf(cols)
        /\ \A c \in Stated(s) : c.name \in ToSet(key) => ~c.nullable
    BY <1>1, <1>2, <1>4, <1>5, <1>7, <1>8, <1>9
  <2> QED
    BY <2>1 DEF Altered
<1> HIDE DEF cols, key
<1>11. [i \in DOMAIN cols |-> IF cols[i].name \in ToSet(key)
                              THEN [cols[i] EXCEPT !.nullable = FALSE] ELSE cols[i]] = Content(m).cols
  <2> DEFINE c == Content(m).cols
  <2>1. c \in Seq(Stored) /\ DOMAIN c = 1..N /\ cols = c
    BY <1>1, <1>3
  <2>2. \A i \in 1..N : c[i].name \in ToSet(key) => ~c[i].nullable /\ c[i] \in Stored
    <3>1. \A i \in 1..N : m.cols[i] \in ToSet(m.cols)
      <4>1. ToSet(m.cols) = {m.cols[i] : i \in 1..Len(m.cols)}
        BY FormSets DEF Pair
      <4> QED
        BY <4>1
    <3>2. \A i \in 1..N : c[i].name = m.cols[i].name /\ c[i].nullable = m.cols[i].nullable
      <4> SUFFICES ASSUME NEW i \in 1..N PROVE c[i].name = m.cols[i].name /\ c[i].nullable = m.cols[i].nullable
        OBVIOUS
      <4>1. c[i] = [name |-> m.cols[i].name, nullable |-> m.cols[i].nullable]
        BY <1>3 DEF Defined
      <4> HIDE DEF c
      <4> QED
        BY <4>1
    <3>3. \A i \in 1..N : c[i] \in Stored
      BY <1>3
    <3> HIDE DEF c
    <3> QED
      BY <1>2, <1>8, <3>1, <3>2, <3>3
  <2> HIDE DEF c
  <2>3. \A i \in 1..N : c[i].name \in ToSet(key) => [c[i] EXCEPT !.nullable = FALSE] = c[i]
    BY <2>2 DEF Stored
  <2>4. [i \in DOMAIN c |-> IF c[i].name \in ToSet(key)
                              THEN [c[i] EXCEPT !.nullable = FALSE] ELSE c[i]] = [i \in 1..N |-> c[i]]
    BY <2>1, <2>3
  <2>5. [i \in 1..N |-> c[i]] = c
    BY <2>1
  <2> QED
    BY <2>1, <2>4, <2>5 DEF c
<1>12. Altered(t, s) = [cols |-> Content(m).cols, pk |-> KeyColumns(m)]
  BY <1>2, <1>10, <1>11
<1> QED
  BY <1>12 DEF Content, s, t

(* And no difference is no change. *)
LEMMA NoDifference ==
  ASSUME NEW o, NEW m, Pair(o, m), NEW table, generateAlterTable(table, o, m).kind = "none"
  PROVE  Content(m) = Content(o)
<1> DEFINE s == Clauses(table, o, m)
           t == Content(o)
<1>1. /\ s.drops = {} /\ s.changes = {} /\ s.adds = <<>> /\ s.dropKey = FALSE /\ s.addKey = <<>>
  <2>1. s.kind = "alter"
    BY DEF Clauses
  <2>2. s = [NothingToDo EXCEPT !.kind = "alter", !.table = table]
    BY <2>1 DEF generateAlterTable
  <2> HIDE DEF s
  <2> QED
    BY <2>2 DEF NothingToDo
<1>2. t.cols \in Seq(Stored) /\ t.pk \in Seq(AnyName)
  BY ContentIs, FormKey DEF Pair
<1>3. AlteredColumns(t, s) = Content(m).cols
  BY AlteredAre
<1>4. KeyColumns(m) = IF s.addKey # <<>> THEN s.addKey ELSE KeptKey(t, s)
  BY KeyIs
<1>5. Content(m) = [cols |-> Content(m).cols, pk |-> KeyColumns(m)] /\ t = [cols |-> t.cols, pk |-> t.pk]
  BY DEF Content
<1> HIDE DEF s, t
<1>6. ChangedColumns(t, s) = t.cols
  <2> DEFINE kept == Kept(t.cols, {c \in ToSet(t.cols) : c.name \notin s.drops})
  <2>1. kept = t.cols
    <3>1. \A i \in 1..Len(t.cols) : t.cols[i] \in {c \in ToSet(t.cols) : c.name \notin s.drops}
      BY <1>1, <1>2, ElementsOf
    <3> QED
      BY <1>2, <3>1, KeptAll
  <2>2. ChangedColumns(t, s) = [i \in DOMAIN kept |-> IF \E c \in s.changes : c.old = kept[i].name
                         THEN Defined((CHOOSE c \in s.changes : c.old = kept[i].name).new)
                         ELSE kept[i]]
    BY DEF ChangedColumns
  <2> HIDE DEF kept
  <2>3. ChangedColumns(t, s) = [i \in DOMAIN t.cols |-> t.cols[i]]
    BY <1>1, <2>1, <2>2
  <2> QED
    BY <1>2, <2>3
<1>7. AlteredColumns(t, s) = t.cols
  <2>1. s.adds \in Seq({}) /\ Len(s.adds) = 0
    BY <1>1
  <2>2. PICK f : Adds(f, ChangedColumns(t, s), s.adds) /\ AlteredColumns(t, s) = f[Len(s.adds)]
    BY <1>2, <1>6, <2>1, AddsEquation
  <2> QED
    BY <1>6, <2>1, <2>2 DEF Adds
<1>8. KeptKey(t, s) = t.pk
  <2> DEFINE left == Kept(t.pk, ToSet(t.pk) \ s.drops)
  <2>1. left = t.pk
    <3>1. \A i \in 1..Len(t.pk) : t.pk[i] \in ToSet(t.pk) \ s.drops
      BY <1>1, <1>2, ElementsOf
    <3> QED
      BY <1>2, <3>1, KeptAll
  <2>2. KeptKey(t, s) = [i \in DOMAIN left |-> IF \E c \in s.changes : c.old = left[i]
                              THEN (CHOOSE c \in s.changes : c.old = left[i]).new.name ELSE left[i]]
    BY <1>1 DEF KeptKey
  <2> HIDE DEF left
  <2>3. KeptKey(t, s) = [i \in DOMAIN t.pk |-> t.pk[i]]
    BY <1>1, <2>1, <2>2
  <2> QED
    BY <1>2, <2>3
<1> QED
  BY <1>1, <1>3, <1>4, <1>5, <1>7, <1>8 DEF t

(***************************************************************************)
(* Types: what a statement makes of a table is a table, what an edit makes *)
(* of a form is a form.                                                    *)
(***************************************************************************)
LoadType == [table : Tables, token : Nat]
FlagsType == [loadError : BOOLEAN, warned : BOOLEAN, preview : BOOLEAN, saving : BOOLEAN]

StatementShape(s) ==
  /\ s.kind \in {"create", "alter"} /\ s.table \in Tables /\ s.to \in Tables \cup {Null}
  /\ \A c \in s.changes : c.new \in FormColumn
  /\ s.adds \in Seq(Addition) /\ s.addKey \in Seq(AnyName)

(* The server's tables are tables. *)
ServerInv ==
  /\ server \in [Tables -> TableType \cup {Null}]
  /\ \A t \in Tables : server[t] # Null => Unique(server[t].cols)
LEMMA TableParts ==
  ASSUME NEW t \in TableType
  PROVE  t.cols \in Seq(Stored) /\ t.pk \in Seq(AnyName)
BY DEF TableType, Stored

LEMMA StoredColumn == ASSUME NEW c \in FormColumn PROVE Defined(c) \in Stored /\ c.name \in AnyName
BY DEF FormColumn, Defined, Stored

LEMMA ChangedTyped ==
  ASSUME NEW t \in TableType, NEW s, StatementShape(s)
  PROVE  ChangedColumns(t, s) \in Seq(Stored)
<1> DEFINE kept == Kept(t.cols, {c \in ToSet(t.cols) : c.name \notin s.drops})
           f == [i \in DOMAIN kept |-> IF \E c \in s.changes : c.old = kept[i].name
                         THEN Defined((CHOOSE c \in s.changes : c.old = kept[i].name).new)
                         ELSE kept[i]]
<1>1. kept \in Seq(Stored)
  BY TableParts, KeptIs
<1>2. ChangedColumns(t, s) = f
  BY DEF ChangedColumns
<1> HIDE DEF kept
<1>3. \A i \in 1..Len(kept) : f[i] \in Stored
  <2> SUFFICES ASSUME NEW i \in 1..Len(kept) PROVE f[i] \in Stored
    OBVIOUS
  <2>1. CASE \E c \in s.changes : c.old = kept[i].name
    <3> DEFINE d == CHOOSE c \in s.changes : c.old = kept[i].name
    <3>1. d \in s.changes
      BY <2>1
    <3>2. i \in DOMAIN kept
      BY <1>1
    <3>3. f[i] = Defined(d.new)
      BY <2>1, <3>2, Zenon
    <3> HIDE DEF d
    <3> QED
      BY <3>1, <3>3, StoredColumn DEF StatementShape
  <2>2. CASE ~\E c \in s.changes : c.old = kept[i].name
    BY <1>1, <2>2
  <2> QED
    BY <2>1, <2>2
<1>4. f \in Seq(Stored)
  <2>1. DOMAIN kept = 1..Len(kept) /\ Len(kept) \in Nat
    BY <1>1
  <2>2. f = [i \in 1..Len(kept) |-> f[i]]
    BY <2>1
  <2> HIDE DEF f
  <2> QED
    BY <1>3, <2>1, <2>2
<1> QED
  BY <1>2, <1>4

LEMMA AlteredTyped ==
  ASSUME NEW t \in TableType, NEW s, StatementShape(s)
  PROVE  AlteredColumns(t, s) \in Seq(Stored)
<1>1. s.adds \in Seq(Addition) /\ Len(s.adds) \in Nat
  BY DEF StatementShape
<1>2. \A i \in 1..Len(s.adds) : Defined(s.adds[i].col) \in Stored
  <2>1. \A i \in 1..Len(s.adds) : s.adds[i] \in Addition
    BY <1>1
  <2> QED
    BY <2>1, StoredColumn DEF Addition
<1>3. PICK f : Adds(f, ChangedColumns(t, s), s.adds) /\ AlteredColumns(t, s) = f[Len(s.adds)]
  BY <1>1, <1>2, ChangedTyped, AddsEquation
<1> QED
  BY <1>1, <1>3 DEF Adds

LEMMA KeptKeyTyped ==
  ASSUME NEW t \in TableType, NEW s, StatementShape(s)
  PROVE  KeptKey(t, s) \in Seq(AnyName)
<1> DEFINE left == Kept(t.pk, ToSet(t.pk) \ s.drops)
           f == [i \in DOMAIN left |-> IF \E c \in s.changes : c.old = left[i]
                              THEN (CHOOSE c \in s.changes : c.old = left[i]).new.name ELSE left[i]]
<1>1. left \in Seq(AnyName)
  BY TableParts, KeptIs
<1>2. KeptKey(t, s) = IF s.dropKey THEN <<>> ELSE f
  BY DEF KeptKey
<1> HIDE DEF left
<1>3. \A i \in 1..Len(left) : f[i] \in AnyName
  <2> SUFFICES ASSUME NEW i \in 1..Len(left) PROVE f[i] \in AnyName
    OBVIOUS
  <2>1. CASE \E c \in s.changes : c.old = left[i]
    <3> DEFINE d == CHOOSE c \in s.changes : c.old = left[i]
    <3>1. d \in s.changes
      BY <2>1
    <3>2. i \in DOMAIN left
      BY <1>1
    <3>3. f[i] = d.new.name
      BY <2>1, <3>2, Zenon
    <3> HIDE DEF d
    <3> QED
      BY <3>1, <3>3, StoredColumn DEF StatementShape
  <2>2. CASE ~\E c \in s.changes : c.old = left[i]
    BY <1>1, <2>2
  <2> QED
    BY <2>1, <2>2
<1>4. f \in Seq(AnyName)
  <2>1. DOMAIN left = 1..Len(left) /\ Len(left) \in Nat
    BY <1>1
  <2>2. f = [i \in 1..Len(left) |-> f[i]]
    BY <2>1
  <2> HIDE DEF f
  <2> QED
    BY <1>3, <2>1, <2>2
<1> HIDE DEF f
<1> QED
  BY <1>2, <1>4

(* The altered table is one, with distinct columns. *)
LEMMA AlteredTable ==
  ASSUME NEW t \in TableType, NEW s, StatementShape(s), Altered(t, s) # Null
  PROVE  Altered(t, s) \in TableType /\ Unique(Altered(t, s).cols)
<1> DEFINE cols == AlteredColumns(t, s)
           key == IF s.addKey # <<>> THEN s.addKey ELSE KeptKey(t, s)
           new == [i \in DOMAIN cols |-> IF cols[i].name \in ToSet(key)
                                         THEN [cols[i] EXCEPT !.nullable = FALSE] ELSE cols[i]]
<1>1. Altered(t, s) = [cols |-> new, pk |-> key] /\ Unique(cols)
  BY DEF Altered
<1>2. cols \in Seq(Stored) /\ key \in Seq(AnyName)
  BY AlteredTyped, KeptKeyTyped DEF StatementShape
<1> HIDE DEF cols, key
<1>3. \A i \in 1..Len(cols) : new[i] \in Stored /\ new[i].name = cols[i].name
  <2> SUFFICES ASSUME NEW i \in 1..Len(cols) PROVE new[i] \in Stored /\ new[i].name = cols[i].name
    OBVIOUS
  <2>1. cols[i] \in Stored /\ i \in DOMAIN cols
    BY <1>2
  <2>2. [cols[i] EXCEPT !.nullable = FALSE] \in Stored /\ [cols[i] EXCEPT !.nullable = FALSE].name = cols[i].name
    BY <2>1 DEF Stored
  <2> QED
    BY <2>1, <2>2
<1>4. new \in Seq(Stored) /\ DOMAIN new = DOMAIN cols /\ DOMAIN cols = 1..Len(cols)
  <2>1. DOMAIN cols = 1..Len(cols) /\ Len(cols) \in Nat
    BY <1>2
  <2>2. new = [i \in 1..Len(cols) |-> new[i]]
    BY <2>1
  <2> HIDE DEF new
  <2> QED
    BY <1>3, <2>1, <2>2
<1> HIDE DEF new
<1>5. Unique(new)
  BY <1>1, <1>3, <1>4 DEF Unique
<1> QED
  BY <1>1, <1>2, <1>4, <1>5 DEF TableType, Stored

LEMMA CreatedColumns ==
  ASSUME NEW s, StatementShape(s)
  PROVE  [i \in DOMAIN s.adds |-> Defined(s.adds[i].col)] \in Seq(Stored)
<1>1. s.adds \in Seq(Addition) /\ Len(s.adds) \in Nat /\ DOMAIN s.adds = 1..Len(s.adds)
  BY DEF StatementShape
<1>2. \A i \in 1..Len(s.adds) : Defined(s.adds[i].col) \in Stored
  <2>1. \A i \in 1..Len(s.adds) : s.adds[i] \in Addition
    BY <1>1
  <2> QED
    BY <2>1, StoredColumn DEF Addition
<1> QED
  BY <1>1, <1>2

(* A statement leaves tables, and those it does not name as they are. *)
LEMMA ExecutedIs ==
  ASSUME ServerInv, NEW s, StatementShape(s), Executed(server, s) # Null
  PROVE  LET done == Executed(server, s) IN
         /\ done \in [Tables -> TableType \cup {Null}]
         /\ \A t \in Tables : done[t] # Null => Unique(done[t].cols)
         /\ \A t \in Tables \ TablesOf(s) : done[t] = server[t]
<1> DEFINE there == server[s.table]
           cols == [i \in DOMAIN s.adds |-> Defined(s.adds[i].col)]
           done == Executed(server, s)
<1>1. s.table \in Tables /\ s.to \in Tables \cup {Null} /\ Null \notin Tables
  BY DesignerAssumption DEF StatementShape
<1>2. s.table \in TablesOf(s) /\ (s.to # Null => s.to \in TablesOf(s))
  BY <1>1 DEF TablesOf
<1>3. CASE s.kind = "create"
  <2>1. done = [server EXCEPT ![s.table] = [cols |-> cols, pk |-> s.addKey]] /\ Unique(cols)
    BY <1>3 DEF Executed
  <2>2. [cols |-> cols, pk |-> s.addKey] \in TableType
    BY CreatedColumns DEF StatementShape, TableType, Stored
  <2> HIDE DEF cols, done
  <2> QED
    BY <1>1, <1>2, <2>1, <2>2 DEF ServerInv, done
<1>4. CASE s.kind # "create"
  <2> DEFINE new == Altered(there, s)
             at == IF s.to = Null THEN s.table ELSE s.to
  <2>1. /\ there # Null /\ new # Null
        /\ done = [server EXCEPT ![s.table] = IF s.to = Null THEN new ELSE Null, ![at] = new]
    BY <1>4 DEF Executed
  <2>2. new \in TableType /\ Unique(new.cols)
    BY <1>1, <2>1, AlteredTable DEF ServerInv
  <2>3. at \in Tables /\ at \in TablesOf(s)
    BY <1>1, <1>2
  <2> HIDE DEF new, at, done
  <2> QED
    BY <1>1, <1>2, <2>1, <2>2, <2>3 DEF ServerInv, done
<1> QED
  BY <1>3, <1>4

FormInv ==
  /\ ids \in Nat /\ FormShape(form) /\ \A i \in DOMAIN form.cols : form.cols[i].id <= ids
  /\ baseline # Null => FormShape(baseline)
  /\ from \in LoadType \cup {Null}
  /\ flags \in FlagsType

(* Where one is taken out, the rest keep their order. *)
LEMMA RemoveIs ==
  ASSUME NEW T, NEW s \in Seq(T), NEW x \in 1..Len(s)
  PROVE  LET r == RemoveAt(s, x) IN
         /\ r \in Seq(T) /\ Len(r) = Len(s) - 1
         /\ \A j \in 1..(Len(s) - 1) : r[j] = IF j < x THEN s[j] ELSE s[j + 1]
<1> DEFINE a == SubSeq(s, 1, x - 1)  c == SubSeq(s, x + 1, Len(s))  r == a \o c
<1>1. Len(s) \in Nat /\ x \in Int
  OBVIOUS
<1>2. a \in Seq(T) /\ Len(a) = x - 1 /\ \A i \in 1..(x - 1) : a[i] = s[i]
  BY <1>1
<1>3. c \in Seq(T) /\ Len(c) = Len(s) - x /\ \A i \in 1..(Len(s) - x) : c[i] = s[x + i]
  BY <1>1
<1> HIDE DEF a, c
<1>4. /\ r \in Seq(T) /\ Len(r) = Len(a) + Len(c)
      /\ \A i \in 1..(Len(a) + Len(c)) : r[i] = IF i <= Len(a) THEN a[i] ELSE c[i - Len(a)]
  BY <1>2, <1>3, ConcatProperties
<1> HIDE DEF r
<1>5. Len(a) + Len(c) = Len(s) - 1
  BY <1>1, <1>2, <1>3
<1>6. ASSUME NEW j \in 1..(Len(s) - 1) PROVE r[j] = IF j < x THEN s[j] ELSE s[j + 1]
  <2>1. r[j] = IF j <= Len(a) THEN a[j] ELSE c[j - Len(a)]
    BY <1>4, <1>5
  <2>2. CASE j < x
    <3>1. j <= Len(a) /\ j \in 1..(x - 1)
      BY <1>1, <1>2, <2>2
    <3> QED
      BY <1>2, <2>1, <2>2, <3>1
  <2>3. CASE ~(j < x)
    <3>1. ~(j <= Len(a)) /\ j - Len(a) \in 1..(Len(s) - x) /\ x + (j - Len(a)) = j + 1
      BY <1>1, <1>2, <2>3
    <3> QED
      BY <1>3, <2>1, <2>3, <3>1
  <2> QED
    BY <2>2, <2>3
<1>7. Len(r) = Len(s) - 1 /\ r \in Seq(T)
  BY <1>4, <1>5
<1> QED
  BY <1>6, <1>7 DEF RemoveAt, r, a, c

LEMMA AdditionsTyped ==
  ASSUME NEW o, NEW cols \in Seq(FormColumn)
  PROVE  Additions(o, cols) \in Seq(Addition)
<1> DEFINE placed == [i \in DOMAIN cols |->
                        [col |-> cols[i], after |-> IF i = 1 THEN Null ELSE cols[i - 1].name]]
<1>1. DOMAIN cols = 1..Len(cols) /\ Len(cols) \in Nat /\ \A i \in 1..Len(cols) : cols[i] \in FormColumn
  OBVIOUS
<1>2. \A i \in 1..Len(cols) : placed[i] \in Addition
  <2> SUFFICES ASSUME NEW i \in 1..Len(cols) PROVE placed[i] \in Addition
    OBVIOUS
  <2>1. i = 1 \/ i - 1 \in 1..Len(cols)
    BY <1>1
  <2> QED
    BY <1>1, <2>1 DEF Addition, FormColumn
<1>3. placed \in Seq(Addition)
  <2>1. placed = [i \in 1..Len(cols) |-> placed[i]]
    BY <1>1
  <2> HIDE DEF placed
  <2> QED
    BY <1>1, <1>2, <2>1
<1>4. Additions(o, cols) = Kept(placed, {p \in ToSet(placed) : p.col.id \notin IdsOf(o.cols)})
  BY DEF Additions
<1> HIDE DEF placed
<1> QED
  BY <1>3, <1>4, KeptIs

(* The statement of the form is one the server knows. *)
LEMMA Generated ==
  ASSUME FormInv, NEW table \in Tables \cup {Null}, generateSql(table).kind # "none"
  PROVE  /\ StatementShape(generateSql(table))
         /\ table # Null => /\ baseline # Null
                            /\ generateSql(table) = generateAlterTable(table, baseline, form)
<1> DEFINE cols == Named(form.cols)
<1>1. /\ FormShape(form) /\ form.cols \in Seq(FormColumn) /\ form.name \in Tables \cup {NoName}
      /\ KeyColumns(form) \in Seq(AnyName)
  BY FormKey, FormCols DEF FormInv, FormShape, FormType
<1>2. cols \in Seq(FormColumn)
  BY <1>1, KeptIs DEF Named
<1> HIDE DEF cols
<1>3. DOMAIN cols = 1..Len(cols) /\ Len(cols) \in Nat /\ \A i \in 1..Len(cols) : cols[i] \in FormColumn
  BY <1>2
<1>4. CASE table = Null
  <2> DEFINE adds == [i \in DOMAIN cols |-> [col |-> cols[i], after |-> Null]]
  <2>1. adds \in Seq(Addition)
    BY <1>3 DEF Addition
  <2>2. generateSql(table) = IF form.name = NoName \/ form.cols = <<>> THEN NothingToDo
                             ELSE [NothingToDo EXCEPT !.kind = "create", !.table = form.name,
                                                      !.addKey = KeyColumns(form), !.adds = adds]
    BY <1>4 DEF generateSql, generateCreateTable, cols
  <2> HIDE DEF adds
  <2>3. generateSql(table) # NothingToDo
    BY DEF NothingToDo
  <2>4. /\ form.name # NoName
        /\ generateSql(table) = [kind |-> "create", table |-> form.name, to |-> Null, drops |-> {}, changes |-> {},
                                 adds |-> adds, dropKey |-> FALSE, addKey |-> KeyColumns(form)]
    BY <2>2, <2>3 DEF NothingToDo
  <2> DEFINE s == generateSql(table)
  <2> HIDE DEF s
  <2>5. /\ s.kind = "create" /\ s.table = form.name /\ s.to = Null /\ s.changes = {}
        /\ s.adds = adds /\ s.addKey = KeyColumns(form)
    BY <2>4 DEF s
  <2>6. StatementShape(s)
    BY <1>1, <2>1, <2>4, <2>5 DEF StatementShape
  <2> QED
    BY <1>4, <2>6 DEF s
<1>5. CASE table # Null
  <2> DEFINE s == Clauses(table, baseline, form)
  <2>1. /\ baseline # Null /\ generateSql(table) = generateAlterTable(table, baseline, form)
        /\ generateSql(table) = s
    BY <1>5 DEF generateSql, generateAlterTable, NothingToDo
  <2>2. /\ s.kind = "alter" /\ s.table = table
        /\ s.to = IF form.name \notin {baseline.name, NoName} THEN form.name ELSE Null
        /\ s.adds = Additions(baseline, cols)
        /\ s.addKey = KeyClauses(baseline, form).add
        /\ \A c \in s.changes : c.new \in ToSet(cols)
    BY DEF Clauses, cols
  <2> HIDE DEF s
  <2>3. s.adds \in Seq(Addition)
    BY <1>2, <2>2, AdditionsTyped
  <2>4. \A c \in s.changes : c.new \in FormColumn
    BY <1>2, <1>3, <2>2, ElementsOf
  <2>5. s.addKey \in Seq(AnyName)
    <3>1. KeyClauses(baseline, form).add \in {form.key.cols, <<>>} /\ (KeyClauses(baseline, form).add # <<>> => form.key # Null)
      BY DEF KeyClauses
    <3>2. form.key # Null => form.key.cols \in Seq(AnyName)
      BY <1>1, FormKey
    <3>3. <<>> \in Seq(AnyName)
      OBVIOUS
    <3> DEFINE k == KeyClauses(baseline, form).add
    <3> HIDE DEF k
    <3>4. k \in Seq(AnyName)
      BY <3>1, <3>2, <3>3 DEF k
    <3> QED
      BY <2>2, <3>4 DEF k
  <2>6. s.to \in Tables \cup {Null}
    BY <1>1, <2>2
  <2> QED
    BY <1>5, <2>1, <2>2, <2>3, <2>4, <2>5, <2>6 DEF StatementShape
<1> QED
  BY <1>4, <1>5

(* The columns of a form, of which no id is beyond n. *)
ColumnsShape(cols, n) ==
  cols \in Seq(FormColumn) /\ UniqueIds(cols) /\ \A i \in 1..Len(cols) : cols[i].id <= n

LEMMA KeepsShape ==
  ASSUME FormInv
  PROVE  /\ ColumnsShape(form.cols, ids) /\ ids \in Nat /\ DOMAIN form.cols = 1..Len(form.cols)
         /\ form = [name |-> form.name, cols |-> form.cols, key |-> form.key]
         /\ form.name \in Tables \cup {NoName} /\ form.key \in KeyType \cup {Null}
         /\ form.key # Null => form.key.cols # <<>>
BY FormCols DEF FormInv, FormShape, FormType, ColumnsShape, UniqueIds

LEMMA MadeOf ==
  ASSUME NEW n, NEW cols, ColumnsShape(cols, n), NEW name \in Tables \cup {NoName}, NEW key \in KeyType \cup {Null},
         key # Null => key.cols # <<>>
  PROVE  LET f == [name |-> name, cols |-> cols, key |-> key]
         IN  FormShape(f) /\ \A i \in DOMAIN f.cols : f.cols[i].id <= n
<1>1. DOMAIN cols = 1..Len(cols)
  BY DEF ColumnsShape
<1> QED
  BY <1>1 DEF FormShape, FormType, ColumnsShape, UniqueIds

(* An edit leaves a form. *)
LEMMA EditedForm ==
  ASSUME FormInv, NEW cols, NEW n \in Nat, ColumnsShape(cols, n), NEW name \in Tables \cup {NoName},
         NEW key \in KeyType \cup {Null}, key # Null => key.cols # <<>>,
         form' = [name |-> name, cols |-> cols, key |-> key], ids' = n,
         baseline' = baseline, from' = from, flags' = flags
  PROVE  FormInv'
BY MadeOf DEF FormInv

LEMMA ReplacedColumn ==
  ASSUME NEW n, NEW cols, ColumnsShape(cols, n), NEW i \in 1..Len(cols), NEW c \in FormColumn, c.id = cols[i].id
  PROVE  ColumnsShape([cols EXCEPT ![i] = c], n)
<1> DEFINE d == [cols EXCEPT ![i] = c]
<1>1. d \in Seq(FormColumn) /\ Len(d) = Len(cols) /\ DOMAIN d = DOMAIN cols /\ DOMAIN cols = 1..Len(cols)
  BY DEF ColumnsShape
<1>2. \A j \in 1..Len(cols) : d[j].id = cols[j].id
  BY DEF ColumnsShape
<1> HIDE DEF d
<1>3. ColumnsShape(d, n)
  BY <1>1, <1>2 DEF ColumnsShape, UniqueIds
<1> QED
  BY <1>3 DEF d

LEMMA AppendedColumn ==
  ASSUME NEW n \in Nat, NEW cols, ColumnsShape(cols, n)
  PROVE  ColumnsShape(Append(cols, newColumn(n + 1)), n + 1)
<1> DEFINE c == newColumn(n + 1)  d == Append(cols, c)
<1>1. c \in FormColumn /\ c.id = n + 1
  BY DEF newColumn, Column, FormColumn, AnyName
<1> HIDE DEF c
<1>2. /\ cols \in Seq(FormColumn) /\ Len(cols) \in Nat
      /\ \A i \in 1..Len(cols) : cols[i].id \in Nat /\ cols[i].id <= n
  <2>1. cols \in Seq(FormColumn) /\ \A i \in 1..Len(cols) : cols[i].id <= n
    BY DEF ColumnsShape
  <2>2. Len(cols) \in Nat /\ \A i \in 1..Len(cols) : cols[i] \in FormColumn
    BY <2>1
  <2>3. \A c1 \in FormColumn : c1.id \in Nat
    BY DEF FormColumn
  <2> QED
    BY <2>1, <2>2, <2>3
<1>3. d \in Seq(FormColumn) /\ Len(d) = Len(cols) + 1 /\ d[Len(cols) + 1] = c
  BY <1>1, <1>2
<1>4. \A i \in 1..Len(cols) : d[i] = cols[i]
  BY <1>1, <1>2
<1> HIDE DEF d
<1>5. \A i \in 1..Len(d) : i = Len(cols) + 1 \/ i \in 1..Len(cols)
  BY <1>2, <1>3
<1>6. \A i \in 1..Len(d) : d[i].id <= n + 1 /\ (i \in 1..Len(cols) => d[i].id = cols[i].id)
  BY <1>1, <1>2, <1>3, <1>4, <1>5
<1>7. ASSUME NEW i \in 1..Len(d), NEW j \in 1..Len(d), d[i].id = d[j].id PROVE i = j
  <2>1. CASE i \in 1..Len(cols) /\ j \in 1..Len(cols)
    <3>1. DOMAIN cols = 1..Len(cols) /\ cols[i].id = cols[j].id
      BY <1>2, <1>6, <1>7, <2>1
    <3> QED
      BY <2>1, <3>1 DEF ColumnsShape, UniqueIds
  <2>2. CASE i = Len(cols) + 1 /\ j # i
    <3>1. d[i].id = n + 1 /\ j \in 1..Len(cols)
      BY <1>1, <1>3, <1>5, <2>2
    <3>2. d[j].id \in Nat /\ d[j].id <= n
      BY <1>2, <1>6, <3>1
    <3> QED
      BY <1>7, <3>1, <3>2
  <2>3. CASE j = Len(cols) + 1 /\ j # i
    <3>1. d[j].id = n + 1 /\ i \in 1..Len(cols)
      BY <1>1, <1>3, <1>5, <2>3
    <3>2. d[i].id \in Nat /\ d[i].id <= n
      BY <1>2, <1>6, <3>1
    <3> QED
      BY <1>7, <3>1, <3>2
  <2> QED
    BY <1>5, <2>1, <2>2, <2>3
<1>8. DOMAIN d = 1..Len(d)
  BY <1>3
<1>9. ColumnsShape(d, n + 1)
  BY <1>3, <1>6, <1>7, <1>8 DEF ColumnsShape, UniqueIds
<1> QED
  BY <1>9 DEF d, c

LEMMA RemovedColumn ==
  ASSUME NEW n, NEW cols, ColumnsShape(cols, n), NEW i \in 1..Len(cols)
  PROVE  ColumnsShape(RemoveAt(cols, i), n)
<1> DEFINE d == RemoveAt(cols, i)
<1>1. cols \in Seq(FormColumn) /\ Len(cols) \in Nat /\ DOMAIN cols = 1..Len(cols)
  BY DEF ColumnsShape
<1>2. /\ d \in Seq(FormColumn) /\ Len(d) = Len(cols) - 1
      /\ \A j \in 1..(Len(cols) - 1) : d[j] = IF j < i THEN cols[j] ELSE cols[j + 1]
  BY <1>1, RemoveIs
<1> HIDE DEF d
<1> DEFINE g == [j \in 1..Len(d) |-> IF j < i THEN j ELSE j + 1]
<1>3. \A j \in 1..Len(d) : d[j] = cols[g[j]] /\ g[j] \in 1..Len(cols)
  <2> SUFFICES ASSUME NEW j \in 1..Len(d) PROVE d[j] = cols[g[j]] /\ g[j] \in 1..Len(cols)
    OBVIOUS
  <2>1. j \in 1..(Len(cols) - 1)
    BY <1>1, <1>2
  <2> QED
    BY <1>1, <1>2, <2>1
<1>4. \A j, k \in 1..Len(d) : g[j] = g[k] => j = k
  BY <1>1, <1>2
<1> HIDE DEF g
<1>5. DOMAIN d = 1..Len(d)
  BY <1>2
<1>6. ASSUME NEW j \in 1..Len(d), NEW k \in 1..Len(d), d[j].id = d[k].id PROVE j = k
  <2>1. g[j] = g[k]
    BY <1>1, <1>3, <1>6 DEF ColumnsShape, UniqueIds
  <2> QED
    BY <1>4, <2>1
<1>7. \A j \in 1..Len(d) : d[j].id <= n
  BY <1>3 DEF ColumnsShape
<1>8. ColumnsShape(d, n)
  BY <1>2, <1>5, <1>6, <1>7 DEF ColumnsShape, UniqueIds
<1> QED
  BY <1>8 DEF d

(* A column the form has none with the id of. *)
IsNew(c, cols, n) == c \in FormColumn /\ c.id <= n /\ \A i \in 1..Len(cols) : cols[i].id # c.id

LEMMA InsertedColumn ==
  ASSUME NEW n, NEW cols, ColumnsShape(cols, n), NEW x \in 1..(Len(cols) + 1), NEW c, IsNew(c, cols, n)
  PROVE  ColumnsShape(InsertAt(cols, x, c), n)
<1> DEFINE d == InsertAt(cols, x, c)
<1>1. cols \in Seq(FormColumn) /\ Len(cols) \in Nat /\ DOMAIN cols = 1..Len(cols)
  BY DEF ColumnsShape
<1>2. d \in Seq(FormColumn) /\ Inserted(d, cols, x, c)
  <2>1. c \in FormColumn
    BY DEF IsNew
  <2> QED
    BY <1>1, <2>1, InsertIs
<1> HIDE DEF d
<1>2a. Len(d) = Len(cols) + 1 /\ \A j \in 1..(Len(cols) + 1) : d[j] = IF j < x THEN cols[j] ELSE IF j = x THEN c ELSE cols[j - 1]
  BY <1>2 DEF Inserted
<1> DEFINE g == [j \in 1..Len(d) |-> IF j < x THEN j ELSE j - 1]
<1>3. \A j \in 1..Len(d) : IF j = x THEN d[j] = c ELSE d[j] = cols[g[j]] /\ g[j] \in 1..Len(cols)
  <2> SUFFICES ASSUME NEW j \in 1..Len(d)
               PROVE  IF j = x THEN d[j] = c ELSE d[j] = cols[g[j]] /\ g[j] \in 1..Len(cols)
    OBVIOUS
  <2>1. j \in 1..(Len(cols) + 1)
    BY <1>1, <1>2a
  <2> QED
    BY <1>1, <1>2a, <2>1
<1>4. \A j, k \in 1..Len(d) : j # x /\ k # x /\ g[j] = g[k] => j = k
  BY <1>1, <1>2a
<1> HIDE DEF g
<1>5. DOMAIN d = 1..Len(d)
  BY <1>2
<1>6. ASSUME NEW j \in 1..Len(d), NEW k \in 1..Len(d), d[j].id = d[k].id PROVE j = k
  <2>1. CASE j # x /\ k # x
    BY <1>1, <1>3, <1>4, <1>6, <2>1 DEF ColumnsShape, UniqueIds
  <2>2. CASE j = x \/ k = x
    BY <1>3, <1>6, <2>2 DEF IsNew
  <2> QED
    BY <2>1, <2>2
<1>7. \A j \in 1..Len(d) : d[j].id <= n
  BY <1>3 DEF ColumnsShape, IsNew
<1>8. ColumnsShape(d, n)
  BY <1>2, <1>5, <1>6, <1>7 DEF ColumnsShape, UniqueIds
<1> QED
  BY <1>8 DEF d

LEMMA LaterIds ==
  ASSUME NEW n \in Nat, NEW cols, ColumnsShape(cols, n)
  PROVE  ColumnsShape(cols, n + 1)
<1>1. \A i \in 1..Len(cols) : cols[i].id \in Nat /\ cols[i].id <= n
  <2>1. cols \in Seq(FormColumn) /\ \A i \in 1..Len(cols) : cols[i].id <= n
    BY DEF ColumnsShape
  <2>2. \A i \in 1..Len(cols) : cols[i] \in FormColumn
    BY <2>1
  <2> QED
    BY <2>1, <2>2 DEF FormColumn
<1>2. \A i \in 1..Len(cols) : cols[i].id <= n + 1
  BY <1>1
<1> QED
  BY <1>2 DEF ColumnsShape

LEMMA KeyedColumns ==
  ASSUME NEW n, NEW cols, ColumnsShape(cols, n), NEW name
  PROVE  ColumnsShape(WithKeyColumn(cols, name), n)
<1> DEFINE d == WithKeyColumn(cols, name)
<1>1. cols \in Seq(FormColumn) /\ Len(cols) \in Nat /\ DOMAIN cols = 1..Len(cols)
  BY DEF ColumnsShape
<1>2. \A i \in 1..Len(cols) : d[i] \in FormColumn /\ d[i].id = cols[i].id
  <2> SUFFICES ASSUME NEW i \in 1..Len(cols) PROVE d[i] \in FormColumn /\ d[i].id = cols[i].id
    OBVIOUS
  <2>1. cols[i] \in FormColumn /\ i \in DOMAIN cols
    BY <1>1
  <2>2. d[i] = IF cols[i].name = name THEN [cols[i] EXCEPT !.nullable = FALSE] ELSE cols[i]
    BY <2>1 DEF WithKeyColumn
  <2>3. [cols[i] EXCEPT !.nullable = FALSE] \in FormColumn /\ [cols[i] EXCEPT !.nullable = FALSE].id = cols[i].id
    BY <2>1 DEF FormColumn
  <2> QED
    BY <2>1, <2>2, <2>3
<1>3. d = [i \in 1..Len(cols) |-> d[i]]
  BY <1>1 DEF WithKeyColumn
<1> HIDE DEF d
<1>4. d \in Seq(FormColumn) /\ Len(d) = Len(cols) /\ DOMAIN d = 1..Len(cols)
  BY <1>1, <1>2, <1>3
<1>5. ColumnsShape(d, n)
  BY <1>1, <1>2, <1>4 DEF ColumnsShape, UniqueIds
<1> QED
  BY <1>5 DEF d

(* What an edit leaves alone. *)
EditFrame == UNCHANGED <<server, shown, baseline, flags, store, reads, refReads, saves, confirming, from, astray>>

LEMMA ColumnsEdited ==
  ASSUME FormInv, NEW cols, NEW n \in Nat, ColumnsShape(cols, n), Edit(SetColumns(cols)), ids' = n
  PROVE  FormInv' /\ EditFrame
<1>1. form' = [form EXCEPT !.cols = cols] /\ EditFrame
  BY DEF Edit, SetColumns, EditFrame
<1>2. form' = [name |-> form.name, cols |-> cols, key |-> form.key]
  BY <1>1, KeepsShape, Zenon
<1>3. FormInv'
  BY <1>1, <1>2, KeepsShape, EditedForm DEF EditFrame
<1> QED
  BY <1>1, <1>3

LEMMA ReplaceStep ==
  ASSUME FormInv, NEW i \in DOMAIN form.cols, NEW c \in FormColumn, c.id = form.cols[i].id,
         Edit(SetColumns([form.cols EXCEPT ![i] = c])), ids' = ids
  PROVE  FormInv' /\ EditFrame
<1>1. ColumnsShape([form.cols EXCEPT ![i] = c], ids) /\ ids \in Nat
  BY KeepsShape, ReplacedColumn
<1> QED
  BY <1>1, ColumnsEdited

LEMMA TogglePrimaryKeyStep ==
  ASSUME FormInv, NEW name \in NamesOf(form.cols), togglePrimaryKey(name)
  PROVE  FormInv' /\ EditFrame
<1> DEFINE inKey == name \in ToSet(KeyColumns(form))
           kept == IF inKey THEN Kept(KeyColumns(form), ToSet(KeyColumns(form)) \ {name})
                   ELSE Append(KeyColumns(form), name)
           id == IF form.key = Null THEN ids + 1 ELSE form.key.id
           key == IF kept = <<>> THEN Null ELSE [id |-> id, cols |-> kept]
           cols == IF inKey THEN form.cols ELSE WithKeyColumn(form.cols, name)
           n == IF form.key = Null THEN ids + 1 ELSE ids
<1>1. ids \in Nat /\ ColumnsShape(form.cols, ids) /\ form.key \in KeyType \cup {Null}
  BY KeepsShape
<1>2. EditFrame /\ ids' = n
  BY DEF togglePrimaryKey, Edit, EditFrame
<1>3. form' = [form EXCEPT !.cols = cols, !.key = key]
  BY DEF togglePrimaryKey, Edit
<1>4. n \in Nat /\ ColumnsShape(form.cols, n)
  BY <1>1, LaterIds
<1>5. ColumnsShape(cols, n)
  BY <1>4, KeyedColumns
<1>6. kept \in Seq(AnyName)
  <2>1. KeyColumns(form) \in Seq(AnyName)
    BY FormKey DEF FormInv
  <2>2. name \in AnyName
    <3>1. \E i \in 1..Len(form.cols) : form.cols[i].name = name
      BY FormSets DEF FormInv
    <3> QED
      BY <3>1, FormCols DEF FormInv
  <2>3. Kept(KeyColumns(form), ToSet(KeyColumns(form)) \ {name}) \in Seq(AnyName)
    BY <2>1, KeptIs
  <2>4. Append(KeyColumns(form), name) \in Seq(AnyName)
    BY <2>1, <2>2
  <2> QED
    BY <2>3, <2>4
<1>7. id \in Nat
  BY <1>1 DEF KeyType
<1> HIDE DEF kept, id, cols, n
<1>8. key \in KeyType \cup {Null} /\ (key # Null => key.cols # <<>>)
  BY <1>6, <1>7 DEF KeyType
<1> HIDE DEF key
<1>9. form' = [name |-> form.name, cols |-> cols, key |-> key]
  BY <1>3, KeepsShape, Zenon
<1>10. form.name \in Tables \cup {NoName} /\ baseline' = baseline /\ from' = from /\ flags' = flags
  BY <1>2, KeepsShape DEF EditFrame
<1> QED
  BY <1>2, <1>4, <1>5, <1>8, <1>9, <1>10, EditedForm

LEMMA EditFormForm == ASSUME FormInv, EditForm PROVE FormInv' /\ EditFrame
<1>1. /\ ColumnsShape(form.cols, ids) /\ ids \in Nat /\ DOMAIN form.cols = 1..Len(form.cols)
      /\ \A i \in 1..Len(form.cols) : form.cols[i] \in FormColumn
  BY KeepsShape, FormCols DEF FormInv
<1>2. ASSUME NEW i \in DOMAIN form.cols, NEW n \in Names \cup {NoName}, RenameColumn(i, n) PROVE FormInv' /\ EditFrame
  <2> DEFINE c == [form.cols[i] EXCEPT !.name = n]
  <2>1. c \in FormColumn /\ c.id = form.cols[i].id
    BY <1>1 DEF FormColumn, AnyName
  <2>2. Edit(SetColumns([form.cols EXCEPT ![i] = c])) /\ ids' = ids
    BY <1>2 DEF RenameColumn, updateColumn
  <2> HIDE DEF c
  <2> QED
    BY <2>1, <2>2, ReplaceStep
<1>3. ASSUME NEW i \in DOMAIN form.cols, ToggleNullable(i) PROVE FormInv' /\ EditFrame
  <2> DEFINE c == [form.cols[i] EXCEPT !.nullable = ~@]
  <2>1. c \in FormColumn /\ c.id = form.cols[i].id
    BY <1>1 DEF FormColumn
  <2>2. Edit(SetColumns([form.cols EXCEPT ![i] = c])) /\ ids' = ids
    BY <1>3 DEF ToggleNullable, updateColumn
  <2> HIDE DEF c
  <2> QED
    BY <2>1, <2>2, ReplaceStep
<1>4. ASSUME addColumn PROVE FormInv' /\ EditFrame
  <2>1. ColumnsShape(Append(form.cols, newColumn(ids + 1)), ids + 1) /\ ids + 1 \in Nat
    BY <1>1, AppendedColumn
  <2> QED
    BY <1>4, <2>1, ColumnsEdited DEF addColumn
<1>5. ASSUME NEW i \in DOMAIN form.cols, removeColumn(i) PROVE FormInv' /\ EditFrame
  BY <1>1, <1>5, RemovedColumn, ColumnsEdited DEF removeColumn
<1>6. ASSUME NEW i \in DOMAIN form.cols, NEW j \in DOMAIN form.cols, DragColumn(i, j) PROVE FormInv' /\ EditFrame
  <2> DEFINE c == form.cols[i]  rest == RemoveAt(form.cols, i)
  <2>1. ColumnsShape(rest, ids)
    BY <1>1, RemovedColumn
  <2>2. /\ Len(rest) = Len(form.cols) - 1
        /\ \A k \in 1..(Len(form.cols) - 1) : rest[k] = IF k < i THEN form.cols[k] ELSE form.cols[k + 1]
    BY <1>1, RemoveIs DEF ColumnsShape
  <2>3. c \in FormColumn /\ c.id <= ids
    BY <1>1 DEF ColumnsShape
  <2>4. j \in 1..(Len(rest) + 1)
    BY <1>1, <2>2 DEF ColumnsShape
  <2>5. \A k \in 1..Len(rest) : rest[k].id # c.id
    <3> SUFFICES ASSUME NEW k \in 1..Len(rest), rest[k].id = c.id PROVE FALSE
      OBVIOUS
    <3> DEFINE l == IF k < i THEN k ELSE k + 1
    <3>1. l \in 1..Len(form.cols) /\ l # i /\ rest[k] = form.cols[l]
      BY <1>1, <2>2 DEF ColumnsShape
    <3> QED
      BY <1>1, <3>1 DEF ColumnsShape, UniqueIds
  <2>6. Edit(SetColumns(InsertAt(rest, j, c))) /\ ids' = ids
    BY <1>6 DEF DragColumn
  <2> HIDE DEF c, rest
  <2>7. ColumnsShape(InsertAt(rest, j, c), ids)
    <3>1. IsNew(c, rest, ids)
      BY <2>3, <2>5 DEF IsNew
    <3> QED
      BY <2>1, <2>4, <3>1, InsertedColumn
  <2> QED
    BY <1>1, <2>6, <2>7, ColumnsEdited
<1>7. ASSUME removeIndex PROVE FormInv' /\ EditFrame
  <2>1. form' = [form EXCEPT !.key = Null] /\ ids' = ids /\ EditFrame
    BY <1>7 DEF removeIndex, Edit, EditFrame
  <2>2. form' = [name |-> form.name, cols |-> form.cols, key |-> Null]
    BY <2>1, KeepsShape, Zenon
  <2>3. form.name \in Tables \cup {NoName} /\ baseline' = baseline /\ from' = from /\ flags' = flags
    BY <2>1, KeepsShape DEF EditFrame
  <2>4. FormInv'
    BY <1>1, <2>1, <2>2, <2>3, EditedForm
  <2> QED
    BY <2>1, <2>4
<1>8. ASSUME NEW t \in Tables \cup {NoName}, SetTableName(t) PROVE FormInv' /\ EditFrame
  <2>1. form' = [form EXCEPT !.name = t] /\ ids' = ids /\ EditFrame
    BY <1>8 DEF SetTableName, Edit, EditFrame
  <2>2. form' = [name |-> t, cols |-> form.cols, key |-> form.key]
    BY <2>1, KeepsShape, Zenon
  <2>3. /\ form.key \in KeyType \cup {Null} /\ (form.key # Null => form.key.cols # <<>>)
        /\ baseline' = baseline /\ from' = from /\ flags' = flags
    BY <2>1, KeepsShape DEF EditFrame
  <2>4. FormInv'
    BY <1>1, <2>1, <2>2, <2>3, EditedForm
  <2> QED
    BY <2>1, <2>4
<1> QED
  BY <1>2, <1>3, <1>4, <1>5, <1>6, <1>7, <1>8, TogglePrimaryKeyStep DEF EditForm

(***************************************************************************)
(* The baseline is what the server has, whatever is on its way: reads that *)
(* a statement overtook, saves of this form or of one it was before, and   *)
(* the answers of both.                                                    *)
(***************************************************************************)
(* A save, of which the rest has no type. *)
SaveShape(v) ==
  /\ v \in [view : {v.view}, stmt : {v.stmt}, config : {v.config}, alter : {v.alter}, from : {v.from},
            leftOut : {v.leftOut}, answer : {v.answer}, n : {v.n}]
  /\ FormShape(v.config) /\ StatementShape(v.stmt) /\ v.from \in LoadType \cup {Null}
SavesInv ==
  /\ \A v \in saves : SaveShape(v)
  /\ confirming # Null => StatementShape(confirming.stmt)

(* A part that was read is what the table still has, unless a statement came
   in between. *)
PartInv(r, x, S, now) ==
  x # Null => /\ x.failed \in BOOLEAN
              /\ ~x.failed => x.value \in Seq(S) /\ (~r.moved => server[r.table] # Null /\ x.value = now)
ReadInv(r) ==
  /\ r.table \in Tables /\ r.moved \in BOOLEAN
  /\ PartInv(r, r.columns, Stored, server[r.table].cols)
  /\ PartInv(r, r.indexes, AnyName, server[r.table].pk)
ReadsInv == \A r \in reads : ReadInv(r)

(* No read has the token of another, or of the load a form or a save is of. *)
KnownLoads == ({from} \cup {v.from : v \in saves}) \ {Null}
LoadsInv ==
  /\ \A q, r \in reads : q.token = r.token => q = r
  /\ \A l \in KnownLoads : l.token <= store.counter /\ \A r \in reads : r.token # l.token

(* The read still waited for is of the component shown, and the saves of the
   form are. *)
LinksInv ==
  /\ \A r \in reads : IsLatest(store, r) => shown # Null /\ r.kind = shown.kind
  /\ from # Null => shown # Null /\ \A v \in saves : v.from = from => v.view = shown.view

Settled == IsDesigner /\ shown.table # Null /\ ~Loading /\ ~flags.loadError

(* The saves of the form as it was loaded, and what is known of each. *)
Mine == {v \in saves : v.from = from}
SaveInv(v) ==
  /\ v.alter /\ v.stmt = generateAlterTable(from.table, baseline, v.config)
  /\ v.leftOut = {} => WellFormed(baseline, v.config) /\ v.config.name = baseline.name

(* The baseline is what the server has, until a save of the form is done; then
   it is what the save made. *)
Faithful ==
  /\ \A v, w \in Mine : v = w
  /\ \A v \in Mine : SaveInv(v)
  /\ (\A v \in Mine : v.answer # "done") => server[from.table] = Content(baseline)
  /\ \A v \in Mine : v.answer = "done" /\ v.leftOut = {} => server[from.table] = Content(v.config)

SettledInv ==
  Settled => /\ baseline # Null /\ from # Null
             /\ from.table = shown.table /\ astray = {} => Faithful

DInv == ServerInv /\ FormInv /\ SavesInv /\ ReadsInv /\ LoadsInv /\ LinksInv /\ SettledInv
(* What a step that leaves the server and what is on its way alone keeps. *)
LEMMA SameSettled ==
  ASSUME SettledInv, Settled' => Settled, shown' = shown, UNCHANGED <<server, saves, baseline, from, astray>>
  PROVE  SettledInv'
BY DEF SettledInv, Faithful, Mine, SaveInv

LEMMA EditFormKeeps == ASSUME DInv, EditForm PROVE DInv'
<1>1. FormInv' /\ EditFrame
  BY EditFormForm DEF DInv
<1>2. ServerInv' /\ SavesInv' /\ ReadsInv' /\ LoadsInv' /\ LinksInv'
  BY <1>1 DEF EditFrame, DInv, ServerInv, SavesInv, ReadsInv, ReadInv, PartInv, LoadsInv, KnownLoads, LinksInv, IsLatest
<1>3. SettledInv'
  BY <1>1, SameSettled DEF EditFrame, DInv, Settled, IsDesigner, Loading
<1> QED
  BY <1>1, <1>2, <1>3 DEF DInv

(* The preview opens or closes, the dialog is declined. *)
LEMMA PreviewKeeps ==
  ASSUME DInv, OpenPreview \/ ClosePreview \/ Decline PROVE DInv'
<1>1. /\ UNCHANGED <<server, shown, form, baseline, store, reads, saves, ids, from, astray>>
      /\ confirming' \in {confirming, Null}
      /\ flags' = flags \/ flags' = [flags EXCEPT !.preview = TRUE] \/ flags' = [flags EXCEPT !.preview = FALSE]
  BY DEF OpenPreview, ClosePreview, Decline
<1>2. flags' \in FlagsType /\ flags'.loadError = flags.loadError
  BY <1>1 DEF DInv, FormInv, FlagsType
<1>3. FormInv'
  BY <1>1, <1>2 DEF DInv, FormInv
<1>4. ServerInv' /\ SavesInv' /\ ReadsInv' /\ LoadsInv' /\ LinksInv'
  BY <1>1 DEF DInv, ServerInv, SavesInv, ReadsInv, ReadInv, PartInv, LoadsInv, KnownLoads, LinksInv, IsLatest
<1>5. SettledInv'
  BY <1>1, <1>2, SameSettled DEF DInv, Settled, IsDesigner, Loading
<1> QED
  BY <1>3, <1>4, <1>5 DEF DInv

(* The references of a view change its store, and nothing the form is read from. *)
LEMMA ReferencesKeep ==
  ASSUME DInv, StoreShape(store), StoreShape(store'), store'.counter >= store.counter,
         store'.details = store.details, store'.latestRead = store.latestRead,
         UNCHANGED <<server, shown, form, baseline, flags, reads, saves, confirming, ids, from, astray>>
  PROVE  DInv'
<1>1. FormInv' /\ ServerInv' /\ SavesInv' /\ ReadsInv' /\ LinksInv'
  BY DEF DInv, FormInv, ServerInv, SavesInv, ReadsInv, ReadInv, PartInv, LinksInv, IsLatest
<1>2. LoadsInv'
  <2>1. \A l \in KnownLoads : l.token \in Nat
    BY DEF KnownLoads, DInv, FormInv, SavesInv, SaveShape, LoadType
  <2>2. store.counter \in Nat /\ store'.counter \in Nat
    BY DEF StoreShape
  <2> QED
    BY <2>1, <2>2 DEF DInv, LoadsInv, KnownLoads
<1>3. SettledInv'
  BY SameSettled DEF DInv, Settled, IsDesigner, Loading
<1> QED
  BY <1>1, <1>2, <1>3 DEF DInv

LEMMA LoadReferenceColumnsKeeps == ASSUME IInv, DInv, NEW table, LoadReferenceColumns(table) PROVE DInv'
<1> DEFINE s == WithGeneration(store, shown.view)
<1>1. /\ store' = s
      /\ UNCHANGED <<server, shown, form, baseline, flags, reads, saves, confirming, ids, from, astray>>
  BY DEF LoadReferenceColumns
<1>2. /\ StoreShape(s) /\ s.counter \in {store.counter, store.counter + 1}
      /\ s.details = store.details /\ s.latestRead = store.latestRead
  BY Known, GenerationStore
<1> HIDE DEF s
<1>3. s.counter >= store.counter /\ StoreShape(store)
  BY <1>2, Known
<1> QED
  BY <1>1, <1>2, <1>3, ReferencesKeep

LEMMA AnswerReferenceKeeps == ASSUME IInv, DInv, NEW r, NEW ok, AnswerReference(r, ok) PROVE DInv'
<1> DEFINE s == IF ok THEN PutReferences(store, r) ELSE store
<1>1. /\ store' = s
      /\ UNCHANGED <<server, shown, form, baseline, flags, reads, saves, confirming, ids, from, astray>>
  BY DEF AnswerReference
<1>2. /\ StoreShape(s) /\ s.counter = store.counter
      /\ s.details = store.details /\ s.latestRead = store.latestRead
  BY Known, PutReferencesStore
<1> HIDE DEF s
<1>3. s.counter >= store.counter /\ StoreShape(store)
  BY <1>2, Known
<1> QED
  BY <1>1, <1>2, <1>3, ReferencesKeep

(* A read is begun for the component shown: its token is of no other read and
   of no load, and the form is not settled. *)
LEMMA EffectsKeep ==
  ASSUME IInv, DInv, NEW s, StoreShape(s), s.counter >= store.counter,
         NEW view, NEW kind, NEW table \in Tables,
         ViewsOf(s) \subseteq {view}, Effects(s, kind, view, table),
         shown' \in Component, shown'.view = view, shown'.kind = kind, shown'.table = table,
         server' = server, saves' = saves, from' \in {from, Null},
         from' # Null => shown # Null /\ shown.view = view
  PROVE  ReadsInv' /\ LoadsInv' /\ LinksInv' /\ SettledInv'
<1> DEFINE t == StartRead(s, view)
           q == NewRead(t, kind, view, table)
<1>0. table # Null /\ shown' # Null
  BY DesignerAssumption, ComponentShown
<1>1. store' = t /\ reads' = reads \cup {q}
  BY <1>0 DEF Effects
<1>2. /\ StoreShape(t) /\ t.counter = s.counter + 1 /\ ViewsOf(t) = ViewsOf(s) \cup {view}
      /\ view \in DOMAIN t.details /\ t.details[view].loading = TRUE
      /\ DOMAIN t.latestRead = DOMAIN s.latestRead \cup {view} /\ t.latestRead[view] = s.counter + 1
  BY StartReadStore
<1> HIDE DEF t
<1>3. /\ q.view = view /\ q.token = t.counter /\ q.table = table /\ q.kind = kind
      /\ q.columns = Null /\ q.indexes = Null /\ q.moved = FALSE
  BY DEF NewRead
<1> HIDE DEF q
<1>4. s.counter \in Nat /\ store.counter \in Nat /\ t.counter \in Nat
  BY <1>2 DEF StoreShape, IInv, Shapes
<1>5. \A r \in reads : r.token \in Nat /\ r.token < t.counter
  <2>1. \A r \in reads : r.token \in Nat /\ r.token <= store.counter
    BY DEF IInv, Shapes, ReadShape, TokenInv
  <2> QED
    BY <2>1, <1>2, <1>4
<1>6. \A l \in KnownLoads : l.token < t.counter /\ \A r \in reads : r.token # l.token
  <2>1. \A l \in KnownLoads : l.token \in Nat
    BY DEF KnownLoads, DInv, FormInv, SavesInv, SaveShape, LoadType
  <2>2. \A l \in KnownLoads : l.token <= store.counter /\ \A r \in reads : r.token # l.token
    BY DEF DInv, LoadsInv
  <2> QED
    BY <2>1, <2>2, <1>2, <1>4
<1>7. ReadsInv'
  <2>1. \A r \in reads : ReadInv(r)
    BY DEF DInv, ReadsInv
  <2>2. \A r \in reads : ReadInv(r)'
    BY <2>1 DEF ReadInv, PartInv
  <2>3. ReadInv(q)'
    BY <1>3 DEF ReadInv, PartInv
  <2> QED
    BY <1>1, <2>2, <2>3 DEF ReadsInv
<1>8. LoadsInv'
  <2>1. KnownLoads' \subseteq KnownLoads
    BY DEF KnownLoads
  <2>2. \A p, r \in reads : p.token = r.token => p = r
    BY DEF DInv, LoadsInv
  <2>3. \A l \in KnownLoads : l.token <= t.counter
    <3>1. \A l \in KnownLoads : l.token \in Nat
      BY DEF KnownLoads, DInv, FormInv, SavesInv, SaveShape, LoadType
    <3> QED
      BY <1>4, <1>6, <3>1
  <2>4. \A l \in KnownLoads : l.token # q.token
    <3>1. \A l \in KnownLoads : l.token \in Nat
      BY DEF KnownLoads, DInv, FormInv, SavesInv, SaveShape, LoadType
    <3> QED
      BY <1>3, <1>4, <1>6, <3>1
  <2>5. \A r \in reads : r.token # q.token
    BY <1>3, <1>4, <1>5
  <2> QED
    BY <1>1, <1>6, <2>1, <2>2, <2>3, <2>4, <2>5 DEF LoadsInv
<1>9. LinksInv'
  <2>1. \A r \in reads : ~IsLatest(t, r)
    <3> SUFFICES ASSUME NEW r \in reads, IsLatest(t, r) PROVE FALSE
      OBVIOUS
    <3>1. r.view \in DOMAIN t.latestRead /\ t.latestRead[r.view] = r.token
      BY DEF IsLatest
    <3>2. r.view = view
      BY <3>1, <1>2 DEF ViewsOf
    <3> QED
      BY <3>1, <3>2, <1>2, <1>4, <1>5
  <2>2. from' # Null => \A v \in saves : v.from = from' => v.view = view
    BY DEF DInv, LinksInv
  <2> QED
    BY <1>0, <1>1, <1>3, <2>1, <2>2 DEF LinksInv
<1>10. ~Settled'
  BY <1>0, <1>1, <1>2 DEF Settled, Loading
<1> QED
  BY <1>7, <1>8, <1>9, <1>10 DEF SettledInv

(* A component of a table that is not there yet: nothing is read, and the form
   is not settled. *)
LEMMA NoTableKeeps ==
  ASSUME IInv, DInv, StoreShape(store'), store'.counter >= store.counter,
         reads' = reads, server' = server, saves' = saves, from' \in {from, Null},
         \A r \in reads : IsLatest(store', r) => IsLatest(store, r) /\ shown' # Null /\ shown'.kind = shown.kind,
         from' # Null => shown # Null /\ shown' # Null /\ shown'.view = shown.view,
         shown' # Null => shown'.table = Null
  PROVE  ReadsInv' /\ LoadsInv' /\ LinksInv' /\ SettledInv'
<1>1. ReadsInv'
  BY DEF DInv, ReadsInv, ReadInv, PartInv
<1>2. LoadsInv'
  <2>1. \A l \in KnownLoads : l.token \in Nat
    BY DEF KnownLoads, DInv, FormInv, SavesInv, SaveShape, LoadType
  <2>2. store.counter \in Nat /\ store'.counter \in Nat
    BY DEF StoreShape, IInv, Shapes
  <2>3. KnownLoads' \subseteq KnownLoads
    BY DEF KnownLoads
  <2>4. \A l \in KnownLoads : l.token <= store.counter /\ \A r \in reads : r.token # l.token
    BY DEF DInv, LoadsInv
  <2>5. \A l \in KnownLoads : l.token <= store'.counter
    BY <2>1, <2>2, <2>4
  <2> QED
    BY <2>3, <2>4, <2>5 DEF DInv, LoadsInv
<1>3. LinksInv'
  BY DEF DInv, LinksInv
<1>4. SettledInv'
  BY DEF SettledInv, Settled, IsDesigner
<1> QED
  BY <1>1, <1>2, <1>3, <1>4

LEMMA SwitchKeeps == ASSUME IInv, DInv, NEW table \in Openable \cup {Null}, Switch(table) PROVE DInv'
<1>1. /\ shown # Null /\ shown' = [shown EXCEPT !.table = table]
      /\ Effects(store, shown.kind, shown.view, table)
      /\ flags' = IF table = Null THEN flags ELSE [flags EXCEPT !.loadError = FALSE, !.warned = FALSE]
      /\ UNCHANGED <<server, form, baseline, saves, confirming, ids, from, astray>>
  BY DEF Switch
<1>2. shown' \in Component /\ shown'.view = shown.view /\ shown'.table = table /\ shown'.kind = shown.kind
  BY <1>1, Known DEF Component, Openable
<1>3. ServerInv' /\ SavesInv'
  BY <1>1 DEF DInv, ServerInv, SavesInv
<1>4. FormInv'
  <2>1. flags' \in FlagsType
    BY <1>1 DEF DInv, FormInv, FlagsType
  <2> QED
    BY <1>1, <2>1 DEF DInv, FormInv
<1>5. StoreShape(store) /\ ViewsOf(store) \subseteq {shown.view} /\ store.counter >= store.counter /\ shown' # Null
  BY <1>1, <1>2, Known, ComponentShown
<1>6. ReadsInv' /\ LoadsInv' /\ LinksInv' /\ SettledInv'
  <2>1. CASE table # Null
    <3>1. table \in Tables
      BY <2>1 DEF Openable
    <3> QED
      BY <1>1, <1>2, <1>5, <3>1, EffectsKeep
  <2>2. CASE table = Null
    <3>1. store' = store /\ reads' = reads
      BY <1>1, <2>2 DEF Effects
    <3>2. \A r \in reads : IsLatest(store', r) => IsLatest(store, r) /\ shown' # Null /\ shown'.kind = shown.kind
      BY <1>2, <1>5, <3>1
    <3> QED
      BY <1>1, <1>2, <1>5, <2>2, <3>1, <3>2, NoTableKeeps
  <2> QED
    BY <2>1, <2>2
<1> QED
  BY <1>3, <1>4, <1>6 DEF DInv

LEMMA RetryKeeps == ASSUME IInv, DInv, Retry PROVE DInv'
<1>1. /\ shown # Null /\ shown' = shown /\ shown.table # Null /\ shown.kind = "designer"
      /\ Effects(store, "designer", shown.view, shown.table)
      /\ flags' = [flags EXCEPT !.loadError = FALSE, !.warned = FALSE]
      /\ UNCHANGED <<server, form, baseline, saves, confirming, ids, from, astray>>
  BY DEF Retry, IsDesigner
<1>2. ServerInv' /\ SavesInv'
  BY <1>1 DEF DInv, ServerInv, SavesInv
<1>3. FormInv'
  <2>1. flags' \in FlagsType
    BY <1>1 DEF DInv, FormInv, FlagsType
  <2> QED
    BY <1>1, <2>1 DEF DInv, FormInv
<1>4. /\ StoreShape(store) /\ ViewsOf(store) \subseteq {shown.view} /\ store.counter >= store.counter
      /\ shown \in Component /\ shown.table \in Tables
  BY <1>1, Known DEF Component
<1>5. ReadsInv' /\ LoadsInv' /\ LinksInv' /\ SettledInv'
  BY <1>1, <1>4, EffectsKeep
<1> QED
  BY <1>2, <1>3, <1>5 DEF DInv

LEMMA BlankShape ==
  ASSUME NEW table \in Tables \cup {Null}, NEW n \in Nat
  PROVE  FormShape(BlankForm(table, n)) /\ \A i \in DOMAIN BlankForm(table, n).cols : BlankForm(table, n).cols[i].id <= n
<1> DEFINE cols == <<newColumn(n)>>
           name == IF table = Null THEN NoName ELSE table
<1>1. newColumn(n) \in FormColumn /\ newColumn(n).id = n
  BY DEF newColumn, Column, FormColumn, AnyName
<1>2. cols \in Seq(FormColumn) /\ Len(cols) = 1 /\ cols[1] = newColumn(n) /\ DOMAIN cols = {1}
  BY <1>1
<1> HIDE DEF cols
<1>3. ColumnsShape(cols, n)
  BY <1>1, <1>2 DEF ColumnsShape, UniqueIds
<1>4. name \in Tables \cup {NoName}
  OBVIOUS
<1>5. BlankForm(table, n) = [name |-> name, cols |-> cols, key |-> Null]
  BY DEF BlankForm, cols
<1> HIDE DEF name
<1> QED
  BY <1>3, <1>4, <1>5, MadeOf

LEMMA OpenKeeps ==
  ASSUME IInv, DInv, NEW kind \in {"designer", "structure"}, NEW table \in Openable \cup {Null}, Open(kind, table)
  PROVE  DInv'
<1> DEFINE left == IF shown = Null THEN store ELSE Release(store, shown.view)
           view == Views[spent.mounts + 1]
           s    == IF kind = "designer" THEN WithGeneration(left, view) ELSE left
<1>1. /\ shown' = [kind |-> kind, view |-> view, table |-> table]
      /\ Effects(s, kind, view, table)
      /\ spent.mounts < Len(Views)
      /\ form' = BlankForm(table, ids + 1) /\ ids' = ids + 1
      /\ baseline' = Null /\ flags' = NoFlags /\ from' = Null /\ astray' = {}
      /\ UNCHANGED <<server, saves, confirming>>
  BY DEF Open
<1>2. view \in Range(Views)
  <2>1. spent.mounts \in Nat
    BY Known DEF Counters
  <2>2. Views \in Seq(Range(Views)) /\ spent.mounts + 1 \in 1..Len(Views)
    BY <1>1, <2>1, DesignerAssumption
  <2> QED
    BY <2>2 DEF Range
<1>3. shown' \in Component /\ shown'.view = view /\ shown'.table = table /\ shown'.kind = kind /\ shown' # Null
  <2>1. shown' \in Component /\ shown'.view = view /\ shown'.table = table /\ shown'.kind = kind
    BY <1>1, <1>2 DEF Component, Openable
  <2> QED
    BY <2>1, ComponentShown
<1> HIDE DEF view
<1>4. StoreShape(left) /\ left.counter = store.counter /\ ViewsOf(left) = {}
  <2>1. CASE shown = Null
    BY <2>1, Known
  <2>2. CASE shown # Null
    BY <2>2, Known, ReleaseStore
  <2> QED
    BY <2>1, <2>2
<1> HIDE DEF left
<1>5. StoreShape(s) /\ ViewsOf(s) \subseteq {view} /\ s.counter >= store.counter /\ s.latestRead = left.latestRead
  <2>1. CASE kind = "designer"
    <3>1. /\ StoreShape(s) /\ s.counter \in {left.counter, left.counter + 1}
          /\ ViewsOf(s) = ViewsOf(left) \cup {view} /\ s.latestRead = left.latestRead
      BY <2>1, <1>4, GenerationStore
    <3> HIDE DEF s
    <3> QED
      BY <3>1, <1>4, Known
  <2>2. CASE kind # "designer"
    BY <2>2, <1>4, Known
  <2> QED
    BY <2>1, <2>2
<1> HIDE DEF s
<1>6. ServerInv' /\ SavesInv'
  BY <1>1 DEF DInv, ServerInv, SavesInv
<1>7. FormInv'
  <2>1. ids + 1 \in Nat /\ flags' \in FlagsType /\ table \in Tables \cup {Null}
    BY <1>1 DEF DInv, FormInv, FlagsType, NoFlags, Openable
  <2>2. FormShape(form') /\ \A i \in DOMAIN form'.cols : form'.cols[i].id <= ids'
    BY <1>1, <2>1, BlankShape
  <2> QED
    BY <1>1, <2>1, <2>2 DEF FormInv
<1>8. ReadsInv' /\ LoadsInv' /\ LinksInv' /\ SettledInv'
  <2>1. CASE table # Null
    <3>1. table \in Tables
      BY <2>1 DEF Openable
    <3> QED
      BY <1>1, <1>3, <1>5, <3>1, EffectsKeep
  <2>2. CASE table = Null
    <3>1. store' = s /\ reads' = reads
      BY <1>1, <2>2 DEF Effects
    <3>2. \A r : ~IsLatest(store', r)
      <4>1. DOMAIN s.latestRead = {}
        BY <1>4, <1>5 DEF ViewsOf
      <4> QED
        BY <3>1, <4>1 DEF IsLatest
    <3> QED
      BY <1>1, <1>3, <1>5, <2>2, <3>1, <3>2, NoTableKeeps
  <2> QED
    BY <2>1, <2>2
<1> QED
  BY <1>6, <1>7, <1>8 DEF DInv

LEMMA LeaveKeeps == ASSUME IInv, DInv, Leave PROVE DInv'
<1>1. /\ shown # Null /\ shown' = Null /\ store' = Release(store, shown.view)
      /\ form' = BlankForm(Null, 0) /\ baseline' = Null /\ flags' = NoFlags /\ from' = Null /\ astray' = {}
      /\ UNCHANGED <<server, reads, saves, confirming, ids>>
  BY DEF Leave
<1>2. StoreShape(store') /\ store'.counter = store.counter /\ ViewsOf(store') = {}
  BY <1>1, Known, ReleaseStore
<1>3. store'.counter >= store.counter
  BY <1>2, Known
<1>4. \A r : ~IsLatest(store', r)
  <2>1. DOMAIN store'.latestRead = {}
    BY <1>2 DEF ViewsOf
  <2> QED
    BY <2>1 DEF IsLatest
<1>5. ServerInv' /\ SavesInv'
  BY <1>1 DEF DInv, ServerInv, SavesInv
<1>6. FormInv'
  <2>1. ids \in Nat /\ flags' \in FlagsType
    BY <1>1 DEF DInv, FormInv, FlagsType, NoFlags
  <2>2. FormShape(form') /\ \A i \in DOMAIN form'.cols : form'.cols[i].id <= 0
    BY <1>1, BlankShape
  <2>3. \A i \in DOMAIN form'.cols : form'.cols[i].id <= ids
    <3>1. \A i \in DOMAIN form'.cols : form'.cols[i].id \in Nat
      <4>1. form'.cols \in Seq(FormColumn)
        BY <2>2, FormCols
      <4>2. \A i \in DOMAIN form'.cols : form'.cols[i] \in FormColumn
        BY <4>1
      <4> QED
        BY <4>2 DEF FormColumn
    <3> QED
      BY <2>1, <2>2, <3>1
  <2> QED
    BY <1>1, <2>1, <2>2, <2>3 DEF FormInv
<1>7. ReadsInv' /\ LoadsInv' /\ LinksInv' /\ SettledInv'
  BY <1>1, <1>2, <1>3, <1>4, NoTableKeeps
<1> QED
  BY <1>5, <1>6, <1>7 DEF DInv

LEMMA LoadedIs ==
  ASSUME ServerInv, ids \in Nat, NEW r, ReadInv(r), r.columns # Null, ~r.columns.failed, r.indexes # Null
  PROVE  LET f == LoadedForm(r)
             n == ids + Len(r.columns.value) + 1
         IN  /\ n \in Nat /\ FormShape(f) /\ \A i \in DOMAIN f.cols : f.cols[i].id <= n
             /\ ~r.moved /\ ~r.indexes.failed => Content(f) = server[r.table]
<1> DEFINE val == r.columns.value
           pk == IF r.indexes.failed THEN <<>> ELSE r.indexes.value
           cols == [i \in DOMAIN val |-> Column(ids + i, val[i].name, val[i].nullable)]
           key == IF pk = <<>> THEN Null ELSE [id |-> ids + Len(val) + 1, cols |-> pk]
           n == ids + Len(val) + 1
           f == LoadedForm(r)
<1>1. /\ val \in Seq(Stored) /\ Len(val) \in Nat /\ DOMAIN val = 1..Len(val) /\ n \in Nat
      /\ \A i \in 1..Len(val) : val[i] \in Stored
  <2>1. val \in Seq(Stored)
    BY DEF ReadInv, PartInv
  <2> HIDE DEF val
  <2> QED
    BY <2>1
<1>2. pk \in Seq(AnyName)
  BY DEF ReadInv, PartInv
<1>3. f = [name |-> r.table, cols |-> cols, key |-> key]
  BY DEF LoadedForm
<1>4. r.table \in Tables
  BY DEF ReadInv
<1>5. ~r.moved /\ ~r.indexes.failed => server[r.table] # Null /\ val = server[r.table].cols /\ pk = server[r.table].pk
  BY DEF ReadInv, PartInv
<1> HIDE DEF val, pk, f
<1>6. ASSUME NEW i \in 1..Len(val)
      PROVE  /\ cols[i] \in FormColumn /\ cols[i].id = ids + i /\ Defined(cols[i]) = val[i]
  <2>1. cols[i] = [id |-> ids + i, name |-> val[i].name, nullable |-> val[i].nullable]
    BY <1>1 DEF Column
  <2>2. val[i] \in Stored /\ ids + i \in Nat
    BY <1>1
  <2> HIDE DEF cols
  <2>3. cols[i] \in FormColumn /\ cols[i].id = ids + i
    BY <2>1, <2>2 DEF FormColumn, Stored
  <2>4. Defined(cols[i]) = [name |-> val[i].name, nullable |-> val[i].nullable]
    BY <2>1 DEF Defined
  <2>5. val[i] = [name |-> val[i].name, nullable |-> val[i].nullable]
    BY <2>2 DEF Stored
  <2> QED
    BY <2>3, <2>4, <2>5
<1>7. cols \in Seq(FormColumn) /\ Len(cols) = Len(val) /\ DOMAIN cols = 1..Len(val)
  <2>1. cols = [i \in 1..Len(val) |-> cols[i]]
    BY <1>1
  <2> HIDE DEF cols
  <2> QED
    BY <1>1, <1>6, <2>1
<1> HIDE DEF cols
<1>8. ColumnsShape(cols, n)
  <2>1. \A i, j \in 1..Len(val) : cols[i].id = cols[j].id => i = j
    BY <1>6
  <2>2. \A i \in 1..Len(val) : cols[i].id <= n
    BY <1>1, <1>6
  <2> QED
    BY <1>7, <2>1, <2>2 DEF ColumnsShape, UniqueIds
<1>9. key \in KeyType \cup {Null} /\ (key # Null => key.cols # <<>>) /\ (key = Null <=> pk = <<>>) /\ (key # Null => key.cols = pk)
  <2>1. [id |-> n, cols |-> pk] \in KeyType
    BY <1>1, <1>2 DEF KeyType
  <2>2. [id |-> n, cols |-> pk] # Null
    BY <2>1, DesignerAssumption
  <2> QED
    BY <2>1, <2>2
<1> HIDE DEF key
<1>10. FormShape(f) /\ \A i \in DOMAIN f.cols : f.cols[i].id <= n
  BY <1>3, <1>4, <1>8, <1>9, MadeOf
<1>11. ASSUME ~r.moved, ~r.indexes.failed PROVE Content(f) = server[r.table]
  <2>1. /\ Content(f).cols \in Seq(Stored) /\ Len(Content(f).cols) = Len(val) /\ Content(f).pk = KeyColumns(f)
        /\ \A i \in 1..Len(val) : Content(f).cols[i] = val[i]
    BY <1>3, <1>6, <1>7, <1>10, ContentIs
  <2> DEFINE c == Content(f).cols
  <2>2. c = val
    <3> HIDE DEF c
    <3>1. c \in Seq(Stored) /\ Len(c) = Len(val) /\ \A i \in 1..Len(val) : c[i] = val[i]
      BY <2>1 DEF c
    <3> QED
      BY <1>1, <3>1
  <2>3. KeyColumns(f) = pk
    BY <1>3, <1>9 DEF KeyColumns
  <2>4. Content(f) = [cols |-> c, pk |-> KeyColumns(f)]
    BY DEF Content
  <2>5. server[r.table] \in TableType
    BY <1>4, <1>5, <1>11 DEF ServerInv
  <2>6. server[r.table] = [cols |-> server[r.table].cols, pk |-> server[r.table].pk]
    BY <2>5 DEF TableType
  <2> QED
    BY <1>5, <1>11, <2>2, <2>3, <2>4, <2>6
<1> QED
  BY <1>1, <1>10, <1>11 DEF f, val

LEMMA PartAnswered ==
  ASSUME IInv, DInv, NEW r \in reads, NEW p \in Parts, NEW a \in Answers(r.table, p)
  PROVE  LET q == [r EXCEPT ![p] = a]
         IN  ReadInv(q) /\ q.kind = r.kind /\ q.view = r.view /\ q.token = r.token /\ q.table = r.table
<1> DEFINE q == [r EXCEPT ![p] = a]
<1>1. ReadShape(r) /\ ReadInv(r) /\ ServerInv
  BY DEF IInv, Shapes, DInv, ReadsInv
<1>2. /\ q.kind = r.kind /\ q.view = r.view /\ q.token = r.token /\ q.table = r.table /\ q.moved = r.moved
      /\ q.columns = IF p = "columns" THEN a ELSE r.columns
      /\ q.indexes = IF p = "indexes" THEN a ELSE r.indexes
  BY <1>1 DEF ReadShape, Parts
<1> HIDE DEF q
<1>3. r.table \in Tables /\ r.moved \in BOOLEAN
  BY <1>1 DEF ReadInv
<1>4. server[r.table] # Null => server[r.table].cols \in Seq(Stored) /\ server[r.table].pk \in Seq(AnyName)
  <2>1. server[r.table] # Null => server[r.table] \in TableType
    BY <1>1, <1>3 DEF ServerInv
  <2> QED
    BY <2>1, TableParts
<1>5. PartInv(q, q.columns, Stored, server[r.table].cols)
  <2>1. CASE p = "columns"
    <3>1. a = Failed \/ (server[r.table] # Null /\ a = Got(server[r.table].cols))
      BY <2>1 DEF Answers
    <3>2. CASE a = Failed
      <4>1. q.columns.failed = TRUE
        BY <1>2, <2>1, <3>2 DEF Failed
      <4> QED
        BY <4>1 DEF PartInv
    <3>3. CASE server[r.table] # Null /\ a = Got(server[r.table].cols)
      <4>1. q.columns.failed = FALSE /\ q.columns.value = server[r.table].cols
        BY <1>2, <2>1, <3>3 DEF Got
      <4> QED
        BY <1>2, <1>4, <3>3, <4>1 DEF PartInv
    <3> QED
      BY <3>1, <3>2, <3>3
  <2>2. CASE p # "columns"
    BY <1>1, <1>2, <2>2 DEF ReadInv, PartInv
  <2> QED
    BY <2>1, <2>2
<1>6. PartInv(q, q.indexes, AnyName, server[r.table].pk)
  <2>1. CASE p = "indexes"
    <3>1. a = Failed \/ (server[r.table] # Null /\ a = Got(server[r.table].pk))
      BY <2>1 DEF Answers
    <3>2. CASE a = Failed
      <4>1. q.indexes.failed = TRUE
        BY <1>2, <2>1, <3>2 DEF Failed
      <4> QED
        BY <4>1 DEF PartInv
    <3>3. CASE server[r.table] # Null /\ a = Got(server[r.table].pk)
      <4>1. q.indexes.failed = FALSE /\ q.indexes.value = server[r.table].pk
        BY <1>2, <2>1, <3>3 DEF Got
      <4> QED
        BY <1>2, <1>4, <3>3, <4>1 DEF PartInv
    <3> QED
      BY <3>1, <3>2, <3>3
  <2>2. CASE p # "indexes"
    BY <1>1, <1>2, <2>2 DEF ReadInv, PartInv
  <2> QED
    BY <2>1, <2>2
<1>7. ReadInv(q)
  BY <1>2, <1>3, <1>5, <1>6 DEF ReadInv
<1> QED
  BY <1>2, <1>7 DEF q

(* One part more: the read is the same one. *)
LEMMA PartKeeps ==
  ASSUME IInv, DInv, NEW r \in reads, NEW q, ReadInv(q), q.kind = r.kind, q.view = r.view, q.token = r.token,
         reads' = (reads \ {r}) \cup {q},
         UNCHANGED <<server, shown, form, baseline, flags, store, saves, confirming, ids, from, astray>>
  PROVE  DInv'
<1>1. FormInv' /\ ServerInv' /\ SavesInv'
  BY DEF DInv, FormInv, ServerInv, SavesInv
<1>2. ReadsInv'
  <2>1. \A x \in reads' : ReadInv(x)
    BY DEF DInv, ReadsInv
  <2>2. \A x : ReadInv(x) => ReadInv(x)'
    BY DEF ReadInv, PartInv
  <2> QED
    BY <2>1, <2>2 DEF ReadsInv
<1>3. LoadsInv'
  BY DEF DInv, LoadsInv, KnownLoads
<1>4. LinksInv'
  BY DEF DInv, LinksInv, IsLatest
<1>5. SettledInv'
  BY SameSettled DEF DInv, Settled, IsDesigner, Loading
<1> QED
  BY <1>1, <1>2, <1>3, <1>4, <1>5 DEF DInv

LEMMA AnswerPartKeeps ==
  ASSUME IInv, DInv, NEW r \in reads, NEW p \in Parts, NEW a \in Answers(r.table, p), AnswerPart(r, p, a)
  PROVE  DInv'
<1> DEFINE q == [r EXCEPT ![p] = a]
<1>1. ReadInv(q) /\ q.kind = r.kind /\ q.view = r.view /\ q.token = r.token /\ q.table = r.table
  BY PartAnswered
<1>2. UNCHANGED <<server, shown, refReads, saves, confirming, spent>>
  BY DEF AnswerPart
<1>3. CASE \E x \in Parts : q[x] = Null
  <2>1. reads' = (reads \ {r}) \cup {q} /\ UNCHANGED <<form, baseline, flags, store, ids, from, astray>>
    BY <1>3 DEF AnswerPart
  <2> HIDE DEF q
  <2> QED
    BY <1>1, <1>2, <2>1, PartKeeps
<1>4. CASE ~\E x \in Parts : q[x] = Null
  <2>1. reads' = reads \ {r} /\ store' = Land(store, q) /\ FormTakes(q)
    BY <1>4 DEF AnswerPart
  <2>2. q.columns # Null /\ q.indexes # Null
    BY <1>4 DEF Parts
  <2> HIDE DEF q
  <2>3. /\ StoreShape(store') /\ store'.counter = store.counter
        /\ \A x \in reads : IsLatest(store', x) => IsLatest(store, x)
        /\ ~IsLatest(store, q) => store' = store
    <3>1. CASE ~IsLatest(store, q)
      BY <2>1, <3>1, Known DEF Land
    <3>2. CASE IsLatest(store, q)
      <4> DEFINE t == Land(store, q)
      <4>1. /\ StoreShape(t) /\ t.counter = store.counter
            /\ DOMAIN t.latestRead = DOMAIN store.latestRead \ {q.view}
            /\ \A v \in DOMAIN t.latestRead : t.latestRead[v] = store.latestRead[v]
        <5>1. StoreShape(store)
          BY Known
        <5> QED
          BY <3>2, <5>1, LandStore, Zenon
      <4> HIDE DEF t
      <4>2. \A x \in reads : IsLatest(t, x) => IsLatest(store, x)
        BY <4>1 DEF IsLatest
      <4> QED
        BY <2>1, <3>2, <4>1, <4>2 DEF t
    <3> QED
      BY <3>1, <3>2
  <2>4. ServerInv' /\ SavesInv' /\ ReadsInv'
    BY <1>2, <2>1 DEF DInv, ServerInv, SavesInv, ReadsInv, ReadInv, PartInv
  <2> DEFINE taken == q.kind = "designer" /\ Mounted(q.view)
             load == [table |-> q.table, token |-> q.token]
             n == ids + Len(q.columns.value) + 1
  <2>5. CASE ~(taken /\ ~q.columns.failed)
    <3>1. /\ UNCHANGED <<form, ids, from, astray>> /\ baseline' \in {baseline, Null}
          /\ flags' = flags \/ flags' = [flags EXCEPT !.loadError = TRUE]
          /\ taken => flags' = [flags EXCEPT !.loadError = TRUE]
          /\ ~taken => flags' = flags /\ baseline' = baseline
      BY <2>1, <2>5 DEF FormTakes
    <3>2. flags' \in FlagsType /\ (taken => flags'.loadError = TRUE)
      BY <3>1 DEF DInv, FormInv, FlagsType
    <3>3. FormInv'
      BY <3>1, <3>2 DEF DInv, FormInv
    <3>4. LoadsInv'
      BY <1>2, <2>1, <2>3, <3>1 DEF DInv, LoadsInv, KnownLoads
    <3>5. LinksInv'
      BY <1>2, <2>1, <2>3, <3>1 DEF DInv, LinksInv
    <3>6. SettledInv'
      <4>1. CASE taken
        BY <3>2, <4>1 DEF SettledInv, Settled
      <4>2. CASE ~taken /\ ~IsLatest(store, q)
        BY <1>2, <2>3, <3>1, <4>2, SameSettled DEF DInv, Settled, IsDesigner, Loading
      <4>3. CASE ~taken /\ IsLatest(store, q)
        <5>1. IsLatest(store, r)
          BY <1>1, <4>3 DEF IsLatest
        <5>2. shown # Null /\ r.kind = shown.kind
          BY <5>1 DEF DInv, LinksInv
        <5>3. q.view = shown.view
          BY <4>3, <5>2, Known DEF IsLatest, ViewsOf
        <5>4. shown.kind # "designer"
          BY <1>1, <4>3, <5>2, <5>3 DEF Mounted
        <5>5. ~Settled'
          BY <1>2, <5>4 DEF Settled, IsDesigner
        <5> QED
          BY <5>5 DEF SettledInv
      <4> QED
        BY <4>1, <4>2, <4>3
    <3> QED
      BY <2>4, <3>3, <3>4, <3>5, <3>6 DEF DInv
  <2>6. CASE taken /\ ~q.columns.failed
    <3>1. /\ form' = LoadedForm(q) /\ baseline' = LoadedForm(q) /\ ids' = n /\ from' = load
          /\ flags' = [flags EXCEPT !.warned = @ \/ q.indexes.failed]
          /\ astray' = (IF q.indexes.failed THEN {"incomplete"} ELSE {})
                       \cup (IF q.moved THEN {"elsewhere"} ELSE {})
      BY <2>1, <2>6 DEF FormTakes
    <3>2. /\ n \in Nat /\ FormShape(LoadedForm(q)) /\ \A i \in DOMAIN LoadedForm(q).cols : LoadedForm(q).cols[i].id <= n
          /\ ~q.moved /\ ~q.indexes.failed => Content(LoadedForm(q)) = server[q.table]
      BY <1>1, <2>2, <2>6, LoadedIs DEF DInv, FormInv
    <3> HIDE DEF n
    <3>3. q.token \in Nat /\ q.token <= store.counter /\ load \in LoadType /\ load # Null
      <4>1. q.token \in Nat /\ q.token <= store.counter /\ q.table \in Tables
        BY <1>1 DEF IInv, Shapes, ReadShape, TokenInv, ReadInv
      <4>2. load \in LoadType
        BY <4>1 DEF LoadType
      <4>3. load # Null
        BY <4>2, DesignerAssumption DEF LoadType
      <4> QED
        BY <4>1, <4>2, <4>3
    <3>4. load.token = q.token /\ load.table = q.table
      OBVIOUS
    <3> HIDE DEF load
    <3>5. flags' \in FlagsType
      <4>1. q.indexes.failed \in BOOLEAN
        BY <1>1, <2>2 DEF ReadInv, PartInv
      <4> QED
        BY <3>1, <4>1 DEF DInv, FormInv, FlagsType
    <3>6. FormInv'
      BY <3>1, <3>2, <3>3, <3>5 DEF FormInv
    <3>7. \A v \in saves : v.from # load
      <4> SUFFICES ASSUME NEW v \in saves, v.from = load PROVE FALSE
        OBVIOUS
      <4>1. v.from \in KnownLoads
        BY <3>3 DEF KnownLoads
      <4> QED
        BY <1>1, <3>4, <4>1 DEF DInv, LoadsInv
    <3>8. LoadsInv'
      <4>1. KnownLoads' \subseteq KnownLoads \cup {load}
        BY <1>2, <3>1 DEF KnownLoads
      <4>2. \A x \in reads' : x.token # load.token
        BY <1>1, <2>1, <3>4 DEF DInv, LoadsInv
      <4> QED
        BY <2>1, <2>3, <3>3, <3>4, <4>1, <4>2 DEF DInv, LoadsInv
    <3>9. LinksInv'
      <4>1. \A x \in reads' : IsLatest(store', x) => shown' # Null /\ x.kind = shown'.kind
        BY <1>2, <2>1, <2>3 DEF DInv, LinksInv
      <4>2. shown' # Null
        BY <1>2, <2>6 DEF Mounted
      <4> QED
        BY <1>2, <3>1, <3>7, <4>1, <4>2 DEF LinksInv
    <3>10. SettledInv'
      <4>1. baseline' # Null /\ from' # Null
        BY <3>1, <3>2, <3>3, FormKey
      <4>2. Mine' = {}
        BY <1>2, <3>1, <3>7 DEF Mine
      <4>3. ASSUME astray' = {} PROVE server'[from'.table] = Content(baseline')
        <5>1. ~q.moved /\ ~q.indexes.failed
          BY <3>1, <4>3
        <5>2. Content(LoadedForm(q)) = server[q.table]
          BY <3>2, <5>1
        <5>3. Content(baseline') = Content(LoadedForm(q))
          BY <3>1
        <5> QED
          BY <1>2, <3>1, <3>4, <5>2, <5>3
      <4> QED
        BY <4>1, <4>2, <4>3 DEF SettledInv, Faithful
    <3> QED
      BY <2>4, <3>6, <3>8, <3>9, <3>10 DEF DInv
  <2> QED
    BY <2>5, <2>6
<1> QED
  BY <1>3, <1>4

(* A statement is run: the tables it does not name stay, and the reads it
   overtakes are marked. *)
LEMMA EffectKeeps ==
  ASSUME IInv, DInv, NEW s, StatementShape(s), NEW own, Effect(s, own), store' = store, shown' = shown, from' = from
  PROVE  /\ ServerInv' /\ ReadsInv'
         /\ \A q, r \in reads' : q.token = r.token => q = r
         /\ \A q \in reads' : \E r \in reads : q.token = r.token /\ q.view = r.view /\ q.kind = r.kind
         /\ Executed(server, s) = Null => server' = server /\ astray' = astray
         /\ Executed(server, s) # Null =>
              /\ server' = Executed(server, s)
              /\ \A t \in Tables \ TablesOf(s) : server'[t] = server[t]
              /\ astray' = {} => astray = {} /\ (from # Null /\ from.table \in TablesOf(s) => from = own)
              /\ from = own => astray' = astray
<1>1. CASE Executed(server, s) = Null
  <2>1. server' = server /\ reads' = reads /\ astray' = astray
    BY <1>1 DEF Effect
  <2>2. ServerInv' /\ ReadsInv'
    BY <2>1 DEF DInv, ServerInv, ReadsInv, ReadInv, PartInv
  <2> QED
    BY <1>1, <2>1, <2>2 DEF DInv, LoadsInv
<1>2. CASE Executed(server, s) # Null
  <2> DEFINE done == Executed(server, s)
             Seen(r) == [r EXCEPT !.moved = @ \/ r.table \in TablesOf(s)]
  <2>1. server' = done /\ reads' = {Seen(r) : r \in reads}
    BY <1>2 DEF Effect
  <2>2. /\ done \in [Tables -> TableType \cup {Null}] /\ \A t \in Tables : done[t] # Null => Unique(done[t].cols)
        /\ \A t \in Tables \ TablesOf(s) : done[t] = server[t]
    BY <1>2, ExecutedIs DEF DInv
  <2> HIDE DEF done
  <2>3. ServerInv'
    BY <2>1, <2>2 DEF ServerInv
  <2>4. ASSUME NEW r \in reads
        PROVE  /\ Seen(r).token = r.token /\ Seen(r).view = r.view /\ Seen(r).kind = r.kind
               /\ ReadInv(Seen(r))'
    <3>1. ReadShape(r) /\ ReadInv(r)
      BY DEF IInv, Shapes, DInv, ReadsInv
    <3> DEFINE q == Seen(r)
    <3>2. /\ q.token = r.token /\ q.view = r.view /\ q.kind = r.kind /\ q.table = r.table
          /\ q.columns = r.columns /\ q.indexes = r.indexes /\ q.moved = (r.moved \/ r.table \in TablesOf(s))
      BY <3>1 DEF ReadShape
    <3> HIDE DEF q
    <3>3. q.table \in Tables /\ q.moved \in BOOLEAN
      BY <3>1, <3>2 DEF ReadInv
    <3>4. ~q.moved => ~r.moved /\ server'[q.table] = server[r.table]
      BY <2>1, <2>2, <3>2, <3>3
    <3>5. PartInv(q, q.columns, Stored, server[q.table].cols)' /\ PartInv(q, q.indexes, AnyName, server[q.table].pk)'
      BY <3>1, <3>2, <3>4 DEF ReadInv, PartInv
    <3>6. ReadInv(q)'
      BY <3>3, <3>5 DEF ReadInv
    <3> QED
      BY <3>2, <3>6 DEF q
  <2> HIDE DEF Seen
  <2>5. ReadsInv'
    BY <2>1, <2>4 DEF ReadsInv
  <2>6. \A q, r \in reads' : q.token = r.token => q = r
    <3> SUFFICES ASSUME NEW q \in reads, NEW r \in reads, Seen(q).token = Seen(r).token PROVE q = r
      BY <2>1
    <3>1. q.token = r.token
      BY <2>4
    <3> QED
      BY <3>1 DEF DInv, LoadsInv
  <2>7. \A q \in reads' : \E r \in reads : q.token = r.token /\ q.view = r.view /\ q.kind = r.kind
    BY <2>1, <2>4
  <2>8. /\ astray' = {} => astray = {} /\ (from # Null /\ from.table \in TablesOf(s) => from = own)
        /\ from = own => astray' = astray
    BY <1>2 DEF Effect
  <2> QED
    BY <1>2, <2>1, <2>2, <2>3, <2>5, <2>6, <2>7, <2>8 DEF done
<1> QED
  BY <1>1, <1>2

(* What LoadsInv and LinksInv ask of the saves and the reads of a step that
   leaves the form where it was loaded from. *)
LEMMA LoadsKept ==
  ASSUME DInv, store' = store, shown' = shown, from' = from,
         \A q, r \in reads' : q.token = r.token => q = r,
         \A q \in reads' : \E r \in reads : q.token = r.token /\ q.view = r.view /\ q.kind = r.kind,
         \A v \in saves' : \/ \E w \in saves : v.from = w.from /\ v.view = w.view
                           \/ v.from = from /\ shown # Null /\ v.view = shown.view
  PROVE  LoadsInv' /\ LinksInv'
<1>1. KnownLoads' \subseteq KnownLoads
  BY DEF KnownLoads
<1>2. LoadsInv'
  <2>1. \A l \in KnownLoads : l.token <= store.counter /\ \A r \in reads : r.token # l.token
    BY DEF DInv, LoadsInv
  <2> QED
    BY <1>1, <2>1 DEF LoadsInv
<1>3. \A r \in reads' : IsLatest(store', r) => shown' # Null /\ r.kind = shown'.kind
  <2>1. \A r \in reads : IsLatest(store, r) => shown # Null /\ r.kind = shown.kind
    BY DEF DInv, LinksInv
  <2> QED
    BY <2>1 DEF IsLatest
<1>4. from # Null => shown # Null /\ \A v \in saves' : v.from = from => v.view = shown.view
  BY DEF DInv, LinksInv
<1> QED
  BY <1>2, <1>3, <1>4 DEF LinksInv

LEMMA ConfirmKeeps == ASSUME IInv, DInv, Confirm PROVE DInv'
<1> DEFINE s == confirming.stmt
<1>1. /\ confirming # Null /\ Effect(s, Null) /\ confirming' = Null
      /\ UNCHANGED <<shown, form, baseline, flags, store, saves, ids, from>>
  BY DEF Confirm
<1>2. StatementShape(s)
  BY <1>1 DEF DInv, SavesInv
<1> HIDE DEF s
<1>3. /\ ServerInv' /\ ReadsInv'
      /\ \A q, r \in reads' : q.token = r.token => q = r
      /\ \A q \in reads' : \E r \in reads : q.token = r.token /\ q.view = r.view /\ q.kind = r.kind
      /\ Executed(server, s) = Null => server' = server /\ astray' = astray
      /\ Executed(server, s) # Null =>
           /\ \A t \in Tables \ TablesOf(s) : server'[t] = server[t]
           /\ astray' = {} => astray = {} /\ (from # Null /\ from.table \in TablesOf(s) => from = Null)
  BY <1>1, <1>2, EffectKeeps
<1>4. LoadsInv' /\ LinksInv'
  BY <1>1, <1>3, LoadsKept
<1>5. FormInv' /\ SavesInv'
  BY <1>1 DEF DInv, FormInv, SavesInv
<1>6. SettledInv'
  <2>1. Settled' => Settled
    BY <1>1 DEF Settled, IsDesigner, Loading
  <2>2. CASE Executed(server, s) = Null
    BY <1>1, <1>3, <2>1, <2>2, SameSettled DEF DInv
  <2>3. CASE Executed(server, s) # Null
    <3> SUFFICES ASSUME Settled PROVE baseline # Null /\ from # Null /\ (from.table = shown.table /\ astray' = {} => Faithful')
      BY <1>1, <2>1 DEF SettledInv
    <3>1. baseline # Null /\ from # Null /\ (from.table = shown.table /\ astray = {} => Faithful)
      BY DEF DInv, SettledInv
    <3>2. ASSUME from.table = shown.table, astray' = {} PROVE Faithful'
      <4>1. Faithful /\ from.table \notin TablesOf(s)
        BY <1>3, <2>3, <3>1, <3>2
      <4>2. from.table \in Tables
        BY <3>1 DEF DInv, FormInv, LoadType
      <4>3. server'[from.table] = server[from.table]
        BY <1>3, <2>3, <4>1, <4>2
      <4> QED
        BY <1>1, <4>1, <4>3 DEF Faithful, Mine, SaveInv
    <3> QED
      BY <3>1, <3>2
  <2> QED
    BY <2>2, <2>3
<1> QED
  BY <1>3, <1>4, <1>5, <1>6 DEF DInv

(* The table holds what the form had when its statement was made of it. *)
LEMMA ExecutesDifference ==
  ASSUME ServerInv, NEW o, NEW m, FormShape(o), FormShape(m), WellFormed(o, m), m.name = o.name,
         NEW t \in Tables, server[t] # Null, server[t] = Content(o),
         NEW s, s = generateAlterTable(t, o, m), s.kind # "none", Executed(server, s) # Null
  PROVE  Executed(server, s)[t] = Content(m)
<1> DEFINE c == Clauses(t, o, m)
<1>1. Pair(o, m)
  <2>1. Unique(Content(o).cols)
    BY DEF ServerInv
  <2>2. DOMAIN o.cols = 1..Len(o.cols) /\ DOMAIN Content(o).cols = 1..Len(o.cols)
        /\ \A i \in 1..Len(o.cols) : Content(o).cols[i].name = o.cols[i].name
    BY ContentIs, FormCols
  <2>3. Unique(o.cols)
    BY <2>1, <2>2 DEF Unique
  <2> QED
    BY <2>3 DEF Pair
<1>2. s = c
  BY DEF generateAlterTable, NothingToDo
<1>3. c.kind = "alter" /\ c.table = t /\ c.to = Null
  BY DEF Clauses
<1> HIDE DEF c
<1>4. Altered(Content(o), c) = Content(m)
  BY <1>1, DifferenceApplies DEF c
<1>5. Executed(server, c) = [server EXCEPT ![t] = Altered(server[t], c), ![t] = Altered(server[t], c)]
  BY <1>2, <1>3 DEF Executed
<1>6. t \in DOMAIN server
  BY DEF ServerInv
<1> HIDE DEF Altered
<1> QED
  BY <1>2, <1>4, <1>5, <1>6

(* What the table holds when one save is under way of the form as it was loaded. *)
LEMMA OneSave ==
  ASSUME NEW x, from' = from, baseline' = baseline, Mine' = {x}, SaveInv(x),
         x.answer # "done" => server'[from.table] = Content(baseline),
         x.answer = "done" /\ x.leftOut = {} => server'[from.table] = Content(x.config)
  PROVE  Faithful'
<1>1. SaveInv(x)'
  BY DEF SaveInv
<1>2. \A v, w \in Mine' : v = w
  OBVIOUS
<1>3. \A v \in Mine' : SaveInv(v)'
  BY <1>1
<1>4. (\A v \in Mine' : v.answer # "done") => server'[from'.table] = Content(baseline')
  OBVIOUS
<1>5. \A v \in Mine' : v.answer = "done" /\ v.leftOut = {} => server'[from'.table] = Content(v.config)
  OBVIOUS
<1> QED
  BY <1>2, <1>3, <1>4, <1>5 DEF Faithful

LEMMA RunStatementKeeps == ASSUME IInv, DInv, NEW v \in saves, RunStatement(v) PROVE DInv'
<1> DEFINE s == v.stmt
<1> PICK w : w = [v EXCEPT !.answer = IF Executed(server, v.stmt) = Null THEN "refused" ELSE "done"]
  OBVIOUS
<1>1. /\ v.answer = Null /\ Effect(s, v.from) /\ saves' = (saves \ {v}) \cup {w}
      /\ UNCHANGED <<shown, form, baseline, flags, store, confirming, ids, from>>
  BY DEF RunStatement
<1>2. SaveShape(v) /\ StatementShape(s)
  BY DEF DInv, SavesInv, SaveShape
<1>3. /\ w.from = v.from /\ w.view = v.view /\ w.stmt = s /\ w.config = v.config /\ w.alter = v.alter /\ w.leftOut = v.leftOut
      /\ w.answer = IF Executed(server, s) = Null THEN "refused" ELSE "done"
      /\ SaveShape(w)
  BY <1>2 DEF SaveShape
<1> HIDE DEF s
<1>4. /\ ServerInv' /\ ReadsInv'
      /\ \A q, r \in reads' : q.token = r.token => q = r
      /\ \A q \in reads' : \E r \in reads : q.token = r.token /\ q.view = r.view /\ q.kind = r.kind
      /\ Executed(server, s) = Null => server' = server /\ astray' = astray
      /\ Executed(server, s) # Null =>
           /\ server' = Executed(server, s)
           /\ \A t \in Tables \ TablesOf(s) : server'[t] = server[t]
           /\ astray' = {} => astray = {} /\ (from # Null /\ from.table \in TablesOf(s) => from = v.from)
           /\ from = v.from => astray' = astray
  BY <1>1, <1>2, EffectKeeps
<1>5. LoadsInv' /\ LinksInv'
  <2>1. \A x \in saves' : \E y \in saves : x.from = y.from /\ x.view = y.view
    BY <1>1, <1>3
  <2> QED
    BY <1>1, <1>4, <2>1, LoadsKept
<1>6. FormInv' /\ SavesInv'
  BY <1>1, <1>3 DEF DInv, FormInv, SavesInv
<1>7. SettledInv'
  <2>1. Settled' => Settled
    BY <1>1 DEF Settled, IsDesigner, Loading
  <2> SUFFICES ASSUME Settled PROVE baseline # Null /\ from # Null /\ (from.table = shown.table /\ astray' = {} => Faithful')
    BY <1>1, <2>1 DEF SettledInv
  <2>2. baseline # Null /\ from # Null /\ (from.table = shown.table /\ astray = {} => Faithful)
    BY DEF DInv, SettledInv
  <2>3. ASSUME from.table = shown.table, astray' = {} PROVE Faithful'
    <3>1. Faithful
      BY <1>4, <2>2, <2>3
    <3>2. from.table \in Tables
      BY <2>2 DEF DInv, FormInv, LoadType
    <3>3. CASE v \notin Mine
      <4>1. Mine' = Mine
        BY <1>1, <1>3, <3>3 DEF Mine
      <4>2. server'[from.table] = server[from.table]
        <5>1. CASE Executed(server, s) = Null
          BY <1>4, <5>1
        <5>2. CASE Executed(server, s) # Null
          <6>1. from.table \notin TablesOf(s)
            BY <1>4, <2>2, <2>3, <3>3, <5>2 DEF Mine
          <6> QED
            BY <1>4, <3>2, <5>2, <6>1
        <5> QED
          BY <5>1, <5>2
      <4> QED
        BY <1>1, <3>1, <4>1, <4>2 DEF Faithful, SaveInv
    <3>4. CASE v \in Mine
      <4>1. Mine = {v} /\ Mine' = {w} /\ SaveInv(v)
        BY <1>1, <1>3, <3>1, <3>4 DEF Mine, Faithful
      <4>2. SaveInv(w)
        BY <1>3, <4>1 DEF SaveInv
      <4>3. server[from.table] = Content(baseline)
        BY <1>1, <3>1, <4>1, DesignerAssumption DEF Faithful
      <4>4. CASE Executed(server, s) = Null
        <5>1. w.answer = "refused" /\ server' = server
          BY <1>3, <1>4, <4>4
        <5> QED
          BY <1>1, <4>1, <4>2, <4>3, <5>1, OneSave
      <4>5. CASE Executed(server, s) # Null
        <5>1. w.answer = "done" /\ server' = Executed(server, s)
          BY <1>3, <1>4, <4>5
        <5>2. ASSUME v.leftOut = {} PROVE server'[from.table] = Content(v.config)
          <6>1. s = generateAlterTable(from.table, baseline, v.config) /\ WellFormed(baseline, v.config) /\ v.config.name = baseline.name
            BY <4>1, <5>2 DEF SaveInv, s
          <6>2. FormShape(baseline) /\ FormShape(v.config) /\ ServerInv
            BY <1>2, <2>2 DEF DInv, FormInv, SaveShape
          <6>3. s.kind # "none"
            BY <1>2 DEF StatementShape
          <6>4. server[from.table] # Null
            <7>1. s.table = from.table /\ s.kind = "alter"
              BY <6>1, <6>3 DEF generateAlterTable, NothingToDo, Clauses
            <7> QED
              BY <4>5, <7>1 DEF Executed
          <6> QED
            BY <3>2, <4>3, <4>5, <5>1, <6>1, <6>2, <6>3, <6>4, ExecutesDifference
        <5> QED
          BY <1>1, <1>3, <4>1, <4>2, <5>1, <5>2, OneSave
      <4> QED
        BY <4>4, <4>5
    <3> QED
      BY <3>3, <3>4
  <2> QED
    BY <2>2, <2>3
<1> QED
  BY <1>4, <1>5, <1>6, <1>7 DEF DInv

LEMMA ExecuteKeeps == ASSUME IInv, DInv, Execute PROVE DInv'
<1> DEFINE s == generateSql(shown.table)
<1> PICK new : new = [view |-> shown.view, stmt |-> s, config |-> form, alter |-> shown.table # Null,
                      from |-> from, leftOut |-> LeftOut, answer |-> Null, n |-> spent.saves]
  OBVIOUS
<1>1. /\ FormShown /\ shown # Null /\ flags' = [flags EXCEPT !.preview = FALSE, !.saving = @ \/ s.kind # "none"]
      /\ saves' = IF s.kind = "none" THEN saves ELSE saves \cup {new}
      /\ astray' = IF s.kind # "none" /\ \E v \in saves : v.view = shown.view THEN astray \cup {"overlap"} ELSE astray
      /\ UNCHANGED <<server, shown, form, baseline, store, reads, confirming, ids, from>>
  BY DEF Execute, FormShown, IsDesigner
<1>2. shown.table \in Tables \cup {Null} /\ FormInv
  BY <1>1, Known DEF Component, DInv
<1>3. flags' \in FlagsType /\ flags'.loadError = flags.loadError
  BY <1>1, <1>2 DEF FormInv, FlagsType
<1>4. s.kind # "none" =>
        /\ StatementShape(s)
        /\ shown.table # Null => s = generateAlterTable(shown.table, baseline, form)
  BY <1>2, Generated
<1> HIDE DEF s
<1>5. /\ new.view = shown.view /\ new.stmt = s /\ new.config = form /\ new.alter = (shown.table # Null)
      /\ new.from = from /\ new.leftOut = LeftOut /\ new.answer = Null
      /\ s.kind # "none" => SaveShape(new)
  BY <1>2, <1>4 DEF SaveShape, FormInv
<1>6. FormInv'
  BY <1>1, <1>3 DEF DInv, FormInv
<1>7. ServerInv' /\ SavesInv' /\ ReadsInv'
  BY <1>1, <1>5 DEF DInv, ServerInv, SavesInv, ReadsInv, ReadInv, PartInv
<1>8. LoadsInv' /\ LinksInv'
  <2>1. \A q \in reads' : \E r \in reads : q.token = r.token /\ q.view = r.view /\ q.kind = r.kind
    BY <1>1
  <2>2. \A q, r \in reads' : q.token = r.token => q = r
    BY <1>1 DEF DInv, LoadsInv
  <2>3. \A v \in saves' : \/ \E w \in saves : v.from = w.from /\ v.view = w.view
                          \/ v.from = from /\ shown # Null /\ v.view = shown.view
    BY <1>1, <1>5
  <2> QED
    BY <1>1, <2>1, <2>2, <2>3, LoadsKept
<1>9. SettledInv'
  <2>1. Settled' => Settled
    BY <1>1, <1>3 DEF Settled, IsDesigner, Loading
  <2>2. CASE s.kind = "none"
    BY <1>1, <2>1, <2>2, SameSettled DEF DInv
  <2>3. CASE s.kind # "none"
    <3> SUFFICES ASSUME Settled PROVE baseline # Null /\ from # Null /\ (from.table = shown.table /\ astray' = {} => Faithful')
      BY <1>1, <2>1 DEF SettledInv
    <3>1. baseline # Null /\ from # Null /\ (from.table = shown.table /\ astray = {} => Faithful)
      BY DEF DInv, SettledInv
    <3>2. ASSUME from.table = shown.table, astray' = {} PROVE Faithful'
      <4>1. astray = {} /\ \A v \in saves : v.view # shown.view
        BY <1>1, <2>3, <3>2
      <4>2. Faithful /\ Mine = {}
        BY <3>1, <3>2, <4>1 DEF DInv, LinksInv, Mine
      <4>3. Mine' = {new}
        BY <1>1, <1>5, <2>3, <4>2 DEF Mine
      <4>4. SaveInv(new)
        <5>1. shown.table # Null
          BY DEF Settled
        <5>2. new.leftOut = {} => WellFormed(baseline, form) /\ form.name = baseline.name
          BY <1>5, <3>1 DEF LeftOut
        <5> QED
          BY <1>1, <1>4, <1>5, <2>3, <3>2, <5>1, <5>2 DEF SaveInv
      <4>5. server[from.table] = Content(baseline)
        BY <4>2 DEF Faithful
      <4>6. new.answer # "done"
        BY <1>5, DesignerAssumption
      <4> QED
        BY <1>1, <4>3, <4>4, <4>5, <4>6, OneSave
    <3> QED
      BY <3>1, <3>2
  <2> QED
    BY <2>2, <2>3
<1> QED
  BY <1>6, <1>7, <1>8, <1>9 DEF DInv

(* A save is over for the designer: the baseline stays, or becomes what the
   save made of the table. *)
LEMMA SaveGone ==
  ASSUME IInv, DInv, NEW v \in saves, saves' = saves \ {v},
         UNCHANGED <<server, shown, form, store, reads, ids, from>>,
         flags' = flags \/ flags' = [flags EXCEPT !.saving = FALSE],
         confirming' # Null => StatementShape(confirming'.stmt),
         baseline' \in {baseline, v.config},
         astray' = {} => astray = {},
         Settled /\ from.table = shown.table /\ astray' = {} /\ Faithful =>
           IF v \in Mine THEN server[from.table] = Content(baseline') ELSE baseline' = baseline
  PROVE  DInv'
<1>1. flags' \in FlagsType /\ flags'.loadError = flags.loadError
  BY DEF DInv, FormInv, FlagsType
<1>2. SaveShape(v) /\ FormShape(v.config) /\ v.config # Null
  <2>1. SaveShape(v) /\ FormShape(v.config)
    BY DEF DInv, SavesInv, SaveShape
  <2> QED
    BY <2>1, DesignerAssumption DEF FormShape
<1>3. FormInv'
  BY <1>1, <1>2 DEF DInv, FormInv
<1>4. ServerInv' /\ SavesInv' /\ ReadsInv'
  BY DEF DInv, ServerInv, SavesInv, ReadsInv, ReadInv, PartInv
<1>5. LoadsInv' /\ LinksInv'
  <2>1. \A q \in reads' : \E r \in reads : q.token = r.token /\ q.view = r.view /\ q.kind = r.kind
    OBVIOUS
  <2>2. \A q, r \in reads' : q.token = r.token => q = r
    BY DEF DInv, LoadsInv
  <2>3. \A x \in saves' : \E w \in saves : x.from = w.from /\ x.view = w.view
    OBVIOUS
  <2> QED
    BY <2>1, <2>2, <2>3, LoadsKept
<1>6. SettledInv'
  <2>1. Settled' => Settled
    BY <1>1 DEF Settled, IsDesigner, Loading
  <2> SUFFICES ASSUME Settled PROVE baseline' # Null /\ from # Null /\ (from.table = shown.table /\ astray' = {} => Faithful')
    BY <2>1 DEF SettledInv
  <2>2. baseline # Null /\ from # Null /\ (from.table = shown.table /\ astray = {} => Faithful)
    BY DEF DInv, SettledInv
  <2>3. ASSUME from.table = shown.table, astray' = {} PROVE Faithful'
    <3>1. Faithful
      BY <2>2, <2>3
    <3>2. CASE v \in Mine
      <4>1. Mine' = {}
        BY <3>1, <3>2 DEF Mine, Faithful
      <4>2. server'[from'.table] = Content(baseline')
        BY <2>3, <3>1, <3>2
      <4> QED
        BY <4>1, <4>2 DEF Faithful
    <3>3. CASE v \notin Mine
      <4>1. Mine' = Mine /\ baseline' = baseline
        BY <2>3, <3>1, <3>3 DEF Mine
      <4> QED
        BY <3>1, <4>1 DEF Faithful, SaveInv
    <3> QED
      BY <3>2, <3>3
  <2> QED
    BY <1>2, <2>2, <2>3
<1> QED
  BY <1>3, <1>4, <1>5, <1>6 DEF DInv

(* A save of the form as it was loaded is of the component shown. *)
LEMMA MineMounted ==
  ASSUME DInv, Settled, NEW v \in Mine
  PROVE  Mounted(v.view) /\ v \in saves /\ v.from = from
BY DEF DInv, SettledInv, LinksInv, Mine, Mounted

LEMMA SavedKeeps == ASSUME IInv, DInv, NEW v \in saves, Saved(v) PROVE DInv'
<1>1. /\ saves' = saves \ {v}
      /\ flags' = IF Mounted(v.view) THEN [flags EXCEPT !.saving = FALSE] ELSE flags
      /\ UNCHANGED <<server, shown, form, store, reads, confirming, ids, from>>
  BY DEF Saved
<1>2. CASE Mounted(v.view) /\ v.answer = "done" /\ v.alter
  <2>1. /\ baseline' = v.config
        /\ astray' = astray \cup v.leftOut \cup (IF v.from # from THEN {"elsewhere"} ELSE {})
    BY <1>2 DEF Saved, BaselineOf
  <2>2. ASSUME Settled, from.table = shown.table, astray' = {}, Faithful
        PROVE  IF v \in Mine THEN server[from.table] = Content(baseline') ELSE baseline' = baseline
    <3>1. v.from = from /\ v.leftOut = {}
      BY <2>1, <2>2
    <3>2. v \in Mine
      BY <3>1 DEF Mine
    <3> QED
      BY <1>2, <2>1, <2>2, <3>1, <3>2 DEF Faithful
  <2>3. astray' = {} => astray = {}
    BY <2>1
  <2> QED
    BY <1>1, <2>1, <2>2, <2>3, SaveGone DEF DInv, SavesInv
<1>3. CASE ~(Mounted(v.view) /\ v.answer = "done" /\ v.alter)
  <2>1. baseline' = baseline /\ astray' = astray
    BY <1>3 DEF Saved
  <2>2. ASSUME Settled, Faithful, v \in Mine
        PROVE  server[from.table] = Content(baseline)
    <3>1. Mounted(v.view) /\ v.alter /\ Mine = {v}
      BY <2>2, MineMounted DEF Faithful, SaveInv
    <3> QED
      BY <1>3, <2>2, <3>1 DEF Faithful
  <2> QED
    BY <1>1, <2>1, <2>2, SaveGone DEF DInv, SavesInv
<1> QED
  BY <1>2, <1>3

LEMMA LostKeeps == ASSUME IInv, DInv, NEW v \in saves, Lost(v) PROVE DInv'
<1>1. /\ saves' = saves \ {v}
      /\ flags' = IF Mounted(v.view) THEN [flags EXCEPT !.saving = FALSE] ELSE flags
      /\ astray' = IF v.answer = "done" /\ Mounted(v.view) THEN astray \cup {"unconfirmed"} ELSE astray
      /\ UNCHANGED <<server, shown, form, baseline, store, reads, confirming, ids, from>>
  BY DEF Lost
<1>2. ASSUME Settled, astray' = {}, Faithful, v \in Mine
      PROVE  server[from.table] = Content(baseline)
  <2>1. Mounted(v.view) /\ Mine = {v}
    BY <1>2, MineMounted DEF Faithful
  <2>2. v.answer # "done"
    BY <1>1, <1>2, <2>1
  <2> QED
    BY <1>2, <2>1, <2>2 DEF Faithful
<1>3. astray' = {} => astray = {}
  BY <1>1
<1> QED
  BY <1>1, <1>2, <1>3, SaveGone DEF DInv, SavesInv

LEMMA AwaitConfirmationKeeps == ASSUME IInv, DInv, NEW v \in saves, AwaitConfirmation(v) PROVE DInv'
<1>1. /\ v.answer = Null /\ saves' = saves \ {v}
      /\ flags' = IF Mounted(v.view) THEN [flags EXCEPT !.saving = FALSE] ELSE flags
      /\ confirming' = [stmt |-> v.stmt, view |-> v.view]
      /\ UNCHANGED <<server, shown, form, baseline, store, reads, ids, from, astray>>
  BY DEF AwaitConfirmation
<1>2. StatementShape(confirming'.stmt)
  BY <1>1 DEF DInv, SavesInv, SaveShape
<1>3. ASSUME Faithful, v \in Mine
      PROVE  server[from.table] = Content(baseline)
  <2>1. Mine = {v} /\ v.answer # "done"
    BY <1>1, <1>3, DesignerAssumption DEF Faithful
  <2> QED
    BY <1>3, <2>1 DEF Faithful
<1> QED
  BY <1>1, <1>2, <1>3, SaveGone
LEMMA InitialDesigner == Init => DInv
<1> SUFFICES ASSUME Init PROVE DInv
  OBVIOUS
<1>1. /\ server = [t \in Tables |-> IF t \in DOMAIN First THEN First[t] ELSE Null]
      /\ shown = Null /\ form = BlankForm(Null, 0) /\ baseline = Null /\ flags = NoFlags
      /\ reads = {} /\ saves = {} /\ confirming = Null /\ ids = 0 /\ from = Null
  BY DEF Init
<1>2. ServerInv
  BY <1>1, FirstAssumption DEF ServerInv
<1>3. FormInv
  <2>1. FormShape(form) /\ \A i \in DOMAIN form.cols : form.cols[i].id <= 0
    BY <1>1, BlankShape
  <2>2. flags \in FlagsType
    BY <1>1 DEF NoFlags, FlagsType
  <2> QED
    BY <1>1, <2>1, <2>2 DEF FormInv
<1>4. SavesInv /\ ReadsInv /\ LoadsInv /\ LinksInv
  BY <1>1 DEF SavesInv, ReadsInv, LoadsInv, KnownLoads, LinksInv
<1>5. SettledInv
  BY <1>1 DEF SettledInv, Settled, IsDesigner
<1> QED
  BY <1>2, <1>3, <1>4, <1>5 DEF DInv

LEMMA NextDesigner == IInv /\ DInv /\ [Next]_vars => DInv'
<1> SUFFICES ASSUME IInv, DInv, [Next]_vars PROVE DInv'
  OBVIOUS
<1>1. CASE Navigate
  BY <1>1, SwitchKeeps, OpenKeeps, LeaveKeeps, RetryKeeps DEF Navigate
<1>2. CASE EditForm
  BY <1>2, EditFormKeeps
<1>3. CASE Reading
  BY <1>3, AnswerPartKeeps, LoadReferenceColumnsKeeps, AnswerReferenceKeeps DEF Reading
<1>4. CASE Applying
  BY <1>4, PreviewKeeps, ExecuteKeeps, RunStatementKeeps, SavedKeeps, LostKeeps, AwaitConfirmationKeeps,
     ConfirmKeeps DEF Applying
<1>5. CASE UNCHANGED vars
  BY <1>5 DEF vars, DInv, ServerInv, FormInv, SavesInv, ReadsInv, ReadInv, PartInv, LoadsInv, KnownLoads, LinksInv,
     IsLatest, SettledInv, Settled, IsDesigner, Loading, Faithful, Mine, SaveInv
<1> QED
  BY <1>1, <1>2, <1>3, <1>4, <1>5 DEF Next

LEMMA DesignerApplies == DInv => AppliesWhatIsShown
<1> SUFFICES ASSUME DInv, AtRest, astray = {}, WellFormed(baseline, form), form.name = baseline.name,
                    NEW s, s = generateSql(shown.table)
             PROVE  (IF s.kind = "none" THEN server[shown.table] ELSE Altered(server[shown.table], s)) = Content(form)
  BY DEF AppliesWhatIsShown
<1> DEFINE t == shown.table
<1>1. /\ Settled /\ t # Null /\ baseline # Null /\ from # Null /\ from.table = t
      /\ \A v \in saves : v.view # shown.view
  BY DEF AtRest, FormShown, Settled
<1>2. Faithful /\ Mine = {}
  BY <1>1 DEF DInv, SettledInv, LinksInv, Mine
<1>3. server[t] = Content(baseline)
  BY <1>1, <1>2 DEF Faithful
<1>4. t \in Tables /\ FormShape(baseline) /\ FormShape(form)
  BY <1>1 DEF DInv, FormInv, LoadType
<1>5. server[t] # Null
  <2>1. Content(baseline).cols \in Seq(Stored) /\ Content(baseline).pk \in Seq(AnyName)
    BY <1>4, ContentIs, FormKey
  <2>2. Content(baseline) = [cols |-> Content(baseline).cols, pk |-> Content(baseline).pk]
    BY DEF Content
  <2>3. Content(baseline) \in TableType
    BY <2>1, <2>2 DEF TableType, Stored
  <2> QED
    BY <1>3, <2>3, DesignerAssumption
<1>6. Pair(baseline, form)
  <2>1. Unique(Content(baseline).cols)
    BY <1>3, <1>4, <1>5 DEF DInv, ServerInv
  <2>2. DOMAIN baseline.cols = 1..Len(baseline.cols) /\ DOMAIN Content(baseline).cols = 1..Len(baseline.cols)
        /\ \A i \in 1..Len(baseline.cols) : Content(baseline).cols[i].name = baseline.cols[i].name
    BY <1>4, ContentIs, FormCols
  <2>3. Unique(baseline.cols)
    BY <2>1, <2>2 DEF Unique
  <2> QED
    BY <1>4, <2>3 DEF Pair
<1>7. s = generateAlterTable(t, baseline, form)
  BY <1>1 DEF generateSql
<1>8. CASE s.kind = "none"
  BY <1>3, <1>6, <1>7, <1>8, NoDifference
<1>9. CASE s.kind # "none"
  <2>1. s = Clauses(t, baseline, form)
    BY <1>7, <1>9 DEF generateAlterTable, NothingToDo
  <2> QED
    BY <1>3, <1>6, <1>9, <2>1, DifferenceApplies
<1> QED
  BY <1>8, <1>9

(* Whatever was edited, saved and edited again, the statement of the preview
   makes the table what the form shows, and there is none when the table is
   that already (TableDesigner.tsx, runSave and currentConfig;
   generateAlterTable). *)
THEOREM ShownIsApplied == Spec => []AppliesWhatIsShown
<1>1. Init => IInv /\ DInv
  BY Initial, InitialDesigner
<1>2. IInv /\ DInv /\ [Next]_vars => (IInv /\ DInv)'
  BY NextStep, NextDesigner
<1> QED
  BY <1>1, <1>2, DesignerApplies, PTL DEF Spec
=============================================================================
