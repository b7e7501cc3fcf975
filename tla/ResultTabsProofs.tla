--------------------------- MODULE ResultTabsProofs ---------------------------
(***************************************************************************)
(* Theorems about ResultTabs, for any tabs and runs: type correctness, that *)
(* a spinner turns exactly over what is waited for, that an answer lands    *)
(* where it is waited for and nowhere else, and that edits are lost only to *)
(* a statement their user agreed to.  ClosesOverRun is FALSE throughout:    *)
(* the last tab, a designer's, closing over a run started under no tab is   *)
(* left out.                                                                *)
(***************************************************************************)
EXTENDS ResultTabs, TLAPS, WellFoundedInduction

(***************************************************************************)
(* The state as flat functions of keys, and its types                      *)
(***************************************************************************)
\* Functions from some of K to V.
Maps(K, V) == UNION {[D -> V] : D \in SUBSET K}

StoreType == [viewTabId : Tabs \cup {Null}, runTabId : QueryTabs \cup {Null}, screen : Slices,
              parked : Maps(Keys, Slices)]
BookType == [generations : Maps(Keys \cup Runs, Nat), activeExecutions : Maps(Keys \cup Runs, Runs),
             latestStart : Maps(Keys, Nat), runCount : Nat, lastStartedTab : Keys]
RunType == [phase : Phases, tab : Keys, own : BOOLEAN, key : Keys \cup Runs, filed : Keys, home : Keys,
            generation : Nat, seq : Nat, session : QueryTabs \cup {Null}, kind : {"query", "explain", "page"},
            cancelled : BOOLEAN, orphaned : BOOLEAN, agreed : BOOLEAN]

\* The run filed under a key, if one is.
At(b, k) == IF k \in DOMAIN b.activeExecutions THEN b.activeExecutions[k] ELSE Null

\* What a tab shows, or with no tab open the pane.
Pane(s, t) == IF s.viewTabId = Null THEN s.screen ELSE SliceOf(s, t)
Spin(s, t) == Pane(s, t).isExecuting

Flies(rs, r) == rs[r].phase = "flying"
Flown(rs, r) == rs[r].phase \in {"flying", "done"}
Lists(rs, b, r) == At(b, rs[r].key) = r
Busy(rs, b, t) == \E k \in Keys \cup Runs : At(b, k) # Null /\ rs[At(b, k)].tab = t

(***************************************************************************)
(* The invariant.  L is what can be looked at, v the tab shown.            *)
(***************************************************************************)
FlyingI(rs, r, L) ==
  /\ rs[r].seq > 0 /\ rs[r].generation > 0
  /\ IF rs[r].own THEN rs[r].key = rs[r].tab ELSE rs[r].key = r
  /\ rs[r].filed \in {NoTab, rs[r].tab}
  /\ rs[r].home = rs[r].tab \/ rs[r].tab = NoTab
  /\ rs[r].orphaned => rs[r].tab \notin L

RunI(rs, b, L) ==
  /\ \A r \in Runs : rs[r].tab = NoTab => rs[r].session = Null
  /\ \A r \in Runs : Flies(rs, r) => FlyingI(rs, r, L)
  /\ \A r \in Runs : rs[r].seq <= b.runCount
  /\ \A r \in Runs : ~Flown(rs, r) => rs[r].seq = 0

\* A run listed under k.
ListedI(rs, b, L, k, r) ==
  /\ Flies(rs, r) /\ rs[r].key = k /\ ~rs[r].cancelled /\ rs[r].home = rs[r].tab
  /\ rs[r].tab \in L => Generation(b, k) = rs[r].generation
  /\ rs[r].tab \in L /\ rs[r].own =>
       \A q \in Runs : rs[q].own /\ rs[q].home = rs[r].home => rs[q].seq <= rs[r].seq

ListI(rs, b, L) == \A k : At(b, k) # Null => ListedI(rs, b, L, k, At(b, k))

SideI(rs, b, r) ==
  ~rs[r].own => /\ ~rs[r].cancelled => Lists(rs, b, r)
                /\ Generation(b, r) = rs[r].generation => Lists(rs, b, r)
OwnI(rs, b, L, v, r) ==
  rs[r].own =>
    /\ rs[r].tab \in L /\ Generation(b, rs[r].tab) = rs[r].generation => Lists(rs, b, r)
    /\ rs[r].tab \in L /\ (rs[r].tab = NoTab => v = Null) => rs[r].generation <= Generation(b, rs[r].tab)
    /\ ~rs[r].cancelled /\ ~rs[r].orphaned /\ rs[r].home \in L /\ ~Lists(rs, b, r) =>
         \E q \in Runs : rs[q].own /\ rs[q].home = rs[r].home /\ rs[q].seq > rs[r].seq
GenI(rs, b, L, v) == \A r \in Runs : Flies(rs, r) => SideI(rs, b, r) /\ OwnI(rs, b, L, v, r)

OrderI(rs, b, L) ==
  \A t \in L :
    /\ \A q \in Runs : rs[q].seq > 0 /\ rs[q].home = t => rs[q].seq <= LatestStart(b, t)
    /\ LatestStart(b, t) > 0 => \E q \in Runs : rs[q].home = t /\ rs[q].seq = LatestStart(b, t)

SpinI(rs, b, s, L) == \A t \in L : Spin(s, t) <=> Busy(rs, b, t)

CoreI(rs, b, s, L) ==
  RunI(rs, b, L) /\ ListI(rs, b, L) /\ GenI(rs, b, L, s.viewTabId) /\ OrderI(rs, b, L) /\ SpinI(rs, b, s, L)

-----------------------------------------------------------------------------
LEMMA Distinct ==
  /\ Tabs = QueryTabs \cup PanelTabs /\ Keys = Tabs \cup {NoTab}
  /\ Null \notin Keys /\ NoTab \notin Tabs /\ Null \notin Runs /\ Runs \cap Keys = {}
  /\ Unconfirmed \notin Runs
BY TabsAssumption DEF Tabs, Keys

LEMMA MapsIs ==
  ASSUME NEW K, NEW V, NEW f
  PROVE  f \in Maps(K, V) <=> f \in [DOMAIN f -> V] /\ DOMAIN f \subseteq K
<1>1. ASSUME f \in Maps(K, V) PROVE f \in [DOMAIN f -> V] /\ DOMAIN f \subseteq K
  <2>1. PICK D \in SUBSET K : f \in [D -> V]
    BY <1>1 DEF Maps
  <2> QED
    BY <2>1
<1>2. ASSUME f \in [DOMAIN f -> V], DOMAIN f \subseteq K PROVE f \in Maps(K, V)
  BY <1>2 DEF Maps
<1> QED
  BY <1>1, <1>2

LEMMA WithAt ==
  ASSUME NEW f, NEW k, NEW v
  PROVE  /\ DOMAIN With(f, k, v) = DOMAIN f \cup {k}
         /\ With(f, k, v)[k] = v
         /\ \A x \in DOMAIN f : x # k => With(f, k, v)[x] = f[x]
BY DEF With

LEMMA WithType ==
  ASSUME NEW K, NEW V, NEW f \in Maps(K, V), NEW k \in K, NEW v \in V
  PROVE  With(f, k, v) \in Maps(K, V)
<1>1. f \in [DOMAIN f -> V] /\ DOMAIN f \subseteq K
  BY MapsIs
<1>2. With(f, k, v) \in [DOMAIN f \cup {k} -> V]
  BY <1>1 DEF With
<1> QED
  BY <1>1, <1>2, WithAt, MapsIs

LEMMA WithoutAt ==
  ASSUME NEW f, NEW D
  PROVE  /\ DOMAIN Without(f, D) = DOMAIN f \ D
         /\ \A x \in DOMAIN f \ D : Without(f, D)[x] = f[x]
BY DEF Without, Restrict

LEMMA WithoutType ==
  ASSUME NEW K, NEW V, NEW f \in Maps(K, V), NEW D
  PROVE  Without(f, D) \in Maps(K, V)
<1>1. f \in [DOMAIN f -> V] /\ DOMAIN f \subseteq K
  BY MapsIs
<1>2. Without(f, D) \in [DOMAIN f \ D -> V]
  BY <1>1 DEF Without, Restrict
<1> QED
  BY <1>1, <1>2, WithoutAt, MapsIs

\* A function of some keys, with what stands for no value.
Get(f, k, none) == IF k \in DOMAIN f THEN f[k] ELSE none

LEMMA GetWith ==
  ASSUME NEW f, NEW k, NEW v, NEW none
  PROVE  \A x : Get(With(f, k, v), x, none) = IF x = k THEN v ELSE Get(f, x, none)
<1> SUFFICES ASSUME NEW x PROVE Get(With(f, k, v), x, none) = IF x = k THEN v ELSE Get(f, x, none)
  OBVIOUS
<1>1. PICK g : g = With(f, k, v)
  OBVIOUS
<1>2. DOMAIN g = DOMAIN f \cup {k} /\ g[k] = v /\ \A y \in DOMAIN f : y # k => g[y] = f[y]
  BY <1>1 DEF With
<1>3. Get(g, x, none) = IF x = k THEN v ELSE Get(f, x, none)
  BY <1>2 DEF Get
<1> QED
  BY <1>1, <1>3

LEMMA GetWithout ==
  ASSUME NEW f, NEW D, NEW none
  PROVE  \A x : Get(Without(f, D), x, none) = IF x \in D THEN none ELSE Get(f, x, none)
<1> SUFFICES ASSUME NEW x PROVE Get(Without(f, D), x, none) = IF x \in D THEN none ELSE Get(f, x, none)
  OBVIOUS
<1>1. PICK g : g = Without(f, D)
  OBVIOUS
<1>2. DOMAIN g = DOMAIN f \ D /\ \A y \in DOMAIN f \ D : g[y] = f[y]
  BY <1>1 DEF Without, Restrict
<1>3. Get(g, x, none) = IF x \in D THEN none ELSE Get(f, x, none)
  BY <1>2 DEF Get
<1> QED
  BY <1>1, <1>3

LEMMA FlatIs ==
  ASSUME NEW b, NEW k
  PROVE  /\ At(b, k) = Get(b.activeExecutions, k, Null)
         /\ Generation(b, k) = Get(b.generations, k, 0)
         /\ LatestStart(b, k) = Get(b.latestStart, k, 0)
BY DEF At, Generation, LatestStart, Get

LEMMA StoreIs ==
  ASSUME NEW s \in StoreType
  PROVE  /\ s = [viewTabId |-> s.viewTabId, runTabId |-> s.runTabId, screen |-> s.screen, parked |-> s.parked]
         /\ s.viewTabId \in Tabs \cup {Null} /\ s.runTabId \in QueryTabs \cup {Null} /\ s.screen \in Slices
         /\ s.parked \in Maps(Keys, Slices) /\ s.parked \in [DOMAIN s.parked -> Slices] /\ DOMAIN s.parked \subseteq Keys
<1>1. s.parked \in Maps(Keys, Slices)
  BY DEF StoreType
<1> QED
  BY <1>1, MapsIs DEF StoreType

LEMMA BookIs ==
  ASSUME NEW b \in BookType
  PROVE  /\ b.generations \in Maps(Keys \cup Runs, Nat) /\ b.activeExecutions \in Maps(Keys \cup Runs, Runs)
         /\ b.latestStart \in Maps(Keys, Nat) /\ b.runCount \in Nat /\ b.lastStartedTab \in Keys
         /\ DOMAIN b.generations \subseteq Keys \cup Runs /\ DOMAIN b.activeExecutions \subseteq Keys \cup Runs
         /\ DOMAIN b.latestStart \subseteq Keys
         /\ b.generations \in [DOMAIN b.generations -> Nat]
         /\ b.activeExecutions \in [DOMAIN b.activeExecutions -> Runs]
         /\ b.latestStart \in [DOMAIN b.latestStart -> Nat]
<1>1. /\ b.generations \in Maps(Keys \cup Runs, Nat) /\ b.activeExecutions \in Maps(Keys \cup Runs, Runs)
      /\ b.latestStart \in Maps(Keys, Nat) /\ b.runCount \in Nat /\ b.lastStartedTab \in Keys
  BY DEF BookType
<1> QED
  BY <1>1, MapsIs

LEMMA FlatTypes ==
  ASSUME NEW b \in BookType
  PROVE  \A k : /\ Generation(b, k) \in Nat /\ LatestStart(b, k) \in Nat
                /\ At(b, k) # Null => At(b, k) \in Runs /\ k \in Keys \cup Runs
BY BookIs DEF Generation, LatestStart, At

LEMMA RunTypes ==
  ASSUME NEW rs \in [Runs -> RunType]
  PROVE  \A r \in Runs :
           /\ rs[r].phase \in Phases /\ rs[r].tab \in Keys /\ rs[r].own \in BOOLEAN /\ rs[r].key \in Keys \cup Runs
           /\ rs[r].filed \in Keys /\ rs[r].home \in Keys /\ rs[r].generation \in Nat /\ rs[r].seq \in Nat
           /\ rs[r].session \in QueryTabs \cup {Null} /\ rs[r].kind \in {"query", "explain", "page"}
           /\ rs[r].cancelled \in BOOLEAN /\ rs[r].orphaned \in BOOLEAN /\ rs[r].agreed \in BOOLEAN
BY DEF RunType

\* What is proved from flat facts only.
Typed(rs, b) ==
  /\ b.runCount \in Nat
  /\ \A k : /\ Generation(b, k) \in Nat /\ LatestStart(b, k) \in Nat
            /\ At(b, k) # Null => At(b, k) \in Runs /\ k \in Keys \cup Runs
  /\ \A r \in Runs :
       /\ rs[r].tab \in Keys /\ rs[r].own \in BOOLEAN /\ rs[r].key \in Keys \cup Runs
       /\ rs[r].home \in Keys /\ rs[r].generation \in Nat /\ rs[r].seq \in Nat
       /\ rs[r].cancelled \in BOOLEAN /\ rs[r].orphaned \in BOOLEAN

LEMMA TypedIs ==
  ASSUME NEW rs \in [Runs -> RunType], NEW b \in BookType
  PROVE  Typed(rs, b)
BY FlatTypes, RunTypes, BookIs DEF Typed

\* A run starts in a tab.
Started(rs, b, rs2, b2, r, tab, own) ==
  LET key == IF own THEN tab ELSE r IN
  /\ rs2[r].phase = "flying" /\ rs2[r].tab = tab /\ rs2[r].own = own /\ rs2[r].key = key
  /\ rs2[r].filed = tab /\ rs2[r].home = tab /\ rs2[r].generation = Generation(b, key) + 1
  /\ rs2[r].seq = b.runCount + 1 /\ ~rs2[r].cancelled /\ ~rs2[r].orphaned
  /\ tab = NoTab => rs2[r].session = Null
  /\ \A q \in Runs : q # r => rs2[q] = rs[q]
  /\ \A k : Generation(b2, k) = IF k = key THEN Generation(b, key) + 1 ELSE Generation(b, k)
  /\ \A k : At(b2, k) = IF k = key THEN r ELSE At(b, k)
  /\ \A k : LatestStart(b2, k) = IF k = tab THEN b.runCount + 1 ELSE LatestStart(b, k)
  /\ b2.runCount = b.runCount + 1

LEMMA StartRun ==
  ASSUME NEW rs, NEW b, NEW rs2, NEW b2, NEW L, NEW r \in Runs, NEW tab \in Keys, NEW own \in BOOLEAN,
         Typed(rs, b), Started(rs, b, rs2, b2, r, tab, own), RunI(rs, b, L), ~Flown(rs, r)
  PROVE  RunI(rs2, b2, L)
<1>1. \A q \in Runs : Flies(rs2, q) => FlyingI(rs2, q, L)
  <2> SUFFICES ASSUME NEW q \in Runs, Flies(rs2, q) PROVE FlyingI(rs2, q, L)
    OBVIOUS
  <2>1. CASE q = r
    BY <2>1 DEF Started, FlyingI, Typed
  <2>2. CASE q # r
    <3>1. rs2[q] = rs[q]
      BY <2>2 DEF Started
    <3>2. FlyingI(rs, q, L)
      BY <3>1 DEF RunI, Flies
    <3> QED
      BY <3>1, <3>2 DEF FlyingI
  <2> QED
    BY <2>1, <2>2
<1>2. \A q \in Runs : rs2[q].tab = NoTab => rs2[q].session = Null
  BY DEF Started, RunI
<1>3. \A q \in Runs : rs2[q].seq <= b2.runCount
  BY DEF Started, RunI, Typed
<1>4. \A q \in Runs : ~Flown(rs2, q) => rs2[q].seq = 0
  BY DEF Started, RunI, Flown
<1> QED
  BY <1>1, <1>2, <1>3, <1>4 DEF RunI

\* Who is listed after a start.
LEMMA StartList ==
  ASSUME NEW rs, NEW b, NEW rs2, NEW b2, NEW L, NEW r \in Runs, NEW tab \in Keys, NEW own \in BOOLEAN,
         Typed(rs, b), Started(rs, b, rs2, b2, r, tab, own), RunI(rs, b, L), ListI(rs, b, L), ~Flown(rs, r)
  PROVE  ListI(rs2, b2, L)
<1> DEFINE key == IF own THEN tab ELSE r
<1> SUFFICES ASSUME NEW k, At(b2, k) # Null PROVE ListedI(rs2, b2, L, k, At(b2, k))
  BY DEF ListI
<1>1. CASE k = key
  <2>1. At(b2, k) = r /\ Generation(b2, k) = rs2[r].generation
    BY <1>1 DEF Started
  <2>2. \A q \in Runs : rs2[q].seq <= rs2[r].seq
    BY DEF Started, RunI, Typed
  <2> QED
    BY <1>1, <2>1, <2>2 DEF ListedI, Started, Flies
<1>2. CASE k # key
  <2>1. PICK q : q = At(b2, k)
    OBVIOUS
  <2>2. q = At(b, k) /\ q \in Runs /\ ListedI(rs, b, L, k, q)
    BY <1>2, <2>1 DEF Started, Typed, ListI
  <2>3. q # r /\ rs2[q] = rs[q]
    BY <2>2 DEF ListedI, Flies, Flown, Started
  <2>4. Generation(b2, k) = Generation(b, k)
    BY <1>2 DEF Started
  <2>5. ASSUME rs[q].tab \in L, rs[q].own, NEW p \in Runs, rs2[p].own, rs2[p].home = rs[q].home
        PROVE  rs2[p].seq <= rs[q].seq
    <3>1. CASE p = r
      <4>1. FlyingI(rs, q, L)
        BY <2>2 DEF RunI, ListedI
      <4>2. k = tab
        BY <2>2, <2>5, <3>1, <4>1 DEF ListedI, FlyingI, Started
      <4> QED
        BY <1>2, <2>5, <3>1, <4>2 DEF Started
    <3>2. CASE p # r
      BY <2>2, <2>5, <3>2 DEF ListedI, Started
    <3> QED
      BY <3>1, <3>2
  <2> QED
    BY <2>1, <2>2, <2>3, <2>4, <2>5 DEF ListedI, Flies
<1> QED
  BY <1>1, <1>2

LEMMA StartGen ==
  ASSUME NEW rs, NEW b, NEW rs2, NEW b2, NEW L, NEW v, NEW r \in Runs, NEW tab \in Keys, NEW own \in BOOLEAN,
         Typed(rs, b), Started(rs, b, rs2, b2, r, tab, own), RunI(rs, b, L), ListI(rs, b, L), GenI(rs, b, L, v),
         ~Flown(rs, r), own /\ tab = NoTab => v = Null
  PROVE  GenI(rs2, b2, L, v)
<1> DEFINE key == IF own THEN tab ELSE r
<1>0. Runs \cap Keys = {} /\ Null \notin Runs
  BY Distinct
<1> SUFFICES ASSUME NEW q \in Runs, Flies(rs2, q) PROVE SideI(rs2, b2, q) /\ OwnI(rs2, b2, L, v, q)
  BY DEF GenI
<1>1. CASE q = r
  <2>1. Lists(rs2, b2, q) /\ Generation(b2, key) = rs2[q].generation /\ rs2[q].own = own /\ rs2[q].tab = tab
    BY <1>1 DEF Lists, Started
  <2>2. rs2[q].generation \in Nat
    BY <1>1 DEF Started, Typed
  <2> QED
    BY <1>1, <2>1, <2>2 DEF SideI, OwnI
<1>2. CASE q # r
  <2>1. rs2[q] = rs[q] /\ Flies(rs, q) /\ FlyingI(rs, q, L) /\ SideI(rs, b, q) /\ OwnI(rs, b, L, v, q)
    BY <1>2 DEF Started, Flies, RunI, GenI
  <2>2. CASE rs[q].key # key
    <3>1. Generation(b2, rs[q].key) = Generation(b, rs[q].key) /\ At(b2, rs[q].key) = At(b, rs[q].key)
      BY <2>2 DEF Started
    <3>2. SideI(rs2, b2, q)
      BY <2>1, <3>1 DEF SideI, Lists, FlyingI
    <3>3. ASSUME \E p \in Runs : rs[p].own /\ rs[p].home = rs[q].home /\ rs[p].seq > rs[q].seq
          PROVE  \E p \in Runs : rs2[p].own /\ rs2[p].home = rs2[q].home /\ rs2[p].seq > rs2[q].seq
      <4>1. PICK p \in Runs : rs[p].own /\ rs[p].home = rs[q].home /\ rs[p].seq > rs[q].seq
        BY <3>3
      <4>2. p # r
        BY <2>1, <4>1 DEF RunI, Typed
      <4> QED
        BY <2>1, <4>1, <4>2 DEF Started
    <3>4. OwnI(rs2, b2, L, v, q)
      BY <2>1, <3>1, <3>3 DEF OwnI, Lists, FlyingI
    <3> QED
      BY <3>2, <3>4
  <2>3. CASE rs[q].key = key
    <3>1. rs[q].own /\ own /\ rs[q].tab = tab
      BY <1>0, <1>2, <2>1, <2>3 DEF FlyingI, Typed
    <3>2. Generation(b2, tab) = Generation(b, tab) + 1
      BY <3>1 DEF Started
    <3>3. tab \in L => rs[q].generation <= Generation(b, tab)
      BY <2>1, <3>1 DEF OwnI
    <3>4. SideI(rs2, b2, q)
      BY <2>1, <3>1 DEF SideI
    <3>5. ASSUME ~rs[q].cancelled, ~rs[q].orphaned, rs[q].home \in L
          PROVE \E p \in Runs : rs2[p].own /\ rs2[p].home = rs2[q].home /\ rs2[p].seq > rs2[q].seq
      <4>1. CASE rs[q].home = tab
        <5>1. rs2[r].own /\ rs2[r].home = rs2[q].home /\ rs2[r].seq > rs2[q].seq
          BY <2>1, <3>1, <4>1 DEF Started, RunI, Typed
        <5> QED
          BY <5>1
      <4>2. CASE rs[q].home # tab
        <5>1. ~Lists(rs, b, q)
          BY <1>0, <2>1, <3>1, <4>2 DEF ListI, ListedI, Lists
        <5>2. PICK p \in Runs : rs[p].own /\ rs[p].home = rs[q].home /\ rs[p].seq > rs[q].seq
          BY <2>1, <3>1, <3>5, <5>1 DEF OwnI
        <5>3. p # r
          BY <2>1, <5>2 DEF RunI, Typed
        <5> QED
          BY <2>1, <5>2, <5>3 DEF Started
      <4> QED
        BY <4>1, <4>2
    <3>6. OwnI(rs2, b2, L, v, q)
      BY <2>1, <3>1, <3>2, <3>3, <3>5 DEF OwnI, Typed
    <3> QED
      BY <3>4, <3>6
  <2> QED
    BY <2>2, <2>3
<1> QED
  BY <1>1, <1>2

LEMMA StartOrder ==
  ASSUME NEW rs, NEW b, NEW rs2, NEW b2, NEW L, NEW r \in Runs, NEW tab \in Keys, NEW own \in BOOLEAN,
         Typed(rs, b), Started(rs, b, rs2, b2, r, tab, own), RunI(rs, b, L), OrderI(rs, b, L), ~Flown(rs, r)
  PROVE  OrderI(rs2, b2, L)
<1> SUFFICES ASSUME NEW t \in L
             PROVE  /\ \A q \in Runs : rs2[q].seq > 0 /\ rs2[q].home = t => rs2[q].seq <= LatestStart(b2, t)
                    /\ LatestStart(b2, t) > 0 => \E q \in Runs : rs2[q].home = t /\ rs2[q].seq = LatestStart(b2, t)
  BY DEF OrderI
<1>1. CASE t = tab
  <2>1. LatestStart(b2, t) = b.runCount + 1 /\ rs2[r].seq = b.runCount + 1 /\ rs2[r].home = t
    BY <1>1 DEF Started
  <2>2. \A q \in Runs : rs2[q].seq <= b.runCount + 1
    BY DEF Started, RunI, Typed
  <2> QED
    BY <2>1, <2>2
<1>2. CASE t # tab
  <2>1. LatestStart(b2, t) = LatestStart(b, t)
    BY <1>2 DEF Started
  <2>2. \A q \in Runs : rs2[q].seq > 0 /\ rs2[q].home = t => rs2[q].seq <= LatestStart(b2, t)
    BY <1>2, <2>1 DEF OrderI, Started
  <2>3. ASSUME LatestStart(b2, t) > 0 PROVE \E q \in Runs : rs2[q].home = t /\ rs2[q].seq = LatestStart(b2, t)
    <3>1. PICK q \in Runs : rs[q].home = t /\ rs[q].seq = LatestStart(b, t)
      BY <2>1, <2>3 DEF OrderI
    <3>2. q # r
      BY <2>1, <2>3, <3>1 DEF RunI
    <3> QED
      BY <2>1, <3>1, <3>2 DEF Started
  <2> QED
    BY <2>2, <2>3
<1> QED
  BY <1>1, <1>2

\* A spinner is set in its tab.
LEMMA StartSpin ==
  ASSUME NEW rs, NEW b, NEW s, NEW rs2, NEW b2, NEW s2, NEW L, NEW r \in Runs, NEW tab \in Keys, NEW own \in BOOLEAN,
         Typed(rs, b), Started(rs, b, rs2, b2, r, tab, own), RunI(rs, b, L), ListI(rs, b, L), SpinI(rs, b, s, L),
         \A u \in L : Spin(s2, u) <=> u = tab \/ Spin(s, u), ~Flown(rs, r)
  PROVE  SpinI(rs2, b2, s2, L)
<1> DEFINE key == IF own THEN tab ELSE r
<1>0. key \in Keys \cup Runs /\ r # Null /\ Runs \cap Keys = {}
  BY Distinct
<1>1. Busy(rs2, b2, tab)
  <2>1. At(b2, key) = r /\ rs2[r].tab = tab
    BY DEF Started
  <2> QED
    BY <1>0, <2>1 DEF Busy
<1>2. ASSUME NEW u, u # tab PROVE Busy(rs2, b2, u) <=> Busy(rs, b, u)
  <2>1. ASSUME NEW k \in Keys \cup Runs, At(b2, k) # Null, rs2[At(b2, k)].tab = u PROVE At(b, k) # Null /\ rs[At(b, k)].tab = u
    BY <1>2, <2>1 DEF Started, Typed, ListI, ListedI, Flies, Flown
  <2>2. ASSUME NEW k \in Keys \cup Runs, At(b, k) # Null, rs[At(b, k)].tab = u PROVE At(b2, k) # Null /\ rs2[At(b2, k)].tab = u
    <3>1. PICK q \in Runs : q = At(b, k)
      BY <2>2 DEF Typed
    <3>2. ListedI(rs, b, L, k, q) /\ FlyingI(rs, q, L)
      BY <2>2, <3>1 DEF ListI, ListedI, RunI
    <3>3. q # r /\ k # key
      BY <1>0, <1>2, <2>2, <3>1, <3>2 DEF ListedI, FlyingI, Flies, Flown, Typed
    <3> QED
      BY <1>0, <2>2, <3>1, <3>3 DEF Started
  <2> QED
    BY <2>1, <2>2 DEF Busy
<1> QED
  BY <1>1, <1>2 DEF SpinI

\* Runs that wait, or waited, for the user change; none that ran does.
Waited(rs, rs2) ==
  \A q \in Runs :
    \/ rs2[q] = rs[q]
    \/ /\ ~Flown(rs, q) /\ ~Flies(rs2, q) /\ rs2[q].seq = rs[q].seq
       /\ rs2[q].tab = NoTab => rs2[q].session = Null

LEMMA WaitCore ==
  ASSUME NEW rs, NEW b, NEW s, NEW rs2, NEW s2, NEW L, Typed(rs, b), Typed(rs2, b),
         Waited(rs, rs2), CoreI(rs, b, s, L), s2.viewTabId = s.viewTabId, \A t \in L : Spin(s2, t) <=> Spin(s, t)
  PROVE  CoreI(rs2, b, s2, L)
<1> DEFINE v == s.viewTabId
<1>1. RunI(rs, b, L) /\ ListI(rs, b, L) /\ GenI(rs, b, L, v) /\ OrderI(rs, b, L) /\ SpinI(rs, b, s, L)
  BY DEF CoreI
<1>2. \A q \in Runs : Flies(rs2, q) => rs2[q] = rs[q] /\ Flies(rs, q)
  BY DEF Waited, Flies
<1>3. \A q \in Runs : Flies(rs, q) => rs2[q] = rs[q] /\ Flies(rs2, q)
  BY DEF Waited, Flies, Flown
<1>4. \A q \in Runs : rs2[q].seq = rs[q].seq /\ (rs2[q].seq > 0 => rs2[q] = rs[q])
  BY <1>1 DEF Waited, RunI, Typed
<1>5. RunI(rs2, b, L)
  <2>1. \A q \in Runs : Flies(rs2, q) => FlyingI(rs2, q, L)
    BY <1>1, <1>2 DEF RunI, FlyingI
  <2>2. \A q \in Runs : ~Flown(rs2, q) => rs2[q].seq = 0
    BY <1>1 DEF RunI, Waited, Flown
  <2> QED
    BY <1>1, <1>4, <2>1, <2>2 DEF RunI, Waited
<1>6. ListI(rs2, b, L)
  <2> SUFFICES ASSUME NEW k, At(b, k) # Null PROVE ListedI(rs2, b, L, k, At(b, k))
    BY DEF ListI
  <2>1. PICK q \in Runs : q = At(b, k)
    BY DEF Typed
  <2>2. ListedI(rs, b, L, k, q)
    BY <1>1, <2>1 DEF ListI
  <2>3. rs2[q] = rs[q] /\ Flies(rs2, q)
    BY <1>3, <2>2 DEF ListedI
  <2>4. ASSUME rs[q].tab \in L, rs[q].own, NEW p \in Runs, rs2[p].own, rs2[p].home = rs[q].home
        PROVE  rs2[p].seq <= rs[q].seq
    <3>1. CASE rs2[p].seq > 0
      BY <1>4, <2>2, <2>4, <3>1 DEF ListedI
    <3> QED
      BY <3>1 DEF Typed
  <2> QED
    BY <2>1, <2>2, <2>3, <2>4 DEF ListedI
<1>7. GenI(rs2, b, L, v)
  <2> SUFFICES ASSUME NEW q \in Runs, Flies(rs2, q) PROVE SideI(rs2, b, q) /\ OwnI(rs2, b, L, v, q)
    BY DEF GenI
  <2>1. rs2[q] = rs[q] /\ SideI(rs, b, q) /\ OwnI(rs, b, L, v, q)
    BY <1>1, <1>2 DEF GenI
  <2>2. ASSUME \E p \in Runs : rs[p].own /\ rs[p].home = rs[q].home /\ rs[p].seq > rs[q].seq
        PROVE  \E p \in Runs : rs2[p].own /\ rs2[p].home = rs2[q].home /\ rs2[p].seq > rs2[q].seq
    <3>1. PICK p \in Runs : rs[p].own /\ rs[p].home = rs[q].home /\ rs[p].seq > rs[q].seq
      BY <2>2
    <3>2. rs2[p] = rs[p]
      BY <1>4, <3>1 DEF Typed
    <3> QED
      BY <2>1, <3>1, <3>2
  <2> QED
    BY <2>1, <2>2 DEF SideI, OwnI, Lists
<1>8. OrderI(rs2, b, L)
  <2>1. ASSUME NEW t \in L, LatestStart(b, t) > 0 PROVE \E q \in Runs : rs2[q].home = t /\ rs2[q].seq = LatestStart(b, t)
    <3>1. PICK q \in Runs : rs[q].home = t /\ rs[q].seq = LatestStart(b, t)
      BY <1>1, <2>1 DEF OrderI
    <3> QED
      BY <1>4, <2>1, <3>1
  <2> QED
    BY <1>1, <1>4, <2>1 DEF OrderI
<1>9. SpinI(rs2, b, s2, L)
  <2>1. \A k : At(b, k) # Null => rs2[At(b, k)] = rs[At(b, k)]
    BY <1>1, <1>3 DEF ListI, ListedI, Typed
  <2>2. \A t : Busy(rs2, b, t) <=> Busy(rs, b, t)
    BY <2>1 DEF Busy
  <2> QED
    BY <1>1, <2>2 DEF SpinI
<1> QED
  BY <1>5, <1>6, <1>7, <1>8, <1>9 DEF CoreI

-----------------------------------------------------------------------------
\* A run's statement ended.
Landed(rs, b, rs2, b2, r) ==
  /\ rs2[r].phase = "done" /\ rs2[r].tab = rs[r].tab /\ rs2[r].own = rs[r].own /\ rs2[r].key = rs[r].key
  /\ rs2[r].home = rs[r].home /\ rs2[r].seq = rs[r].seq /\ rs2[r].session = rs[r].session
  /\ rs2[r].cancelled = rs[r].cancelled
  /\ \A q \in Runs : q # r => rs2[q] = rs[q]
  /\ \A k : Generation(b2, k) = IF ~rs[r].own /\ k = rs[r].key THEN 0 ELSE Generation(b, k)
  /\ \A k : At(b2, k) = IF k = rs[r].key /\ At(b, k) = r THEN Null ELSE At(b, k)
  /\ \A k : LatestStart(b2, k) = LatestStart(b, k)
  /\ b2.runCount = b.runCount

\* A run of the pane that is not listed any more leaves the others' keys alone.
LEMMA LandedKeys ==
  ASSUME NEW rs, NEW b, NEW rs2, NEW b2, NEW L, NEW r \in Runs, Typed(rs, b), Landed(rs, b, rs2, b2, r),
         RunI(rs, b, L), Flies(rs, r), NEW q \in Runs, Flies(rs, q), q # r
  PROVE  Generation(b2, rs[q].key) = Generation(b, rs[q].key) /\ (Lists(rs2, b2, q) <=> Lists(rs, b, q))
<1>1. FlyingI(rs, q, L) /\ FlyingI(rs, r, L) /\ Runs \cap Keys = {} /\ Null \notin Runs
  BY Distinct DEF RunI
<1>2. ~rs[r].own => rs[q].key # rs[r].key
  BY <1>1 DEF FlyingI, Typed
<1> QED
  BY <1>1, <1>2 DEF Landed, Lists

LEMMA LandCore ==
  ASSUME NEW rs, NEW b, NEW s, NEW rs2, NEW b2, NEW s2, NEW L, NEW r \in Runs, Typed(rs, b), Typed(rs2, b2),
         Landed(rs, b, rs2, b2, r), CoreI(rs, b, s, L), Flies(rs, r), s2.viewTabId = s.viewTabId,
         \A t \in L : Spin(s2, t) <=> IF t = rs[r].tab THEN Busy(rs2, b2, t) ELSE Spin(s, t)
  PROVE  CoreI(rs2, b2, s2, L)
<1> DEFINE v == s.viewTabId
<1>0. Runs \cap Keys = {} /\ Null \notin Runs
  BY Distinct
<1>1. RunI(rs, b, L) /\ ListI(rs, b, L) /\ GenI(rs, b, L, v) /\ OrderI(rs, b, L) /\ SpinI(rs, b, s, L) /\ FlyingI(rs, r, L)
  BY DEF CoreI, RunI
<1>2. \A q \in Runs : /\ Flies(rs2, q) => q # r /\ rs2[q] = rs[q] /\ Flies(rs, q) /\ FlyingI(rs, q, L)
                      /\ rs2[q].seq = rs[q].seq /\ rs2[q].home = rs[q].home /\ rs2[q].own = rs[q].own
                      /\ rs2[q].tab = rs[q].tab
  BY <1>1 DEF Landed, Flies, RunI
<1>3. RunI(rs2, b2, L)
  <2>1. \A q \in Runs : Flies(rs2, q) => FlyingI(rs2, q, L)
    BY <1>2 DEF FlyingI
  <2> QED
    BY <1>1, <2>1 DEF RunI, Landed, Flown
<1>4. ListI(rs2, b2, L)
  <2> SUFFICES ASSUME NEW k, At(b2, k) # Null PROVE ListedI(rs2, b2, L, k, At(b2, k))
    BY DEF ListI
  <2>1. PICK q \in Runs : q = At(b2, k)
    BY DEF Typed
  <2>2. q = At(b, k) /\ ListedI(rs, b, L, k, q)
    BY <1>1, <2>1 DEF ListI, Landed
  <2>3. q # r
    BY <2>1, <2>2, <1>0 DEF ListedI, Landed
  <2>4. rs2[q] = rs[q] /\ Flies(rs2, q) /\ rs[q].key = k
    BY <2>2, <2>3 DEF Landed, ListedI, Flies
  <2>5. Generation(b2, k) = Generation(b, k)
    BY <1>1, <2>2, <2>3, <2>4, LandedKeys DEF ListedI
  <2> QED
    BY <1>2, <2>1, <2>2, <2>4, <2>5 DEF ListedI
<1>5. GenI(rs2, b2, L, v)
  <2> SUFFICES ASSUME NEW q \in Runs, Flies(rs2, q) PROVE SideI(rs2, b2, q) /\ OwnI(rs2, b2, L, v, q)
    BY DEF GenI
  <2>1. rs2[q] = rs[q] /\ SideI(rs, b, q) /\ OwnI(rs, b, L, v, q) /\ FlyingI(rs, q, L) /\ q # r /\ Flies(rs, q)
    BY <1>1, <1>2 DEF GenI
  <2>2. Generation(b2, rs[q].key) = Generation(b, rs[q].key) /\ (Lists(rs2, b2, q) <=> Lists(rs, b, q))
    BY <1>1, <2>1, LandedKeys
  <2>3. SideI(rs2, b2, q)
    BY <2>1, <2>2 DEF SideI, FlyingI
  <2>4. OwnI(rs2, b2, L, v, q)
    BY <1>2, <2>1, <2>2 DEF OwnI, FlyingI
  <2> QED
    BY <2>3, <2>4
<1>6. OrderI(rs2, b2, L)
  BY <1>1, <1>2 DEF OrderI, Landed
<1>7. SpinI(rs2, b2, s2, L)
  <2> SUFFICES ASSUME NEW t \in L, t # rs[r].tab PROVE Busy(rs2, b2, t) <=> Busy(rs, b, t)
    BY <1>1 DEF SpinI
  <2>1. \A k : At(b2, k) # Null => At(b2, k) = At(b, k) /\ rs2[At(b, k)].tab = rs[At(b, k)].tab
    BY <1>2 DEF Landed, Typed
  <2>2. \A k : At(b, k) # Null /\ rs[At(b, k)].tab = t => At(b2, k) = At(b, k) /\ rs2[At(b, k)].tab = t
    BY <1>2 DEF Landed, Typed
  <2> QED
    BY <2>1, <2>2 DEF Busy
<1> QED
  BY <1>3, <1>4, <1>5, <1>6, <1>7 DEF CoreI

-----------------------------------------------------------------------------
\* A listed run is cancelled.
Cancelled(rs, b, rs2, b2, r) ==
  /\ rs2[r].phase = rs[r].phase /\ rs2[r].tab = rs[r].tab /\ rs2[r].own = rs[r].own /\ rs2[r].key = rs[r].key
  /\ rs2[r].home = rs[r].home /\ rs2[r].seq = rs[r].seq /\ rs2[r].session = rs[r].session
  /\ rs2[r].generation = rs[r].generation /\ rs2[r].filed = rs[r].filed /\ rs2[r].orphaned = rs[r].orphaned
  /\ rs2[r].cancelled
  /\ \A q \in Runs : q # r => rs2[q] = rs[q]
  /\ \A k : Generation(b2, k) = IF k = rs[r].key THEN Generation(b, k) + 1 ELSE Generation(b, k)
  /\ \A k : At(b2, k) = IF k = rs[r].key THEN Null ELSE At(b, k)
  /\ \A k : LatestStart(b2, k) = LatestStart(b, k)
  /\ b2.runCount = b.runCount

LEMMA CancelCore ==
  ASSUME NEW rs, NEW b, NEW s, NEW rs2, NEW b2, NEW s2, NEW L, NEW r \in Runs, Typed(rs, b), Typed(rs2, b2),
         Cancelled(rs, b, rs2, b2, r), CoreI(rs, b, s, L), Lists(rs, b, r), s2.viewTabId = s.viewTabId,
         rs[r].tab = NoTab => s.viewTabId = Null,
         rs[r].tab \in L,
         \A t \in L : Spin(s2, t) <=> IF t = rs[r].tab THEN Busy(rs2, b2, t) ELSE Spin(s, t)
  PROVE  CoreI(rs2, b2, s2, L)
<1> DEFINE v == s.viewTabId
<1>0. Runs \cap Keys = {} /\ Null \notin Runs
  BY Distinct
<1>1. RunI(rs, b, L) /\ ListI(rs, b, L) /\ GenI(rs, b, L, v) /\ OrderI(rs, b, L) /\ SpinI(rs, b, s, L)
  BY DEF CoreI
<1>2. Flies(rs, r) /\ FlyingI(rs, r, L) /\ ListedI(rs, b, L, rs[r].key, r)
  BY <1>0, <1>1 DEF Lists, ListI, ListedI, RunI
<1>3. \A q \in Runs : /\ Flies(rs2, q) => Flies(rs, q) /\ FlyingI(rs, q, L)
                      /\ rs2[q].seq = rs[q].seq /\ rs2[q].home = rs[q].home /\ rs2[q].own = rs[q].own
                      /\ rs2[q].tab = rs[q].tab /\ rs2[q].key = rs[q].key /\ rs2[q].generation = rs[q].generation
                      /\ rs2[q].filed = rs[q].filed /\ rs2[q].orphaned = rs[q].orphaned /\ rs2[q].phase = rs[q].phase
                      /\ rs2[q].session = rs[q].session /\ q # r => rs2[q].cancelled = rs[q].cancelled
  BY <1>1 DEF Cancelled, Flies, RunI
<1>4. RunI(rs2, b2, L)
  <2>1. \A q \in Runs : Flies(rs2, q) => FlyingI(rs2, q, L)
    BY <1>3 DEF FlyingI
  <2> QED
    BY <1>1, <1>3, <2>1 DEF RunI, Cancelled, Flown
<1>5. ListI(rs2, b2, L)
  <2> SUFFICES ASSUME NEW k, At(b2, k) # Null PROVE ListedI(rs2, b2, L, k, At(b2, k))
    BY DEF ListI
  <2>1. PICK q \in Runs : q = At(b2, k)
    BY DEF Typed
  <2>2. k # rs[r].key /\ q = At(b, k) /\ ListedI(rs, b, L, k, q)
    BY <1>0, <1>1, <2>1 DEF ListI, Cancelled
  <2>3. q # r /\ Generation(b2, k) = Generation(b, k)
    BY <2>2 DEF ListedI, Cancelled
  <2>4. rs2[q] = rs[q] /\ Flies(rs2, q)
    BY <2>2, <2>3 DEF Cancelled, ListedI, Flies
  <2> QED
    BY <1>3, <2>1, <2>2, <2>3, <2>4 DEF ListedI
<1>6. GenI(rs2, b2, L, v)
  <2> SUFFICES ASSUME NEW q \in Runs, Flies(rs2, q) PROVE SideI(rs2, b2, q) /\ OwnI(rs2, b2, L, v, q)
    BY DEF GenI
  <2>1. SideI(rs, b, q) /\ OwnI(rs, b, L, v, q) /\ FlyingI(rs, q, L) /\ Flies(rs, q)
    BY <1>1, <1>3 DEF GenI
  <2>2. CASE rs[q].key # rs[r].key
    <3>1. Generation(b2, rs[q].key) = Generation(b, rs[q].key) /\ (Lists(rs2, b2, q) <=> Lists(rs, b, q)) /\ q # r
      BY <1>3, <2>2 DEF Cancelled, Lists
    <3>2. rs2[q] = rs[q]
      BY <3>1 DEF Cancelled
    <3>3. SideI(rs2, b2, q)
      BY <2>1, <3>1, <3>2 DEF SideI, FlyingI
    <3>4. ASSUME \E p \in Runs : rs[p].own /\ rs[p].home = rs[q].home /\ rs[p].seq > rs[q].seq
          PROVE  \E p \in Runs : rs2[p].own /\ rs2[p].home = rs2[q].home /\ rs2[p].seq > rs2[q].seq
      BY <1>3, <3>4
    <3>5. OwnI(rs2, b2, L, v, q)
      BY <2>1, <3>1, <3>2, <3>4 DEF OwnI, FlyingI
    <3> QED
      BY <3>3, <3>5
  <2>3. CASE rs[q].key = rs[r].key /\ ~rs[q].own
    <3>1. q = r
      BY <1>0, <1>2, <2>1, <2>3 DEF FlyingI, Typed
    <3>2. Generation(b2, r) = rs[r].generation + 1
      BY <1>2, <2>3, <3>1 DEF Cancelled, ListedI, FlyingI
    <3> QED
      BY <2>3, <3>1, <3>2 DEF SideI, OwnI, Cancelled, Typed
  <2>4. CASE rs[q].key = rs[r].key /\ rs[q].own
    <3>1. rs[r].own /\ rs[q].tab = rs[r].tab
      BY <1>0, <1>2, <2>1, <2>4 DEF FlyingI, Typed
    <3>2. rs[q].generation <= Generation(b, rs[q].tab)
      BY <2>1, <2>4, <3>1 DEF OwnI
    <3>3. Generation(b2, rs[q].tab) = Generation(b, rs[q].tab) + 1
      BY <2>1, <2>4 DEF Cancelled, FlyingI
    <3>4. ASSUME ~rs2[q].cancelled, ~rs2[q].orphaned, rs2[q].home \in L
          PROVE  \E p \in Runs : rs2[p].own /\ rs2[p].home = rs2[q].home /\ rs2[p].seq > rs2[q].seq
      <4>1. q # r
        BY <3>4 DEF Cancelled
      <4>2. ~Lists(rs, b, q)
        BY <2>4, <4>1 DEF Lists
      <4>3. rs2[q] = rs[q]
        BY <4>1 DEF Cancelled
      <4>4. PICK p \in Runs : rs[p].own /\ rs[p].home = rs[q].home /\ rs[p].seq > rs[q].seq
        BY <2>1, <2>4, <3>4, <4>2, <4>3 DEF OwnI
      <4> QED
        BY <1>3, <4>4
    <3>5. rs2[q].tab = rs[q].tab /\ rs2[q].generation = rs[q].generation /\ rs2[q].own
      BY <1>3, <2>4
    <3>6. Generation(b, rs[q].tab) \in Nat /\ rs[q].generation \in Nat
      BY DEF Typed
    <3>7. SideI(rs2, b2, q)
      BY <3>5 DEF SideI
    <3>8. OwnI(rs2, b2, L, v, q)
      BY <3>2, <3>3, <3>4, <3>5, <3>6 DEF OwnI
    <3> QED
      BY <3>7, <3>8
  <2> QED
    BY <2>2, <2>3, <2>4
<1>7. OrderI(rs2, b2, L)
  BY <1>1, <1>3 DEF OrderI, Cancelled
<1>8. SpinI(rs2, b2, s2, L)
  <2> SUFFICES ASSUME NEW t \in L, t # rs[r].tab PROVE Busy(rs2, b2, t) <=> Busy(rs, b, t)
    BY <1>1 DEF SpinI
  <2>1. \A k : At(b2, k) # Null => At(b2, k) = At(b, k) /\ rs2[At(b, k)].tab = rs[At(b, k)].tab
    BY <1>3 DEF Cancelled, Typed
  <2>2. \A k : At(b, k) # Null /\ rs[At(b, k)].tab = t => At(b2, k) = At(b, k) /\ rs2[At(b, k)].tab = t
    <3> SUFFICES ASSUME NEW k, At(b, k) # Null, rs[At(b, k)].tab = t PROVE At(b2, k) = At(b, k) /\ rs2[At(b, k)].tab = t
      OBVIOUS
    <3>1. At(b, k) # r
      OBVIOUS
    <3>2. k # rs[r].key
      BY <3>1 DEF Lists
    <3> QED
      BY <1>3, <3>2 DEF Cancelled, Typed
  <2> QED
    BY <2>1, <2>2 DEF Busy
<1> QED
  BY <1>4, <1>5, <1>6, <1>7, <1>8 DEF CoreI

\* Nothing ran, or is filed, under a tab that was never open.
Untouched(rs, b, t) ==
  /\ Generation(b, t) = 0 /\ At(b, t) = Null /\ LatestStart(b, t) = 0
  /\ \A q \in Runs : rs[q].tab # t /\ rs[q].home # t /\ rs[q].session # t

\* A tab comes on screen, or the last one goes, and no run changes hands.
LEMMA ShowCore ==
  ASSUME NEW rs, NEW b, NEW s, NEW s2, NEW L, NEW L2, Typed(rs, b), CoreI(rs, b, s, L),
         \A u \in L2 : u \in L \/ Untouched(rs, b, u),
         s2.viewTabId # Null \/ s.viewTabId = Null \/ \A q \in Runs : ~Flies(rs, q),
         \A u \in L2 : Spin(s2, u) <=> u \in L /\ Spin(s, u)
  PROVE  CoreI(rs, b, s2, L2)
<1>1. RunI(rs, b, L) /\ ListI(rs, b, L) /\ GenI(rs, b, L, s.viewTabId) /\ OrderI(rs, b, L) /\ SpinI(rs, b, s, L)
  BY DEF CoreI
<1>2. \A q \in Runs : (rs[q].tab \in L2 => rs[q].tab \in L) /\ (rs[q].home \in L2 => rs[q].home \in L)
  BY DEF Untouched
<1>3. RunI(rs, b, L2)
  BY <1>1, <1>2 DEF RunI, FlyingI
<1>4. ListI(rs, b, L2)
  BY <1>1, <1>2 DEF ListI, ListedI, Typed
<1>5. GenI(rs, b, L2, s2.viewTabId)
  BY <1>1, <1>2 DEF GenI, OwnI
<1>6. OrderI(rs, b, L2)
  BY <1>1 DEF OrderI, Untouched, Typed
<1>7. SpinI(rs, b, s2, L2)
  <2> SUFFICES ASSUME NEW u \in L2, u \notin L PROVE ~Busy(rs, b, u)
    BY <1>1 DEF SpinI
  <2> QED
    BY DEF Untouched, Busy, Typed
<1> QED
  BY <1>3, <1>4, <1>5, <1>6, <1>7 DEF CoreI

-----------------------------------------------------------------------------
\* The runs under no tab that are handed over.
Moves(rs, b, q) == Lists(rs, b, q) /\ rs[q].tab = NoTab

Adopted(rs, b, rs2, b2, t) ==
  /\ \A q \in Runs :
       /\ rs2[q].phase = rs[q].phase /\ rs2[q].own = rs[q].own /\ rs2[q].filed = rs[q].filed
       /\ rs2[q].seq = rs[q].seq /\ rs2[q].session = rs[q].session /\ rs2[q].kind = rs[q].kind
       /\ rs2[q].cancelled = rs[q].cancelled /\ rs2[q].orphaned = rs[q].orphaned /\ rs2[q].agreed = rs[q].agreed
       /\ rs2[q].tab = IF Moves(rs, b, q) THEN t ELSE rs[q].tab
       /\ rs2[q].key = IF Moves(rs, b, q) /\ rs[q].own THEN t ELSE rs[q].key
       /\ rs2[q].generation = IF Moves(rs, b, q) /\ rs[q].own THEN 1 ELSE rs[q].generation
       /\ rs2[q].home = IF rs[q].home = NoTab THEN t ELSE rs[q].home
  /\ \A k : Generation(b2, k) = IF k = NoTab THEN 0
                                ELSE IF k = t THEN IF At(b, NoTab) # Null THEN 1 ELSE 0 ELSE Generation(b, k)
  /\ \A k : At(b2, k) = IF k = NoTab THEN Null ELSE IF k = t THEN At(b, NoTab) ELSE At(b, k)
  /\ \A k : LatestStart(b2, k) = IF k = NoTab THEN 0 ELSE IF k = t THEN LatestStart(b, NoTab) ELSE LatestStart(b, k)
  /\ b2.runCount = b.runCount

\* Who is listed after the handover, and under which key.
LEMMA AdoptLists ==
  ASSUME NEW rs, NEW b, NEW rs2, NEW b2, NEW t \in Tabs, NEW L, NoTab \in L, Typed(rs, b), Typed(rs2, b2),
         Untouched(rs, b, t), Adopted(rs, b, rs2, b2, t), RunI(rs, b, L), ListI(rs, b, L)
  PROVE  /\ \A q \in Runs : Flies(rs, q) => (Lists(rs2, b2, q) <=> Lists(rs, b, q))
         /\ \A k : At(b2, k) # Null => LET q == At(b2, k) IN
              /\ q \in Runs /\ rs2[q].key = k /\ Lists(rs, b, q) /\ Flies(rs, q)
              /\ k = t => Moves(rs, b, q) /\ rs[q].own
              /\ k # t => k # NoTab /\ rs[q].key = k /\ ~(Moves(rs, b, q) /\ rs[q].own)
         /\ \A q \in Runs : Moves(rs, b, q) /\ rs[q].own => At(b, NoTab) = q
<1>0. Runs \cap Keys = {} /\ Null \notin Runs /\ t # NoTab /\ NoTab \in Keys /\ t \in Keys
  BY Distinct
<1>1. ASSUME NEW q \in Runs, Flies(rs, q), Lists(rs, b, q) PROVE Lists(rs2, b2, q)
  <2>1. FlyingI(rs, q, L) /\ rs[q].key # t
    BY <1>0, <1>1 DEF RunI, Lists, Untouched
  <2>2. CASE Moves(rs, b, q) /\ rs[q].own
    BY <1>0, <1>1, <2>1, <2>2 DEF FlyingI, Lists, Moves, Adopted
  <2>3. CASE ~(Moves(rs, b, q) /\ rs[q].own)
    <3>1. rs2[q].key = rs[q].key
      BY <2>3 DEF Adopted
    <3>2. rs[q].key # NoTab
      BY <1>0, <1>1, <2>1, <2>3 DEF FlyingI, Moves
    <3> QED
      BY <1>1, <2>1, <3>1, <3>2 DEF Lists, Adopted
  <2> QED
    BY <2>2, <2>3
<1>2. ASSUME NEW k, At(b2, k) # Null
      PROVE  LET q == At(b2, k) IN
              /\ q \in Runs /\ rs2[q].key = k /\ Lists(rs, b, q) /\ Flies(rs, q)
              /\ k = t => Moves(rs, b, q) /\ rs[q].own
              /\ k # t => k # NoTab /\ rs[q].key = k /\ ~(Moves(rs, b, q) /\ rs[q].own)
  <2>1. PICK q \in Runs : q = At(b2, k)
    BY <1>2 DEF Typed
  <2>2. k # NoTab
    BY <1>2 DEF Adopted
  <2>3. CASE k = t
    <3>1. q = At(b, NoTab)
      BY <1>0, <2>1, <2>3 DEF Adopted
    <3>2. rs[q].key = NoTab /\ Flies(rs, q)
      BY <1>0, <3>1 DEF ListI, ListedI
    <3>3. rs[q].own /\ rs[q].tab = NoTab
      BY <1>0, <3>2 DEF RunI, FlyingI
    <3> QED
      BY <1>0, <2>1, <2>3, <3>1, <3>2, <3>3 DEF Lists, Moves, Adopted
  <2>4. CASE k # t
    <3>1. q = At(b, k)
      BY <2>1, <2>2, <2>4 DEF Adopted
    <3>2. rs[q].key = k /\ Flies(rs, q)
      BY <1>0, <3>1 DEF ListI, ListedI
    <3>3. ~(Moves(rs, b, q) /\ rs[q].own)
      BY <1>0, <2>2, <3>2 DEF RunI, FlyingI, Moves
    <3> QED
      BY <2>1, <2>2, <2>4, <3>1, <3>2, <3>3 DEF Lists, Adopted
  <2> QED
    BY <2>3, <2>4
<1>3. ASSUME NEW q \in Runs, Lists(rs2, b2, q) PROVE Lists(rs, b, q)
  BY <1>0, <1>2, <1>3 DEF Lists
<1>4. ASSUME NEW q \in Runs, Moves(rs, b, q), rs[q].own PROVE At(b, NoTab) = q
  <2>1. At(b, rs[q].key) = q /\ rs[q].tab = NoTab
    BY <1>4 DEF Moves, Lists
  <2>2. Flies(rs, q)
    BY <1>0, <2>1 DEF ListI, ListedI
  <2> QED
    BY <1>4, <2>1, <2>2 DEF RunI, FlyingI
<1> QED
  BY <1>1, <1>2, <1>3, <1>4

LEMMA AdoptCore ==
  ASSUME NEW rs, NEW b, NEW s, NEW rs2, NEW b2, NEW s2, NEW t \in Tabs, NEW L, NoTab \in L, Typed(rs, b), Typed(rs2, b2),
         Untouched(rs, b, t), Adopted(rs, b, rs2, b2, t), CoreI(rs, b, s, L), s2.viewTabId = t,
         L \subseteq Keys,
         Spin(s2, t) <=> Spin(s, NoTab), ~Spin(s2, NoTab),
         \A u \in L : u \notin {t, NoTab} => (Spin(s2, u) <=> Spin(s, u))
  PROVE  CoreI(rs2, b2, s2, L \cup {t})
<1> DEFINE L2 == L \cup {t}
<1>0. Runs \cap Keys = {} /\ Null \notin Runs /\ t # NoTab /\ NoTab \in Keys /\ t \in Keys /\ Null \notin Keys
  BY Distinct
<1>1. RunI(rs, b, L) /\ ListI(rs, b, L) /\ GenI(rs, b, L, s.viewTabId) /\ OrderI(rs, b, L) /\ SpinI(rs, b, s, L)
  BY DEF CoreI
<1>2. /\ \A q \in Runs : Flies(rs, q) => (Lists(rs2, b2, q) <=> Lists(rs, b, q))
      /\ \A k : At(b2, k) # Null => LET q == At(b2, k) IN
              /\ q \in Runs /\ rs2[q].key = k /\ Lists(rs, b, q) /\ Flies(rs, q)
              /\ k = t => Moves(rs, b, q) /\ rs[q].own
              /\ k # t => k # NoTab /\ rs[q].key = k /\ ~(Moves(rs, b, q) /\ rs[q].own)
      /\ \A q \in Runs : Moves(rs, b, q) /\ rs[q].own => At(b, NoTab) = q
  BY <1>1, AdoptLists
<1>3. \A q \in Runs : Flies(rs2, q) => Flies(rs, q) /\ FlyingI(rs, q, L)
  BY <1>1 DEF Adopted, Flies, RunI
<1>4. \A q \in Runs : Lists(rs, b, q) => Flies(rs, q) /\ ~rs[q].cancelled /\ rs[q].home = rs[q].tab
                                         /\ ListedI(rs, b, L, rs[q].key, q)
  BY <1>0, <1>1 DEF Lists, ListI, ListedI
<1>5. \A p, q \in Runs : rs2[p].home = rs2[q].home <=> rs[p].home = rs[q].home
  BY DEF Adopted, Untouched
<1>6. \A q \in Runs : /\ rs2[q].home = rs2[q].tab \/ rs2[q].tab = NoTab \/ ~Flies(rs, q)
                      /\ rs2[q].tab = t <=> Moves(rs, b, q)
  <2>1. \A q \in Runs : rs2[q].tab = t <=> Moves(rs, b, q)
    BY DEF Adopted, Untouched
  <2>2. ASSUME NEW q \in Runs, Flies(rs, q), rs2[q].tab # NoTab PROVE rs2[q].home = rs2[q].tab
    <3>1. FlyingI(rs, q, L)
      BY <1>1, <2>2 DEF RunI
    <3>2. CASE Moves(rs, b, q)
      BY <1>4, <3>2 DEF Adopted, Moves
    <3>3. CASE ~Moves(rs, b, q)
      BY <2>2, <3>1, <3>3 DEF Adopted, FlyingI
    <3> QED
      BY <3>2, <3>3
  <2> QED
    BY <2>1, <2>2
<1>7. RunI(rs2, b2, L2)
  <2>1. ASSUME NEW q \in Runs, Flies(rs2, q) PROVE FlyingI(rs2, q, L2)
    <3>1. FlyingI(rs, q, L) /\ Flies(rs, q)
      BY <1>3, <2>1
    <3>2. rs2[q].orphaned => rs2[q].tab \notin L2
      BY <1>6, <3>1 DEF FlyingI, Adopted, Moves
    <3>3. rs2[q].filed \in {NoTab, rs2[q].tab}
      BY <3>1 DEF FlyingI, Adopted, Moves
    <3>4. IF rs2[q].own THEN rs2[q].key = rs2[q].tab ELSE rs2[q].key = q
      BY <3>1 DEF FlyingI, Adopted, Moves
    <3>5. rs2[q].seq > 0 /\ rs2[q].generation > 0
      BY <3>1 DEF FlyingI, Adopted
    <3> QED
      BY <1>6, <3>1, <3>2, <3>3, <3>4, <3>5 DEF FlyingI
  <2>2. \A q \in Runs : rs2[q].tab = NoTab => rs2[q].session = Null
    BY <1>0, <1>1 DEF RunI, Adopted
  <2>3. \A q \in Runs : rs2[q].seq <= b2.runCount /\ (~Flown(rs2, q) => rs2[q].seq = 0)
    BY <1>1 DEF RunI, Adopted, Flown
  <2> QED
    BY <2>1, <2>2, <2>3 DEF RunI
<1>8. ListI(rs2, b2, L2)
  <2> SUFFICES ASSUME NEW k, At(b2, k) # Null PROVE ListedI(rs2, b2, L2, k, At(b2, k))
    BY DEF ListI
  <2>1. PICK q \in Runs : q = At(b2, k)
    BY <1>2
  <2>2. /\ rs2[q].key = k /\ Lists(rs, b, q) /\ Flies(rs, q)
        /\ k = t => Moves(rs, b, q) /\ rs[q].own
        /\ k # t => k # NoTab /\ rs[q].key = k /\ ~(Moves(rs, b, q) /\ rs[q].own)
    BY <1>2, <2>1
  <2>3. ListedI(rs, b, L, rs[q].key, q) /\ rs[q].home = rs[q].tab
    BY <1>4, <2>2
  <2>4. rs2[q].home = rs2[q].tab
    BY <1>0, <2>2, <2>3 DEF Adopted, Moves, Untouched
  <2>5. rs2[q].tab \in L2 => Generation(b2, k) = rs2[q].generation
    <3>1. CASE k = t
      BY <1>0, <1>2, <2>1, <2>2, <3>1 DEF Adopted
    <3>2. CASE k # t
      BY <1>6, <2>2, <2>3, <3>2 DEF Adopted, ListedI, Moves
    <3> QED
      BY <3>1, <3>2
  <2>6. rs2[q].tab \in L2 /\ rs2[q].own =>
          \A p \in Runs : rs2[p].own /\ rs2[p].home = rs2[q].home => rs2[p].seq <= rs2[q].seq
    BY <1>5, <1>6, <2>3 DEF Adopted, ListedI, Moves
  <2> QED
    BY <2>1, <2>2, <2>3, <2>4, <2>5, <2>6 DEF ListedI, Adopted, Flies
<1>9. GenI(rs2, b2, L2, t)
  <2> SUFFICES ASSUME NEW q \in Runs, Flies(rs2, q) PROVE SideI(rs2, b2, q) /\ OwnI(rs2, b2, L2, t, q)
    BY <1>0 DEF GenI
  <2>1. SideI(rs, b, q) /\ OwnI(rs, b, L, s.viewTabId, q) /\ Flies(rs, q) /\ FlyingI(rs, q, L)
    BY <1>1, <1>3 DEF GenI
  <2>2. Lists(rs2, b2, q) <=> Lists(rs, b, q)
    BY <1>2, <2>1
  <2>3. SideI(rs2, b2, q)
    BY <1>0, <2>1, <2>2 DEF SideI, Adopted
  <2>4. ASSUME rs2[q].own, rs2[q].tab \in L2, Generation(b2, rs2[q].tab) = rs2[q].generation PROVE Lists(rs2, b2, q)
    <3>1. CASE Moves(rs, b, q)
      BY <2>2, <3>1 DEF Moves
    <3>2. CASE ~Moves(rs, b, q)
      <4>1. rs2[q].tab = rs[q].tab /\ rs2[q].generation = rs[q].generation /\ rs[q].tab # t /\ rs[q].own
        BY <1>6, <2>4, <3>2 DEF Adopted
      <4>2. rs[q].tab # NoTab
        BY <2>1, <2>4, <4>1, <1>0 DEF Adopted, FlyingI
      <4>3. Generation(b, rs[q].tab) = rs[q].generation
        BY <2>4, <4>1, <4>2 DEF Adopted
      <4> QED
        BY <2>1, <2>2, <2>4, <4>1, <4>3 DEF OwnI
    <3> QED
      BY <3>1, <3>2
  <2>5. ASSUME rs2[q].own, rs2[q].tab \in L2, rs2[q].tab # NoTab PROVE rs2[q].generation <= Generation(b2, rs2[q].tab)
    <3>1. CASE Moves(rs, b, q)
      <4>1. At(b, NoTab) = q /\ rs2[q].tab = t /\ rs2[q].generation = 1
        BY <1>2, <2>5, <3>1 DEF Adopted
      <4>2. Generation(b2, t) = 1
        BY <1>0, <4>1 DEF Adopted
      <4> QED
        BY <4>1, <4>2
    <3>2. CASE ~Moves(rs, b, q)
      <4>1. rs2[q].tab = rs[q].tab /\ rs2[q].generation = rs[q].generation /\ rs[q].tab # t /\ rs[q].own
        BY <1>6, <2>5, <3>2 DEF Adopted
      <4>2. Generation(b2, rs[q].tab) = Generation(b, rs[q].tab)
        BY <2>5, <4>1 DEF Adopted
      <4> QED
        BY <2>1, <2>5, <4>1, <4>2 DEF OwnI
    <3> QED
      BY <3>1, <3>2
  <2>6. ASSUME rs2[q].own, ~rs2[q].cancelled, ~rs2[q].orphaned, rs2[q].home \in L2, ~Lists(rs2, b2, q)
        PROVE  \E p \in Runs : rs2[p].own /\ rs2[p].home = rs2[q].home /\ rs2[p].seq > rs2[q].seq
    <3>1. rs[q].own /\ ~rs[q].cancelled /\ ~rs[q].orphaned /\ rs[q].home \in L /\ ~Lists(rs, b, q)
      BY <2>2, <2>6 DEF Adopted, Untouched
    <3>2. PICK p \in Runs : rs[p].own /\ rs[p].home = rs[q].home /\ rs[p].seq > rs[q].seq
      BY <2>1, <3>1 DEF OwnI
    <3> QED
      BY <1>5, <3>2 DEF Adopted
  <2>7. OwnI(rs2, b2, L2, t, q)
    BY <1>0, <2>4, <2>5, <2>6 DEF OwnI
  <2> QED
    BY <2>3, <2>7
<1>10. OrderI(rs2, b2, L2)
  <2> SUFFICES ASSUME NEW u \in L2
               PROVE  /\ \A q \in Runs : rs2[q].seq > 0 /\ rs2[q].home = u => rs2[q].seq <= LatestStart(b2, u)
                      /\ LatestStart(b2, u) > 0 => \E q \in Runs : rs2[q].home = u /\ rs2[q].seq = LatestStart(b2, u)
    BY DEF OrderI
  <2>1. CASE u = t
    BY <1>0, <1>1, <2>1 DEF OrderI, Adopted, Untouched
  <2>2. CASE u = NoTab
    BY <1>0, <2>2 DEF Adopted
  <2>3. CASE u \in L /\ u # t /\ u # NoTab
    BY <1>0, <1>1, <2>3 DEF OrderI, Adopted
  <2> QED
    BY <2>1, <2>2, <2>3
<1>11. SpinI(rs2, b2, s2, L2)
  <2>1. \A u \in Keys : Busy(rs2, b2, u) <=> \E q \in Runs : Lists(rs, b, q) /\ rs2[q].tab = u
    <3>1. ASSUME NEW u \in Keys, Busy(rs2, b2, u) PROVE \E q \in Runs : Lists(rs, b, q) /\ rs2[q].tab = u
      BY <1>2, <3>1 DEF Busy
    <3>2. ASSUME NEW u \in Keys, NEW q \in Runs, Lists(rs, b, q), rs2[q].tab = u PROVE Busy(rs2, b2, u)
      <4>1. At(b2, rs2[q].key) = q
        BY <1>2, <1>4, <3>2 DEF Lists
      <4> QED
        BY <1>0, <3>2, <4>1 DEF Busy, Typed
    <3> QED
      BY <3>1, <3>2
  <2>2. \A u \in Keys : Busy(rs, b, u) <=> \E q \in Runs : Lists(rs, b, q) /\ rs[q].tab = u
    <3>1. ASSUME NEW u \in Keys, Busy(rs, b, u) PROVE \E q \in Runs : Lists(rs, b, q) /\ rs[q].tab = u
      <4>1. PICK k \in Keys \cup Runs : At(b, k) # Null /\ rs[At(b, k)].tab = u
        BY <3>1 DEF Busy
      <4>2. At(b, k) \in Runs /\ rs[At(b, k)].key = k
        BY <1>1, <4>1 DEF ListI, ListedI, Typed
      <4> QED
        BY <4>1, <4>2 DEF Lists
    <3>2. ASSUME NEW u \in Keys, NEW q \in Runs, Lists(rs, b, q), rs[q].tab = u PROVE Busy(rs, b, u)
      BY <1>0, <3>2 DEF Busy, Typed, Lists
    <3> QED
      BY <3>1, <3>2
  <2>3. Busy(rs2, b2, t) <=> Busy(rs, b, NoTab)
    BY <1>0, <1>6, <2>1, <2>2 DEF Moves
  <2>4. ~Busy(rs2, b2, NoTab)
    BY <1>0, <2>1 DEF Adopted, Moves
  <2>5. \A u \in L : u \notin {t, NoTab} => (Busy(rs2, b2, u) <=> Busy(rs, b, u))
    BY <2>1, <2>2 DEF Adopted, Moves
  <2> QED
    BY <1>1, <2>3, <2>4, <2>5 DEF SpinI
<1> QED
  BY <1>7, <1>8, <1>9, <1>10, <1>11 DEF CoreI

-----------------------------------------------------------------------------
\* Tabs are closed.
Forgot(rs, b, rs2, b2, G) ==
  /\ \A q \in Runs :
       /\ rs2[q].phase = rs[q].phase /\ rs2[q].own = rs[q].own /\ rs2[q].filed = rs[q].filed
       /\ rs2[q].seq = rs[q].seq /\ rs2[q].session = rs[q].session /\ rs2[q].kind = rs[q].kind
       /\ rs2[q].cancelled = rs[q].cancelled /\ rs2[q].agreed = rs[q].agreed
       /\ rs2[q].tab = rs[q].tab /\ rs2[q].key = rs[q].key /\ rs2[q].generation = rs[q].generation
       /\ rs2[q].home = rs[q].home
       /\ rs[q].orphaned => rs2[q].orphaned
       /\ rs2[q].orphaned => rs[q].orphaned \/ rs[q].tab \in G
  /\ \A k : Generation(b2, k) = IF (IF k \in Runs THEN rs[k].filed ELSE k) \in G THEN 0 ELSE Generation(b, k)
  /\ \A k : At(b2, k) = At(b, k)
  /\ \A k : LatestStart(b2, k) = IF k \in G THEN 0 ELSE LatestStart(b, k)
  /\ b2.runCount = b.runCount

LEMMA ForgetCore ==
  ASSUME NEW rs, NEW b, NEW s, NEW rs2, NEW b2, NEW s2, NEW G, NEW L, NEW L2, Typed(rs, b), Typed(rs2, b2),
         Forgot(rs, b, rs2, b2, G), CoreI(rs, b, s, L), s2.viewTabId = s.viewTabId,
         L2 \subseteq L, L2 \cap G = {}, NoTab \notin G,
         \A u \in L2 : Spin(s2, u) <=> Spin(s, u)
  PROVE  CoreI(rs2, b2, s2, L2)
<1>0. Runs \cap Keys = {} /\ Null \notin Runs
  BY Distinct
<1>1. RunI(rs, b, L) /\ ListI(rs, b, L) /\ GenI(rs, b, L, s.viewTabId) /\ OrderI(rs, b, L) /\ SpinI(rs, b, s, L)
  BY DEF CoreI
<1>2. \A q \in Runs : Flies(rs2, q) => Flies(rs, q) /\ FlyingI(rs, q, L)
  BY <1>1 DEF Forgot, Flies, RunI
<1>3. \A q \in Runs : Lists(rs2, b2, q) <=> Lists(rs, b, q)
  BY DEF Forgot, Lists
<1>4. ASSUME NEW q \in Runs, FlyingI(rs, q, L), rs[q].tab \in L2 PROVE Generation(b2, rs[q].key) = Generation(b, rs[q].key)
  BY <1>0, <1>4 DEF FlyingI, Forgot, Typed
<1>5. RunI(rs2, b2, L2)
  <2>1. \A q \in Runs : Flies(rs2, q) => FlyingI(rs2, q, L2)
    BY <1>2 DEF FlyingI, Forgot
  <2> QED
    BY <1>1, <2>1 DEF RunI, Forgot, Flown
<1>6. ListI(rs2, b2, L2)
  <2> SUFFICES ASSUME NEW k, At(b2, k) # Null PROVE ListedI(rs2, b2, L2, k, At(b2, k))
    BY DEF ListI
  <2>1. PICK q \in Runs : q = At(b2, k)
    BY DEF Typed
  <2>2. q = At(b, k) /\ ListedI(rs, b, L, k, q) /\ FlyingI(rs, q, L)
    BY <1>0, <1>1, <2>1 DEF ListI, ListedI, Forgot, RunI
  <2>3. rs2[q].tab \in L2 => Generation(b2, k) = rs2[q].generation
    BY <1>4, <2>2 DEF ListedI, Forgot
  <2> QED
    BY <2>1, <2>2, <2>3 DEF ListedI, Forgot, Flies
<1>7. GenI(rs2, b2, L2, s.viewTabId)
  <2> SUFFICES ASSUME NEW q \in Runs, Flies(rs2, q) PROVE SideI(rs2, b2, q) /\ OwnI(rs2, b2, L2, s.viewTabId, q)
    BY DEF GenI
  <2>1. SideI(rs, b, q) /\ OwnI(rs, b, L, s.viewTabId, q) /\ Flies(rs, q) /\ FlyingI(rs, q, L)
    BY <1>1, <1>2 DEF GenI
  <2>2. SideI(rs2, b2, q)
    BY <1>3, <2>1 DEF SideI, Forgot, FlyingI
  <2>3. rs[q].own /\ rs[q].tab \in L2 => Generation(b2, rs[q].tab) = Generation(b, rs[q].tab)
    BY <1>4, <2>1 DEF FlyingI
  <2>4. ASSUME rs2[q].own, ~rs2[q].cancelled, ~rs2[q].orphaned, rs2[q].home \in L2, ~Lists(rs2, b2, q)
        PROVE  \E p \in Runs : rs2[p].own /\ rs2[p].home = rs2[q].home /\ rs2[p].seq > rs2[q].seq
    <3>1. rs[q].own /\ ~rs[q].cancelled /\ ~rs[q].orphaned /\ rs[q].home \in L /\ ~Lists(rs, b, q)
      BY <1>3, <2>4 DEF Forgot
    <3>2. PICK p \in Runs : rs[p].own /\ rs[p].home = rs[q].home /\ rs[p].seq > rs[q].seq
      BY <2>1, <3>1 DEF OwnI
    <3> QED
      BY <3>2 DEF Forgot
  <2>5. OwnI(rs2, b2, L2, s.viewTabId, q)
    BY <1>3, <2>1, <2>3, <2>4 DEF OwnI, Forgot
  <2> QED
    BY <2>2, <2>5
<1>8. OrderI(rs2, b2, L2)
  <2>1. \A u \in L2 : LatestStart(b2, u) = LatestStart(b, u)
    BY DEF Forgot
  <2> QED
    BY <1>1, <2>1 DEF OrderI, Forgot
<1>9. SpinI(rs2, b2, s2, L2)
  BY <1>1 DEF SpinI, Busy, Forgot, Typed
<1> QED
  BY <1>5, <1>6, <1>7, <1>8, <1>9 DEF CoreI

Fields == {"results", "plan", "error", "cancelled", "page", "request", "isExecuting"}
\* A partial slice: some fields, each of its type.
Partial(p) ==
  /\ DOMAIN p \subseteq Fields
  /\ \A x \in DOMAIN p :
       /\ x \in {"results", "plan", "cancelled", "page", "request"} => p[x] \in Runs \cup {Null}
       /\ x = "error" => p[x] \in Runs \cup {Null, Unconfirmed}
       /\ x = "isExecuting" => p[x] \in BOOLEAN

LEMMA SliceDomain == ASSUME NEW s \in Slices PROVE DOMAIN s = Fields
BY DEF Slices, Fields

LEMMA PatchIs ==
  ASSUME NEW s \in Slices, NEW p, Partial(p)
  PROVE  /\ Patch(s, p) \in Slices
         /\ \A x \in Fields : Patch(s, p)[x] = IF x \in DOMAIN p THEN p[x] ELSE s[x]
<1> DEFINE q == Patch(s, p)
<1>1. q = [x \in Fields |-> IF x \in DOMAIN p THEN p[x] ELSE s[x]]
  BY SliceDomain DEF Patch
<1>2. /\ s.results \in Runs \cup {Null} /\ s.plan \in Runs \cup {Null} /\ s.cancelled \in Runs \cup {Null}
      /\ s.page \in Runs \cup {Null} /\ s.request \in Runs \cup {Null} /\ s.error \in Runs \cup {Null, Unconfirmed}
      /\ s.isExecuting \in BOOLEAN
  BY DEF Slices
<1>3. \A x \in Fields : q[x] = IF x \in DOMAIN p THEN p[x] ELSE s[x]
  BY <1>1
<1> HIDE DEF q
<1>4. /\ q.results \in Runs \cup {Null} /\ q.plan \in Runs \cup {Null} /\ q.cancelled \in Runs \cup {Null}
      /\ q.page \in Runs \cup {Null} /\ q.request \in Runs \cup {Null} /\ q.error \in Runs \cup {Null, Unconfirmed}
      /\ q.isExecuting \in BOOLEAN
  BY <1>2, <1>3 DEF Partial, Fields
<1>5. q = [results |-> q.results, plan |-> q.plan, error |-> q.error, cancelled |-> q.cancelled, page |-> q.page,
           request |-> q.request, isExecuting |-> q.isExecuting]
  BY <1>1, <1>3 DEF Fields, q
<1>6. q \in Slices
  BY <1>4, <1>5 DEF Slices
<1> QED
  BY <1>3, <1>6 DEF q

LEMMA EmptyIs == EmptySlice \in Slices /\ ~EmptySlice.isExecuting
BY DEF EmptySlice, Slices

-----------------------------------------------------------------------------
LEMMA WriterIs ==
  ASSUME NEW s \in StoreType, NEW t \in Keys, NEW p, Partial(p)
  PROVE  LET q == tabWriter(s, t, p) IN
         /\ q \in StoreType /\ q.viewTabId = s.viewTabId /\ q.runTabId = s.runTabId
         /\ s.viewTabId \in {Null, t} => q.parked = s.parked /\ q.screen = Patch(s.screen, p)
         /\ s.viewTabId \notin {Null, t} => q.screen = s.screen /\ q.parked = With(s.parked, t, Patch(SliceOf(s, t), p))
<1> DEFINE q == tabWriter(s, t, p)
<1>1. CASE s.viewTabId \in {Null, t}
  <2>1. q = [s EXCEPT !.screen = Patch(s.screen, p)]
    BY <1>1 DEF tabWriter
  <2>2. Patch(s.screen, p) \in Slices
    BY StoreIs, PatchIs
  <2> QED
    BY <1>1, <2>1, <2>2, StoreIs DEF StoreType
<1>2. CASE s.viewTabId \notin {Null, t}
  <2>1. q = [s EXCEPT !.parked = With(s.parked, t, Patch(SliceOf(s, t), p))]
    BY <1>2 DEF tabWriter, SliceOf
  <2>2. SliceOf(s, t) \in Slices
    BY <1>2, StoreIs, EmptyIs DEF SliceOf
  <2>3. Patch(SliceOf(s, t), p) \in Slices
    BY <2>2, PatchIs
  <2>4. With(s.parked, t, Patch(SliceOf(s, t), p)) \in Maps(Keys, Slices)
    BY <2>3, StoreIs, WithType
  <2> QED
    BY <1>2, <2>1, <2>4, StoreIs DEF StoreType
<1> QED
  BY <1>1, <1>2

LEMMA SliceOfIs ==
  ASSUME NEW s, NEW t
  PROVE  SliceOf(s, t) = IF s.viewTabId = t THEN s.screen ELSE Get(s.parked, t, EmptySlice)
BY DEF SliceOf, Get

\* L is {NoTab} with no tab open, and what is written is written there.
LEMMA WriterPane ==
  ASSUME NEW s \in StoreType, NEW t \in Keys, NEW p, Partial(p), NEW L,
         s.viewTabId = Null => t = NoTab /\ L = {NoTab}
  PROVE  /\ \A u \in L : Pane(tabWriter(s, t, p), u) = IF u = t THEN Patch(Pane(s, t), p) ELSE Pane(s, u)
         /\ Pane(tabWriter(s, t, p), t) = Patch(Pane(s, t), p)
<1> DEFINE q == tabWriter(s, t, p)
<1>1. /\ q.viewTabId = s.viewTabId
      /\ s.viewTabId \in {Null, t} => q.parked = s.parked /\ q.screen = Patch(s.screen, p)
      /\ s.viewTabId \notin {Null, t} => q.screen = s.screen /\ q.parked = With(s.parked, t, Patch(SliceOf(s, t), p))
  BY WriterIs
<1> HIDE DEF q
<1>2. CASE s.viewTabId = Null
  BY <1>1, <1>2 DEF Pane, q
<1>3. CASE s.viewTabId = t /\ s.viewTabId # Null
  BY <1>1, <1>3, SliceOfIs DEF Pane, q
<1>4. CASE s.viewTabId \notin {Null, t}
  <2>1. \A u : Get(q.parked, u, EmptySlice) = IF u = t THEN Patch(SliceOf(s, t), p) ELSE Get(s.parked, u, EmptySlice)
    BY <1>1, <1>4, GetWith
  <2> QED
    BY <1>1, <1>4, <2>1, SliceOfIs DEF Pane, q
<1> QED
  BY <1>2, <1>3, <1>4

LEMMA PaneSlice ==
  ASSUME NEW s \in StoreType, NEW t PROVE Pane(s, t) \in Slices
BY StoreIs, EmptyIs DEF Pane, SliceOf

LEMMA WriterSpin ==
  ASSUME NEW s \in StoreType, NEW t \in Keys, NEW p, Partial(p), NEW L,
         s.viewTabId = Null => t = NoTab /\ L = {NoTab}
  PROVE  /\ "isExecuting" \in DOMAIN p =>
              \A u \in L : Spin(tabWriter(s, t, p), u) <=> (u = t /\ p.isExecuting) \/ (u # t /\ Spin(s, u))
         /\ "isExecuting" \notin DOMAIN p => \A u \in L : Spin(tabWriter(s, t, p), u) <=> Spin(s, u)
<1>1. \A u \in L : Pane(tabWriter(s, t, p), u) = IF u = t THEN Patch(Pane(s, t), p) ELSE Pane(s, u)
  BY WriterPane
<1>2. Patch(Pane(s, t), p).isExecuting = IF "isExecuting" \in DOMAIN p THEN p.isExecuting ELSE Pane(s, t).isExecuting
  BY PaneSlice, PatchIs DEF Fields
<1> QED
  BY <1>1, <1>2 DEF Spin

\* The slices there are.
AllSlices(s) == {s.screen} \cup {s.parked[k] : k \in DOMAIN s.parked}

LEMMA WriterSlices ==
  ASSUME NEW s \in StoreType, NEW t \in Keys, NEW p, Partial(p)
  PROVE  \A x \in AllSlices(tabWriter(s, t, p)) : \E y \in AllSlices(s) \cup {EmptySlice} : x = y \/ x = Patch(y, p)
<1> DEFINE q == tabWriter(s, t, p)
<1>1. /\ s.viewTabId \in {Null, t} => q.parked = s.parked /\ q.screen = Patch(s.screen, p)
      /\ s.viewTabId \notin {Null, t} => q.screen = s.screen /\ q.parked = With(s.parked, t, Patch(SliceOf(s, t), p))
  BY WriterIs
<1> HIDE DEF q
<1>2. SliceOf(s, t) \in AllSlices(s) \cup {EmptySlice}
  BY DEF SliceOf, AllSlices
<1>3. CASE s.viewTabId \in {Null, t}
  BY <1>1, <1>3 DEF AllSlices, q
<1>4. CASE s.viewTabId \notin {Null, t}
  <2>1. PICK z : z = Patch(SliceOf(s, t), p)
    OBVIOUS
  <2>2. \A k \in DOMAIN q.parked : q.parked[k] = z \/ (k \in DOMAIN s.parked /\ q.parked[k] = s.parked[k])
    BY <1>1, <1>4, <2>1 DEF With
  <2> QED
    BY <1>1, <1>2, <1>4, <2>1, <2>2 DEF AllSlices, q
<1> QED
  BY <1>3, <1>4

LEMMA WriterParked ==
  ASSUME NEW s \in StoreType, NEW t \in Keys, NEW p, Partial(p)
  PROVE  DOMAIN tabWriter(s, t, p).parked \subseteq DOMAIN s.parked \cup {t}
         /\ DOMAIN s.parked \subseteq DOMAIN tabWriter(s, t, p).parked
<1> DEFINE q == tabWriter(s, t, p)
<1>1. /\ s.viewTabId \in {Null, t} => q.parked = s.parked
      /\ s.viewTabId \notin {Null, t} => q.parked = With(s.parked, t, Patch(SliceOf(s, t), p))
  BY WriterIs
<1> HIDE DEF q
<1>2. PICK z : z = Patch(SliceOf(s, t), p)
  OBVIOUS
<1>3. DOMAIN q.parked \subseteq DOMAIN s.parked \cup {t} /\ DOMAIN s.parked \subseteq DOMAIN q.parked
  BY <1>1, <1>2 DEF With
<1> QED
  BY <1>3 DEF q

-----------------------------------------------------------------------------
LEMMA BumpIs ==
  ASSUME NEW b \in BookType, NEW k \in Keys \cup Runs
  PROVE  LET c == bumpGeneration(b, k) IN
         /\ c \in BookType /\ c.activeExecutions = b.activeExecutions /\ c.latestStart = b.latestStart
         /\ c.runCount = b.runCount /\ c.lastStartedTab = b.lastStartedTab
         /\ \A x : Generation(c, x) = IF x = k THEN Generation(b, k) + 1 ELSE Generation(b, x)
<1> DEFINE c == bumpGeneration(b, k)
           g == With(b.generations, k, Generation(b, k) + 1)
<1>1. Generation(b, k) + 1 \in Nat
  BY FlatTypes
<1>2. g \in Maps(Keys \cup Runs, Nat)
  BY <1>1, BookIs, WithType
<1>3. c = [b EXCEPT !.generations = g]
  BY DEF bumpGeneration
<1>4. \A x : Get(g, x, 0) = IF x = k THEN Generation(b, k) + 1 ELSE Get(b.generations, x, 0)
  BY GetWith
<1> HIDE DEF g
<1>5. /\ c \in BookType /\ c.activeExecutions = b.activeExecutions /\ c.latestStart = b.latestStart
      /\ c.runCount = b.runCount /\ c.lastStartedTab = b.lastStartedTab /\ c.generations = g
  BY <1>2, <1>3, BookIs DEF BookType
<1>6. \A x : Generation(c, x) = IF x = k THEN Generation(b, k) + 1 ELSE Generation(b, x)
  BY <1>4, <1>5, FlatIs
<1> QED
  BY <1>5, <1>6

\* The book of a run that starts.
StartBook(b, r, tab, own) ==
  LET key == IF own THEN tab ELSE r
      seq == b.runCount + 1
  IN [bumpGeneration(b, key) EXCEPT !.runCount = seq, !.activeExecutions = With(@, key, r),
                                    !.latestStart = With(@, tab, seq), !.lastStartedTab = tab]

LEMMA StartBookIs ==
  ASSUME NEW b \in BookType, NEW r \in Runs, NEW tab \in Keys, NEW own \in BOOLEAN
  PROVE  LET b2 == StartBook(b, r, tab, own)
             key == IF own THEN tab ELSE r IN
         /\ b2 \in BookType /\ b2.runCount = b.runCount + 1 /\ b2.lastStartedTab = tab
         /\ \A k : Generation(b2, k) = IF k = key THEN Generation(b, key) + 1 ELSE Generation(b, k)
         /\ \A k : At(b2, k) = IF k = key THEN r ELSE At(b, k)
         /\ \A k : LatestStart(b2, k) = IF k = tab THEN b.runCount + 1 ELSE LatestStart(b, k)
<1> DEFINE key == IF own THEN tab ELSE r
           c == bumpGeneration(b, key)
           a == With(b.activeExecutions, key, r)
           l == With(b.latestStart, tab, b.runCount + 1)
           b2 == StartBook(b, r, tab, own)
<1>0. key \in Keys \cup Runs
  OBVIOUS
<1>1. /\ c \in BookType /\ c.activeExecutions = b.activeExecutions /\ c.latestStart = b.latestStart
      /\ \A x : Generation(c, x) = IF x = key THEN Generation(b, key) + 1 ELSE Generation(b, x)
  BY <1>0, BumpIs
<1>2. b2 = [c EXCEPT !.runCount = b.runCount + 1, !.activeExecutions = a, !.latestStart = l, !.lastStartedTab = tab]
  BY <1>1 DEF StartBook
<1>3. a \in Maps(Keys \cup Runs, Runs) /\ \A x : Get(a, x, Null) = IF x = key THEN r ELSE Get(b.activeExecutions, x, Null)
  <2>1. a \in Maps(Keys \cup Runs, Runs)
    BY <1>0, BookIs, WithType
  <2>2. \A x : Get(a, x, Null) = IF x = key THEN r ELSE Get(b.activeExecutions, x, Null)
    BY GetWith
  <2> QED
    BY <2>1, <2>2
<1>4. b.runCount + 1 \in Nat
  BY BookIs
<1>5. l \in Maps(Keys, Nat) /\ \A x : Get(l, x, 0) = IF x = tab THEN b.runCount + 1 ELSE Get(b.latestStart, x, 0)
  BY <1>4, BookIs, WithType, GetWith
<1> HIDE DEF a, l, b2, c, key
<1>6. b2 \in BookType /\ b2.runCount = b.runCount + 1 /\ b2.lastStartedTab = tab
      /\ b2.activeExecutions = a /\ b2.latestStart = l /\ b2.generations = c.generations
  BY <1>1, <1>2, <1>3, <1>4, <1>5, BookIs DEF BookType
<1>7. \A k : Generation(b2, k) = IF k = key THEN Generation(b, key) + 1 ELSE Generation(b, k)
  BY <1>1, <1>6, FlatIs
<1>8. \A k : At(b2, k) = IF k = key THEN r ELSE At(b, k)
  BY <1>3, <1>6, FlatIs
<1>9. \A k : LatestStart(b2, k) = IF k = tab THEN b.runCount + 1 ELSE LatestStart(b, k)
  BY <1>5, <1>6, FlatIs
<1> QED
  BY <1>6, <1>7, <1>8, <1>9 DEF b2, key

-----------------------------------------------------------------------------
\* The book of a run that ends.
EndBook(rs, b, r) ==
  [b EXCEPT
     !.activeExecutions = Without(@, {k \in DOMAIN @ : k = rs[r].key /\ @[k] = r}),
     !.generations = IF rs[r].own THEN @ ELSE Without(@, {rs[r].key})]

LEMMA EndBookIs ==
  ASSUME NEW rs \in [Runs -> RunType], NEW b \in BookType, NEW r \in Runs
  PROVE  LET b2 == EndBook(rs, b, r) IN
         /\ b2 \in BookType /\ b2.runCount = b.runCount /\ b2.lastStartedTab = b.lastStartedTab
         /\ \A k : Generation(b2, k) = IF ~rs[r].own /\ k = rs[r].key THEN 0 ELSE Generation(b, k)
         /\ \A k : At(b2, k) = IF k = rs[r].key /\ At(b, k) = r THEN Null ELSE At(b, k)
         /\ \A k : LatestStart(b2, k) = LatestStart(b, k)
<1> DEFINE D == {k \in DOMAIN b.activeExecutions : k = rs[r].key /\ b.activeExecutions[k] = r}
           a == Without(b.activeExecutions, D)
           g == IF rs[r].own THEN b.generations ELSE Without(b.generations, {rs[r].key})
           b2 == EndBook(rs, b, r)
<1>1. b2 = [b EXCEPT !.activeExecutions = a, !.generations = g]
  BY DEF EndBook
<1>2. a \in Maps(Keys \cup Runs, Runs) /\ \A x : Get(a, x, Null) = IF x \in D THEN Null ELSE Get(b.activeExecutions, x, Null)
  BY BookIs, WithoutType, GetWithout
<1>3. g \in Maps(Keys \cup Runs, Nat)
  BY BookIs, WithoutType
<1>4. \A x : Get(g, x, 0) = IF ~rs[r].own /\ x = rs[r].key THEN 0 ELSE Get(b.generations, x, 0)
  <2>1. \A x : Get(Without(b.generations, {rs[r].key}), x, 0) = IF x \in {rs[r].key} THEN 0 ELSE Get(b.generations, x, 0)
    BY GetWithout
  <2> QED
    BY <2>1
<1>5. \A x : x \in D <=> x = rs[r].key /\ Get(b.activeExecutions, x, Null) = r
  BY Distinct DEF Get
<1> HIDE DEF a, g, b2, D
<1>6. /\ b2 \in BookType /\ b2.runCount = b.runCount /\ b2.lastStartedTab = b.lastStartedTab
      /\ b2.activeExecutions = a /\ b2.generations = g /\ b2.latestStart = b.latestStart
  BY <1>1, <1>2, <1>3, BookIs DEF BookType
<1>7. \A k : Generation(b2, k) = IF ~rs[r].own /\ k = rs[r].key THEN 0 ELSE Generation(b, k)
  BY <1>4, <1>6, FlatIs
<1>8. \A k : At(b2, k) = IF k = rs[r].key /\ At(b, k) = r THEN Null ELSE At(b, k)
  BY <1>2, <1>5, <1>6, FlatIs
<1>9. \A k : LatestStart(b2, k) = LatestStart(b, k)
  BY <1>6, FlatIs
<1> QED
  BY <1>6, <1>7, <1>8, <1>9 DEF b2

-----------------------------------------------------------------------------
\* The book of a run that is cancelled.
CancelBook(rs, b, r) == [bumpGeneration(b, rs[r].key) EXCEPT !.activeExecutions = Without(@, {rs[r].key})]

LEMMA CancelBookIs ==
  ASSUME NEW rs \in [Runs -> RunType], NEW b \in BookType, NEW r \in Runs
  PROVE  LET b2 == CancelBook(rs, b, r) IN
         /\ b2 \in BookType /\ b2.runCount = b.runCount /\ b2.lastStartedTab = b.lastStartedTab
         /\ \A k : Generation(b2, k) = IF k = rs[r].key THEN Generation(b, k) + 1 ELSE Generation(b, k)
         /\ \A k : At(b2, k) = IF k = rs[r].key THEN Null ELSE At(b, k)
         /\ \A k : LatestStart(b2, k) = LatestStart(b, k)
<1> DEFINE key == rs[r].key
           c == bumpGeneration(b, key)
           a == Without(b.activeExecutions, {key})
           b2 == CancelBook(rs, b, r)
<1>0. key \in Keys \cup Runs
  BY RunTypes
<1>1. /\ c \in BookType /\ c.activeExecutions = b.activeExecutions /\ c.latestStart = b.latestStart
      /\ c.runCount = b.runCount /\ c.lastStartedTab = b.lastStartedTab
      /\ \A x : Generation(c, x) = IF x = key THEN Generation(b, key) + 1 ELSE Generation(b, x)
  BY <1>0, BumpIs
<1>2. b2 = [c EXCEPT !.activeExecutions = a]
  BY <1>1 DEF CancelBook
<1>3. a \in Maps(Keys \cup Runs, Runs) /\ \A x : Get(a, x, Null) = IF x \in {key} THEN Null ELSE Get(b.activeExecutions, x, Null)
  <2>1. a \in Maps(Keys \cup Runs, Runs)
    BY BookIs, WithoutType
  <2>2. \A x : Get(a, x, Null) = IF x \in {key} THEN Null ELSE Get(b.activeExecutions, x, Null)
    BY GetWithout
  <2> QED
    BY <2>1, <2>2
<1> HIDE DEF a, b2, c, key
<1>6. /\ b2 \in BookType /\ b2.runCount = b.runCount /\ b2.lastStartedTab = b.lastStartedTab
      /\ b2.activeExecutions = a /\ b2.generations = c.generations /\ b2.latestStart = b.latestStart
  BY <1>1, <1>2, <1>3, BookIs DEF BookType
<1>7. \A k : Generation(b2, k) = IF k = key THEN Generation(b, k) + 1 ELSE Generation(b, k)
  BY <1>1, <1>6, FlatIs
<1>8. \A k : At(b2, k) = IF k = key THEN Null ELSE At(b, k)
  BY <1>3, <1>6, FlatIs
<1>9. \A k : LatestStart(b2, k) = LatestStart(b, k)
  BY <1>6, FlatIs
<1> QED
  BY <1>6, <1>7, <1>8, <1>9 DEF b2, key

-----------------------------------------------------------------------------
\* Worlds.
WorldType == [s : StoreType, b : BookType, rs : [Runs -> RunType]]

LEMMA ListedIs ==
  ASSUME NEW b \in BookType, NEW rs, NEW L, ListI(rs, b, L)
  PROVE  \A q \in Runs : q \in Listed(b) <=> Lists(rs, b, q)
<1>1. \A q : q \in Listed(b) <=> \E k \in DOMAIN b.activeExecutions : b.activeExecutions[k] = q
  BY DEF Listed, Range
<1>2. \A q \in Runs : (\E k \in DOMAIN b.activeExecutions : b.activeExecutions[k] = q) <=> Lists(rs, b, q)
  BY Distinct DEF Lists, At, ListI, ListedI
<1> QED
  BY <1>1, <1>2

LEMMA AdoptIs ==
  ASSUME NEW w \in WorldType, NEW t \in Tabs, NEW L, NoTab \in L, RunI(w.rs, w.b, L), ListI(w.rs, w.b, L),
         Untouched(w.rs, w.b, t)
  PROVE  LET a == adoptUntabbed(w, t) IN
         /\ a \in WorldType /\ a.s = w.s
         /\ Adopted(w.rs, w.b, a.rs, a.b, t)
<1> DEFINE a     == adoptUntabbed(w, t)
           rs    == w.rs
           b     == w.b
           moved == {r \in Listed(b) : rs[r].tab = NoTab /\ ~rs[r].orphaned}
           own   == {r \in moved : rs[r].own}
           r0    == CHOOSE r \in own : TRUE
           e     == With(Without(b.activeExecutions, {NoTab}), t, r0)
           c     == bumpGeneration(b, t)
           b1    == IF own = {} THEN b ELSE [c EXCEPT !.activeExecutions = e]
           started == LatestStart(b, NoTab)
           home(r) == IF rs[r].home = NoTab THEN t ELSE rs[r].home
           l     == IF started = 0 THEN b1.latestStart
                    ELSE With(Without(b1.latestStart, {NoTab}), t,
                              IF started > LatestStart(b1, t) THEN started ELSE LatestStart(b1, t))
           g     == Without(b1.generations, {NoTab})
           last  == IF b1.lastStartedTab = NoTab THEN t ELSE b1.lastStartedTab
           rs2   == [r \in Runs |-> IF r \notin moved THEN [rs[r] EXCEPT !.home = home(r)]
                               ELSE IF r \in own
                               THEN [rs[r] EXCEPT !.tab = t, !.home = t, !.key = t,
                                                    !.generation = Generation(b1, t)]
                               ELSE [rs[r] EXCEPT !.tab = t, !.home = t]]
           b2    == [b1 EXCEPT !.generations = g, !.latestStart = l, !.lastStartedTab = last]
<1>0. /\ w.s \in StoreType /\ w.b \in BookType /\ w.rs \in [Runs -> RunType]
      /\ w = [s |-> w.s, b |-> w.b, rs |-> w.rs]
      /\ t \in Keys /\ NoTab \in Keys /\ t # NoTab /\ Null \notin Runs /\ Runs \cap Keys = {} /\ Null \notin Keys
  BY Distinct DEF WorldType
<1>1. a = [w EXCEPT !.rs = rs2, !.b = b2]
  <2>1. e = With(Without(bumpGeneration(b, t).activeExecutions, {NoTab}), t, r0)
    BY <1>0, BumpIs
  <2>2. b1 = IF own = {} THEN b ELSE [bumpGeneration(b, t) EXCEPT !.activeExecutions = With(Without(@, {NoTab}), t, r0)]
    BY <2>1
  <2> HIDE DEF b1
  <2> QED
    BY <2>2 DEF adoptUntabbed
<1>2. a.s = w.s /\ a.rs = rs2 /\ a.b = b2 /\ a = [s |-> w.s, b |-> b2, rs |-> rs2]
  BY <1>0, <1>1
<1>3. \A q : q \in moved <=> q \in Runs /\ Moves(rs, b, q)
  <2>1. Listed(b) \subseteq Runs
    BY <1>0, BookIs DEF Listed, Range
  <2>2. \A q \in Runs : q \in Listed(b) <=> Lists(rs, b, q)
    BY <1>0, ListedIs
  <2>3. \A q \in Runs : Lists(rs, b, q) /\ rs[q].tab = NoTab => ~rs[q].orphaned
    BY <1>0, RunTypes DEF Lists, ListI, ListedI, RunI, FlyingI
  <2> QED
    BY <2>1, <2>2, <2>3 DEF Moves
<1>4. \A q \in Runs : q \in own <=> Moves(rs, b, q) /\ rs[q].own
  BY <1>3
<1>5. \A q \in Runs : Moves(rs, b, q) /\ rs[q].own => At(b, NoTab) = q
  <2> SUFFICES ASSUME NEW q \in Runs, Moves(rs, b, q), rs[q].own PROVE At(b, NoTab) = q
    OBVIOUS
  <2>1. At(b, rs[q].key) = q /\ rs[q].tab = NoTab
    BY DEF Moves, Lists
  <2>2. Flies(rs, q)
    BY <1>0, <2>1 DEF ListI, ListedI
  <2> QED
    BY <2>1, <2>2 DEF RunI, FlyingI
<1>6. ASSUME At(b, NoTab) # Null PROVE At(b, NoTab) \in own
  <2>1. PICK q \in Runs : q = At(b, NoTab)
    BY <1>0, <1>6, FlatTypes
  <2>2. Flies(rs, q) /\ rs[q].key = NoTab
    BY <1>0, <2>1 DEF ListI, ListedI
  <2>3. rs[q].own /\ rs[q].tab = NoTab
    BY <1>0, <2>2 DEF RunI, FlyingI
  <2> QED
    BY <1>4, <2>1, <2>2, <2>3 DEF Moves, Lists
<1>7. own = {} <=> At(b, NoTab) = Null
  <2>1. own \subseteq Runs
    BY <1>3
  <2> QED
    BY <1>0, <1>4, <1>5, <1>6, <2>1
<1>8. own # {} => r0 = At(b, NoTab) /\ r0 \in Runs
  <2>1. own # {} => r0 \in own
    OBVIOUS
  <2> QED
    BY <1>3, <1>4, <1>5, <2>1
<1> HIDE DEF moved, own, r0
<1>9. /\ c \in BookType /\ c.activeExecutions = b.activeExecutions /\ c.latestStart = b.latestStart
      /\ c.runCount = b.runCount /\ c.lastStartedTab = b.lastStartedTab
      /\ \A x : Generation(c, x) = IF x = t THEN 1 ELSE Generation(b, x)
  BY <1>0, BumpIs DEF Untouched
<1>10. own # {} => /\ e \in Maps(Keys \cup Runs, Runs)
                   /\ \A x : Get(e, x, Null) = IF x = t THEN At(b, NoTab) ELSE IF x = NoTab THEN Null ELSE At(b, x)
  <2>1. Without(b.activeExecutions, {NoTab}) \in Maps(Keys \cup Runs, Runs)
    BY <1>0, BookIs, WithoutType
  <2>2. own # {} => e \in Maps(Keys \cup Runs, Runs)
    BY <1>0, <1>8, <2>1, WithType
  <2>3. \A x : Get(e, x, Null) = IF x = t THEN r0 ELSE Get(Without(b.activeExecutions, {NoTab}), x, Null)
    BY GetWith
  <2>4. \A x : Get(Without(b.activeExecutions, {NoTab}), x, Null) = IF x \in {NoTab} THEN Null ELSE Get(b.activeExecutions, x, Null)
    BY GetWithout
  <2> HIDE DEF e
  <2> QED
    BY <1>8, <2>2, <2>3, <2>4, FlatIs
<1> HIDE DEF c, e
<1>11. /\ b1 \in BookType /\ b1.latestStart = b.latestStart /\ b1.runCount = b.runCount
       /\ \A x : Generation(b1, x) = IF x = t THEN IF own = {} THEN 0 ELSE 1 ELSE Generation(b, x)
       /\ \A x : At(b1, x) = IF x = NoTab THEN Null ELSE IF x = t THEN At(b, NoTab) ELSE At(b, x)
  <2>1. CASE own = {}
    BY <1>0, <1>7, <2>1 DEF Untouched
  <2>2. CASE own # {}
    <3>1. b1 = [c EXCEPT !.activeExecutions = e]
      BY <2>2
    <3>2. /\ b1 \in BookType /\ b1.activeExecutions = e /\ b1.latestStart = b.latestStart /\ b1.runCount = b.runCount
          /\ b1.generations = c.generations
      BY <1>9, <1>10, <2>2, <3>1, BookIs DEF BookType
    <3> HIDE DEF b1
    <3>3. \A x : Generation(b1, x) = Generation(c, x) /\ At(b1, x) = Get(e, x, Null)
      BY <3>2, FlatIs
    <3> QED
      BY <1>0, <1>9, <1>10, <2>2, <3>2, <3>3
  <2> QED
    BY <2>1, <2>2
<1> HIDE DEF b1
<1>12. LatestStart(b1, t) = 0 /\ \A x : LatestStart(b1, x) = LatestStart(b, x)
  BY <1>11, FlatIs DEF Untouched
<1>13. started \in Nat
  BY <1>0, FlatTypes
<1>14. /\ l \in Maps(Keys, Nat)
       /\ \A x : Get(l, x, 0) = IF x = NoTab THEN 0 ELSE IF x = t THEN LatestStart(b, NoTab) ELSE LatestStart(b, x)
  <2>1. CASE started = 0
    <3>1. l = b1.latestStart
      BY <2>1
    <3> QED
      BY <1>0, <1>11, <2>1, <3>1, BookIs, FlatIs DEF Untouched
  <2>2. CASE started # 0
    <3>1. l = With(Without(b1.latestStart, {NoTab}), t, started)
      BY <1>12, <1>13, <2>2
    <3>2. Without(b1.latestStart, {NoTab}) \in Maps(Keys, Nat)
      BY <1>11, BookIs, WithoutType
    <3>3. l \in Maps(Keys, Nat)
      BY <1>0, <1>13, <3>1, <3>2, WithType
    <3>4. \A x : Get(l, x, 0) = IF x = t THEN started ELSE Get(Without(b1.latestStart, {NoTab}), x, 0)
      BY <3>1, GetWith
    <3>5. \A x : Get(Without(b1.latestStart, {NoTab}), x, 0) = IF x \in {NoTab} THEN 0 ELSE Get(b1.latestStart, x, 0)
      BY GetWithout
    <3>6. \A x : Get(b1.latestStart, x, 0) = LatestStart(b, x)
      BY <1>12, FlatIs
    <3> HIDE DEF l
    <3> QED
      BY <1>0, <3>3, <3>4, <3>5, <3>6
  <2> QED
    BY <2>1, <2>2
<1>15. g \in Maps(Keys \cup Runs, Nat) /\ \A x : Get(g, x, 0) = IF x \in {NoTab} THEN 0 ELSE Get(b1.generations, x, 0)
  <2>1. g \in Maps(Keys \cup Runs, Nat)
    BY <1>11, BookIs, WithoutType
  <2>2. \A x : Get(g, x, 0) = IF x \in {NoTab} THEN 0 ELSE Get(b1.generations, x, 0)
    BY GetWithout
  <2> QED
    BY <2>1, <2>2
<1>16. last \in Keys
  BY <1>0, <1>11, BookIs
<1> HIDE DEF l, g, last
<1>17. /\ b2 \in BookType /\ b2.runCount = b.runCount /\ b2.generations = g /\ b2.latestStart = l
       /\ b2.activeExecutions = b1.activeExecutions
  BY <1>11, <1>14, <1>15, <1>16, BookIs DEF BookType
<1> HIDE DEF b2
<1>18. /\ \A k : Generation(b2, k) = IF k = NoTab THEN 0
                                ELSE IF k = t THEN IF At(b, NoTab) # Null THEN 1 ELSE 0 ELSE Generation(b, k)
       /\ \A k : At(b2, k) = IF k = NoTab THEN Null ELSE IF k = t THEN At(b, NoTab) ELSE At(b, k)
       /\ \A k : LatestStart(b2, k) = IF k = NoTab THEN 0 ELSE IF k = t THEN LatestStart(b, NoTab) ELSE LatestStart(b, k)
  <2>1. \A k : /\ Generation(b2, k) = Get(g, k, 0) /\ At(b2, k) = At(b1, k) /\ LatestStart(b2, k) = Get(l, k, 0)
               /\ Get(b1.generations, k, 0) = Generation(b1, k)
    BY <1>17, FlatIs
  <2> QED
    BY <1>0, <1>7, <1>11, <1>14, <1>15, <2>1
<1>19. ASSUME NEW q \in Runs
       PROVE  /\ rs2[q] \in RunType
              /\ rs2[q].phase = rs[q].phase /\ rs2[q].own = rs[q].own /\ rs2[q].filed = rs[q].filed
              /\ rs2[q].seq = rs[q].seq /\ rs2[q].session = rs[q].session /\ rs2[q].kind = rs[q].kind
              /\ rs2[q].cancelled = rs[q].cancelled /\ rs2[q].orphaned = rs[q].orphaned /\ rs2[q].agreed = rs[q].agreed
              /\ rs2[q].tab = IF Moves(rs, b, q) THEN t ELSE rs[q].tab
              /\ rs2[q].key = IF Moves(rs, b, q) /\ rs[q].own THEN t ELSE rs[q].key
              /\ rs2[q].generation = IF Moves(rs, b, q) /\ rs[q].own THEN 1 ELSE rs[q].generation
              /\ rs2[q].home = IF rs[q].home = NoTab THEN t ELSE rs[q].home
  <2>0. rs[q] \in RunType
    BY <1>0
  <2>1. CASE q \notin moved
    <3>1. rs2[q] = [rs[q] EXCEPT !.home = IF rs[q].home = NoTab THEN t ELSE rs[q].home]
      BY <2>1
    <3> QED
      BY <1>0, <1>3, <2>0, <2>1, <3>1 DEF RunType
  <2>2. CASE q \in moved
    <3>0. Moves(rs, b, q) /\ rs[q].home = NoTab
      BY <1>0, <1>3, <2>2 DEF Moves, Lists, ListI, ListedI
    <3>1. CASE q \in own
      <4>1. own # {}
        BY <3>1
      <4>2. Generation(b1, t) = 1
        BY <1>11, <4>1
      <4>3. rs2[q] = [rs[q] EXCEPT !.tab = t, !.home = t, !.key = t, !.generation = 1]
        BY <2>2, <3>1, <4>2
      <4>4. PICK x : x = rs[q]
        OBVIOUS
      <4>5. PICK y : y = [x EXCEPT !.tab = t, !.home = t, !.key = t, !.generation = 1]
        OBVIOUS
      <4>6. rs2[q] = y
        BY <4>3, <4>4, <4>5
      <4> HIDE DEF rs2, rs
      <4>7. x \in RunType
        BY <2>0, <4>4
      <4>8. /\ y \in RunType /\ y.phase = x.phase /\ y.own = x.own /\ y.filed = x.filed /\ y.seq = x.seq
            /\ y.session = x.session /\ y.kind = x.kind /\ y.cancelled = x.cancelled /\ y.orphaned = x.orphaned
            /\ y.agreed = x.agreed /\ y.tab = t /\ y.key = t /\ y.generation = 1 /\ y.home = t
        BY <1>0, <4>5, <4>7 DEF RunType
      <4>9. rs[q].own
        BY <1>4, <3>1
      <4> QED
        BY <3>0, <4>4, <4>6, <4>8, <4>9
    <3>2. CASE q \notin own
      <4>1. rs2[q] = [rs[q] EXCEPT !.tab = t, !.home = t]
        BY <2>2, <3>2
      <4> QED
        BY <1>0, <1>4, <2>0, <3>0, <3>2, <4>1 DEF RunType
    <3> QED
      BY <3>1, <3>2
  <2> QED
    BY <2>1, <2>2
<1>20. rs2 \in [Runs -> RunType]
  BY <1>19
<1> HIDE DEF rs2
<1>21. Adopted(rs, b, rs2, b2, t)
  BY <1>17, <1>18, <1>19 DEF Adopted
<1> QED
  BY <1>0, <1>2, <1>17, <1>20, <1>21 DEF WorldType

LEMMA ForgetIs ==
  ASSUME NEW w \in WorldType, NEW live, NEW L, ListI(w.rs, w.b, L)
  PROVE  LET f == forgetTabs(w, live)
             G == Tabs \ (live \cup {w.s.viewTabId}) IN
         /\ f \in WorldType
         /\ Forgot(w.rs, w.b, f.rs, f.b, G)
         /\ f.s.viewTabId = w.s.viewTabId /\ f.s.screen = w.s.screen
         /\ f.s.parked = Without(w.s.parked, Tabs \ live)
         /\ f.s.runTabId = IF w.s.runTabId \in live THEN w.s.runTabId ELSE Null
<1> DEFINE f  == forgetTabs(w, live)
           G  == Tabs \ (live \cup {w.s.viewTabId})
           rs == w.rs
           b  == w.b
           s  == w.s
           D  == {k \in DOMAIN b.generations : (IF k \in Runs THEN rs[k].filed ELSE k) \in G}
           g  == Without(b.generations, D)
           l  == Without(b.latestStart, G)
           p  == Without(s.parked, Tabs \ live)
           n  == IF s.runTabId \in live THEN s.runTabId ELSE Null
           rs2 == [r \in Runs |-> IF r \in Listed(b) /\ rs[r].tab \in G THEN [rs[r] EXCEPT !.orphaned = TRUE] ELSE rs[r]]
           b2 == [b EXCEPT !.generations = g, !.latestStart = l]
           s2 == [s EXCEPT !.parked = p, !.runTabId = n]
<1>0. /\ w.s \in StoreType /\ w.b \in BookType /\ w.rs \in [Runs -> RunType]
      /\ w = [s |-> w.s, b |-> w.b, rs |-> w.rs]
  BY DEF WorldType
<1>1. f = [w EXCEPT !.rs = rs2, !.b = b2, !.s = s2]
  BY DEF forgetTabs
<1>2. f.s = s2 /\ f.rs = rs2 /\ f.b = b2 /\ f = [s |-> s2, b |-> b2, rs |-> rs2]
  BY <1>0, <1>1
<1>3. g \in Maps(Keys \cup Runs, Nat)
  BY <1>0, BookIs, WithoutType
<1>4. \A x : Get(g, x, 0) = IF x \in D THEN 0 ELSE Get(b.generations, x, 0)
  BY GetWithout
<1>5. \A x : Get(g, x, 0) = IF (IF x \in Runs THEN rs[x].filed ELSE x) \in G THEN 0 ELSE Get(b.generations, x, 0)
  BY <1>4 DEF Get
<1>6. l \in Maps(Keys, Nat)
  BY <1>0, BookIs, WithoutType
<1>7. \A x : Get(l, x, 0) = IF x \in G THEN 0 ELSE Get(b.latestStart, x, 0)
  BY GetWithout
<1>8. p \in Maps(Keys, Slices)
  BY <1>0, StoreIs, WithoutType
<1>9. n \in QueryTabs \cup {Null}
  BY <1>0, StoreIs
<1> HIDE DEF g, l, p, n, D
<1>10. s2 \in StoreType /\ s2.viewTabId = s.viewTabId /\ s2.screen = s.screen /\ s2.parked = p /\ s2.runTabId = n
  BY <1>0, <1>8, <1>9, StoreIs DEF StoreType
<1>11. /\ b2 \in BookType /\ b2.runCount = b.runCount /\ b2.generations = g /\ b2.latestStart = l
       /\ b2.activeExecutions = b.activeExecutions
  BY <1>0, <1>3, <1>6, BookIs DEF BookType
<1> HIDE DEF b2, s2
<1>12. /\ \A k : Generation(b2, k) = IF (IF k \in Runs THEN rs[k].filed ELSE k) \in G THEN 0 ELSE Generation(b, k)
       /\ \A k : At(b2, k) = At(b, k)
       /\ \A k : LatestStart(b2, k) = IF k \in G THEN 0 ELSE LatestStart(b, k)
  BY <1>5, <1>7, <1>11, FlatIs
<1>13. ASSUME NEW q \in Runs
       PROVE  /\ rs2[q] \in RunType
              /\ rs2[q].phase = rs[q].phase /\ rs2[q].own = rs[q].own /\ rs2[q].filed = rs[q].filed
              /\ rs2[q].seq = rs[q].seq /\ rs2[q].session = rs[q].session /\ rs2[q].kind = rs[q].kind
              /\ rs2[q].cancelled = rs[q].cancelled /\ rs2[q].agreed = rs[q].agreed
              /\ rs2[q].tab = rs[q].tab /\ rs2[q].key = rs[q].key /\ rs2[q].generation = rs[q].generation
              /\ rs2[q].home = rs[q].home
              /\ rs[q].orphaned => rs2[q].orphaned
              /\ rs2[q].orphaned => rs[q].orphaned \/ rs[q].tab \in G
  <2>1. PICK x \in RunType : x = rs[q]
    BY <1>0
  <2>2. rs2[q] = x \/ (rs[q].tab \in G /\ rs2[q] = [x EXCEPT !.orphaned = TRUE])
    BY <2>1
  <2> HIDE DEF rs2, rs
  <2> QED
    BY <2>1, <2>2 DEF RunType
<1>14. rs2 \in [Runs -> RunType]
  BY <1>13
<1> HIDE DEF rs2
<1>15. Forgot(rs, b, rs2, b2, G)
  BY <1>11, <1>12, <1>13 DEF Forgot
<1> QED
  BY <1>0, <1>2, <1>10, <1>11, <1>14, <1>15 DEF WorldType, p, n

-----------------------------------------------------------------------------
\* What a run keeps when its tab is shown, or given to it.
Handed(rs, rs2, t) ==
  /\ \A q \in Runs :
       /\ rs2[q].phase = rs[q].phase /\ rs2[q].own = rs[q].own /\ rs2[q].seq = rs[q].seq
       /\ rs2[q].session = rs[q].session /\ rs2[q].kind = rs[q].kind /\ rs2[q].cancelled = rs[q].cancelled
       /\ rs2[q].agreed = rs[q].agreed
       /\ rs[q].orphaned => rs2[q].orphaned
       /\ rs2[q].home = rs[q].home \/ (rs[q].home = NoTab /\ rs2[q].home = t)
       /\ rs2[q].tab = rs[q].tab \/ (rs[q].tab = NoTab /\ rs2[q].tab = t /\ Flies(rs, q))
  /\ \A p, q \in Runs : rs2[p].home = rs2[q].home <=> rs[p].home = rs[q].home

\* Whether t is given what ran under no tab.
Adopts(s, t) ==
  /\ t \in QueryTabs /\ s.viewTabId # t
  /\ s.viewTabId = Null \/ (t \notin DOMAIN s.parked /\ NoTab \in DOMAIN s.parked)

Parked0(s) == With(s.parked, s.viewTabId, s.screen)

NextScreen(s, t) ==
  IF s.viewTabId = t THEN s.screen
  ELSE IF s.viewTabId = Null THEN IF t \in QueryTabs THEN Untabbed(s) ELSE EmptySlice
  ELSE IF Adopts(s, t) THEN Get(s.parked, NoTab, EmptySlice) ELSE Get(s.parked, t, EmptySlice)

NextParked(s, t) ==
  IF s.viewTabId = t THEN s.parked
  ELSE IF s.viewTabId = Null
  THEN IF t \in QueryTabs \/ isBlank(Untabbed(s)) THEN Without(s.parked, {NoTab})
       ELSE With(Without(s.parked, {NoTab}), NoTab, Untabbed(s))
  ELSE Without(Parked0(s), {t} \cup IF Adopts(s, t) THEN {NoTab} ELSE {})

NextStore(s, t) ==
  [viewTabId |-> t, runTabId |-> IF t \in QueryTabs THEN t ELSE s.runTabId,
   screen |-> NextScreen(s, t), parked |-> NextParked(s, t)]

LEMMA UntabbedIs ==
  ASSUME NEW s \in StoreType
  PROVE  /\ Untabbed(s) \in Slices
         /\ Untabbed(s) = s.screen \/ (NoTab \in DOMAIN s.parked /\ Untabbed(s) = s.parked[NoTab] /\ s.screen = EmptySlice)
BY StoreIs DEF Untabbed, isBlank

LEMMA Parked0Is ==
  ASSUME NEW s \in StoreType, s.viewTabId # Null
  PROVE  /\ Parked0(s) \in Maps(Keys, Slices)
         /\ \A u : Get(Parked0(s), u, EmptySlice) = IF u = s.viewTabId THEN s.screen ELSE Get(s.parked, u, EmptySlice)
         /\ DOMAIN Parked0(s) = DOMAIN s.parked \cup {s.viewTabId}
<1>1. s.viewTabId \in Keys /\ s.screen \in Slices /\ s.parked \in Maps(Keys, Slices)
  BY StoreIs, Distinct
<1>2. Parked0(s) \in Maps(Keys, Slices)
  BY <1>1, WithType DEF Parked0
<1>3. \A u : Get(Parked0(s), u, EmptySlice) = IF u = s.viewTabId THEN s.screen ELSE Get(s.parked, u, EmptySlice)
  BY GetWith DEF Parked0
<1>4. DOMAIN Parked0(s) = DOMAIN s.parked \cup {s.viewTabId}
  BY DEF Parked0, With
<1> QED
  BY <1>2, <1>3, <1>4

LEMMA NextStoreType ==
  ASSUME NEW s \in StoreType, NEW t \in Tabs \cup {Null}
  PROVE  NextStore(s, t) \in StoreType
<1>0. /\ s.screen \in Slices /\ s.parked \in Maps(Keys, Slices) /\ s.runTabId \in QueryTabs \cup {Null} /\ NoTab \in Keys
      /\ s.parked \in [DOMAIN s.parked -> Slices]
  BY StoreIs, Distinct
<1>1. NextScreen(s, t) \in Slices
  BY <1>0, UntabbedIs, EmptyIs DEF NextScreen, Get
<1>2. Without(s.parked, {NoTab}) \in Maps(Keys, Slices)
  BY <1>0, WithoutType
<1>3. With(Without(s.parked, {NoTab}), NoTab, Untabbed(s)) \in Maps(Keys, Slices)
  BY <1>0, <1>2, UntabbedIs, WithType
<1>4. s.viewTabId # Null => Without(Parked0(s), {t} \cup IF Adopts(s, t) THEN {NoTab} ELSE {}) \in Maps(Keys, Slices)
  BY Parked0Is, WithoutType
<1>5. NextParked(s, t) \in Maps(Keys, Slices)
  BY <1>0, <1>2, <1>3, <1>4 DEF NextParked
<1> QED
  BY <1>0, <1>1, <1>5 DEF NextStore, StoreType

\* What every key keeps.
LEMMA NextParkedIs ==
  ASSUME NEW s \in StoreType, NEW t \in Tabs \cup {Null}
  PROVE  /\ s.viewTabId = Null /\ t # Null =>
              /\ \A u : u # NoTab => Get(NextParked(s, t), u, EmptySlice) = Get(s.parked, u, EmptySlice)
              /\ Get(NextParked(s, t), NoTab, EmptySlice) = IF t \in QueryTabs THEN EmptySlice ELSE Untabbed(s)
              /\ DOMAIN s.parked \ {NoTab} \subseteq DOMAIN NextParked(s, t)
              /\ DOMAIN NextParked(s, t) \subseteq DOMAIN s.parked \cup {NoTab}
              /\ t \in QueryTabs => NoTab \notin DOMAIN NextParked(s, t)
         /\ s.viewTabId # Null /\ s.viewTabId # t =>
              /\ \A u : Get(NextParked(s, t), u, EmptySlice) =
                          IF u = t \/ (u = NoTab /\ Adopts(s, t)) THEN EmptySlice
                          ELSE IF u = s.viewTabId THEN s.screen ELSE Get(s.parked, u, EmptySlice)
              /\ DOMAIN NextParked(s, t) = (DOMAIN s.parked \cup {s.viewTabId}) \ ({t} \cup IF Adopts(s, t) THEN {NoTab} ELSE {})
<1>1. ASSUME s.viewTabId = Null, t # Null
      PROVE   /\ \A u : u # NoTab => Get(NextParked(s, t), u, EmptySlice) = Get(s.parked, u, EmptySlice)
              /\ Get(NextParked(s, t), NoTab, EmptySlice) = IF t \in QueryTabs THEN EmptySlice ELSE Untabbed(s)
              /\ DOMAIN s.parked \ {NoTab} \subseteq DOMAIN NextParked(s, t)
              /\ DOMAIN NextParked(s, t) \subseteq DOMAIN s.parked \cup {NoTab}
              /\ t \in QueryTabs => NoTab \notin DOMAIN NextParked(s, t)
  <2> DEFINE p == NextParked(s, t)
             g == Without(s.parked, {NoTab})
  <2>1. DOMAIN g = DOMAIN s.parked \ {NoTab}
    BY DEF Without, Restrict
  <2>2. \A u : Get(g, u, EmptySlice) = IF u \in {NoTab} THEN EmptySlice ELSE Get(s.parked, u, EmptySlice)
    BY GetWithout
  <2>3. p = IF t \in QueryTabs \/ isBlank(Untabbed(s)) THEN g ELSE With(g, NoTab, Untabbed(s))
    BY <1>1 DEF NextParked
  <2>4. \A u : Get(With(g, NoTab, Untabbed(s)), u, EmptySlice) = IF u = NoTab THEN Untabbed(s) ELSE Get(g, u, EmptySlice)
    BY GetWith
  <2>5. DOMAIN With(g, NoTab, Untabbed(s)) = DOMAIN g \cup {NoTab}
    BY DEF With
  <2> HIDE DEF p, g
  <2>6. CASE t \in QueryTabs \/ isBlank(Untabbed(s))
    BY <2>1, <2>2, <2>3, <2>6 DEF isBlank, p
  <2>7. CASE ~(t \in QueryTabs \/ isBlank(Untabbed(s)))
    <3>1. p = With(g, NoTab, Untabbed(s))
      BY <2>3, <2>7
    <3> QED
      BY <2>1, <2>2, <2>4, <2>5, <2>7, <3>1 DEF p
  <2> QED
    BY <2>6, <2>7
<1>2. ASSUME s.viewTabId # Null, s.viewTabId # t
      PROVE   /\ \A u : Get(NextParked(s, t), u, EmptySlice) =
                          IF u = t \/ (u = NoTab /\ Adopts(s, t)) THEN EmptySlice
                          ELSE IF u = s.viewTabId THEN s.screen ELSE Get(s.parked, u, EmptySlice)
              /\ DOMAIN NextParked(s, t) = (DOMAIN s.parked \cup {s.viewTabId}) \ ({t} \cup IF Adopts(s, t) THEN {NoTab} ELSE {})
  <2> DEFINE D == {t} \cup IF Adopts(s, t) THEN {NoTab} ELSE {}
             p == NextParked(s, t)
  <2>1. p = Without(Parked0(s), D)
    BY <1>2 DEF NextParked
  <2>2. \A u : Get(p, u, EmptySlice) = IF u \in D THEN EmptySlice ELSE Get(Parked0(s), u, EmptySlice)
    BY <2>1, GetWithout
  <2>3. DOMAIN p = DOMAIN Parked0(s) \ D
    BY <2>1 DEF Without, Restrict
  <2>4. /\ \A u : Get(Parked0(s), u, EmptySlice) = IF u = s.viewTabId THEN s.screen ELSE Get(s.parked, u, EmptySlice)
        /\ DOMAIN Parked0(s) = DOMAIN s.parked \cup {s.viewTabId}
    BY <1>2, Parked0Is
  <2>5. \A u : u \in D <=> u = t \/ (u = NoTab /\ Adopts(s, t))
    OBVIOUS
  <2> HIDE DEF p, D
  <2>6. \A u : Get(p, u, EmptySlice) = IF u = t \/ (u = NoTab /\ Adopts(s, t)) THEN EmptySlice
                          ELSE IF u = s.viewTabId THEN s.screen ELSE Get(s.parked, u, EmptySlice)
    BY <2>2, <2>4, <2>5
  <2>7. DOMAIN p = (DOMAIN s.parked \cup {s.viewTabId}) \ D
    BY <2>3, <2>4
  <2> QED
    BY <2>6, <2>7 DEF p, D
<1> QED
  BY <1>1, <1>2

-----------------------------------------------------------------------------
LEMMA ShowTabIs ==
  ASSUME NEW w \in WorldType, NEW t \in Tabs \cup {Null},
         Adopts(w.s, t) => adoptUntabbed(w, t) \in WorldType /\ adoptUntabbed(w, t).s = w.s
  PROVE  LET x == showTab(w, t) IN
         /\ x \in WorldType /\ x.s = NextStore(w.s, t)
         /\ ~Adopts(w.s, t) => x.rs = w.rs /\ x.b = w.b
         /\ Adopts(w.s, t) => x.rs = adoptUntabbed(w, t).rs /\ x.b = adoptUntabbed(w, t).b
<1> DEFINE x == showTab(w, t)
           a == adoptUntabbed(w, t)
           s == w.s
           runTab == IF t \in QueryTabs THEN t ELSE s.runTabId
<1>0. /\ w.s \in StoreType /\ w.b \in BookType /\ w.rs \in [Runs -> RunType]
      /\ w = [s |-> w.s, b |-> w.b, rs |-> w.rs]
  BY DEF WorldType
<1>1. s = [viewTabId |-> s.viewTabId, runTabId |-> s.runTabId, screen |-> s.screen, parked |-> s.parked]
  BY <1>0, StoreIs
<1>2. ASSUME a \in WorldType
      PROVE  a = [s |-> a.s, b |-> a.b, rs |-> a.rs] /\ a.b \in BookType /\ a.rs \in [Runs -> RunType]
  BY <1>2 DEF WorldType
<1>a. \A A, C : NextScreen(s, t) = A /\ NextParked(s, t) = C =>
        [s EXCEPT !.screen = A, !.parked = C, !.viewTabId = t, !.runTabId = runTab] = NextStore(s, t)
  <2> SUFFICES ASSUME NEW A, NEW C, NextScreen(s, t) = A, NextParked(s, t) = C
               PROVE  [s EXCEPT !.screen = A, !.parked = C, !.viewTabId = t, !.runTabId = runTab] = NextStore(s, t)
    OBVIOUS
  <2>1. NextStore(s, t) = [viewTabId |-> t, runTabId |-> runTab, screen |-> A, parked |-> C]
    BY DEF NextStore
  <2>2. PICK q : q = [s EXCEPT !.screen = A, !.parked = C, !.viewTabId = t, !.runTabId = runTab]
    OBVIOUS
  <2>3. DOMAIN s = {"viewTabId", "runTabId", "screen", "parked"}
    BY <1>0 DEF StoreType
  <2> HIDE DEF s, runTab
  <2>4. DOMAIN q = {"viewTabId", "runTabId", "screen", "parked"} /\ q = [y \in DOMAIN q |-> q[y]]
    BY <2>2, <2>3
  <2>5. q.viewTabId = t /\ q.runTabId = runTab /\ q.screen = A /\ q.parked = C
    BY <2>2, <2>3
  <2>6. q = [viewTabId |-> t, runTabId |-> runTab, screen |-> A, parked |-> C]
    BY <2>4, <2>5
  <2> QED
    BY <2>1, <2>2, <2>6
<1>3. CASE s.viewTabId = t
  <2>1. x = [w EXCEPT !.s.runTabId = runTab]
    BY <1>3 DEF showTab
  <2>2. x = [s |-> [s EXCEPT !.runTabId = runTab], b |-> w.b, rs |-> w.rs]
    BY <1>0, <2>1
  <2>3. [s EXCEPT !.runTabId = runTab] = NextStore(s, t)
    BY <1>1, <1>3 DEF NextStore, NextScreen, NextParked
  <2>4. ~Adopts(s, t)
    BY <1>3 DEF Adopts
  <2> QED
    BY <1>0, <2>2, <2>3, <2>4, NextStoreType DEF WorldType
<1>4. CASE s.viewTabId # t /\ s.viewTabId = Null
  <2> DEFINE parked == Without(s.parked, {NoTab})
             untabbed == Untabbed(s)
  <2>1. x = ShowFirst(w, t, runTab)
    BY <1>4 DEF showTab
  <2>2. CASE t \in QueryTabs
    <3>1. Adopts(s, t)
      BY <1>4, <2>2 DEF Adopts
    <3>2. x = [a EXCEPT !.s = [a.s EXCEPT !.screen = untabbed, !.parked = parked, !.viewTabId = t, !.runTabId = runTab]]
      BY <2>1, <2>2 DEF ShowFirst
    <3>3. x = [s |-> [s EXCEPT !.screen = untabbed, !.parked = parked, !.viewTabId = t, !.runTabId = runTab], b |-> a.b, rs |-> a.rs]
      BY <1>2, <3>1, <3>2
    <3>4. [s EXCEPT !.screen = untabbed, !.parked = parked, !.viewTabId = t, !.runTabId = runTab] = NextStore(s, t)
      <4>1. untabbed = NextScreen(s, t) /\ parked = NextParked(s, t)
        BY <1>4, <2>2 DEF NextScreen, NextParked
      <4> HIDE DEF untabbed, parked, runTab
      <4> QED
        BY <1>a, <4>1
    <3> QED
      BY <1>0, <1>2, <3>1, <3>3, <3>4, NextStoreType DEF WorldType
  <2>3. CASE t \notin QueryTabs
    <3>1. ~Adopts(s, t)
      BY <2>3 DEF Adopts
    <3> DEFINE q == IF isBlank(untabbed) THEN parked ELSE With(parked, NoTab, untabbed)
    <3>2. x = [w EXCEPT !.s = [w.s EXCEPT !.screen = EmptySlice, !.parked = q, !.viewTabId = t, !.runTabId = runTab]]
      BY <2>1, <2>3 DEF ShowFirst
    <3>3. x = [s |-> [s EXCEPT !.screen = EmptySlice, !.parked = q, !.viewTabId = t, !.runTabId = runTab], b |-> w.b, rs |-> w.rs]
      BY <1>0, <3>2
    <3>4. [s EXCEPT !.screen = EmptySlice, !.parked = q, !.viewTabId = t, !.runTabId = runTab] = NextStore(s, t)
      <4>1. EmptySlice = NextScreen(s, t) /\ q = NextParked(s, t)
        BY <1>4, <2>3 DEF NextScreen, NextParked
      <4> HIDE DEF q, runTab
      <4> QED
        BY <1>a, <4>1
    <3> QED
      BY <1>0, <3>1, <3>3, <3>4, NextStoreType DEF WorldType
  <2> QED
    BY <2>2, <2>3
<1>5. CASE s.viewTabId # t /\ s.viewTabId # Null
  <2> DEFINE p0 == Parked0(s)
             adopts == t \in QueryTabs /\ t \notin DOMAIN p0 /\ NoTab \in DOMAIN p0
             next == IF adopts THEN p0[NoTab] ELSE IF t \in DOMAIN p0 THEN p0[t] ELSE EmptySlice
             q == Without(p0, {t} \cup IF adopts THEN {NoTab} ELSE {})
             y == IF adopts THEN a ELSE w
  <2>1. x = ShowNext(w, t, runTab)
    BY <1>5 DEF showTab
  <2>2. DOMAIN p0 = DOMAIN s.parked \cup {s.viewTabId} /\ NoTab # s.viewTabId
    <3>1. DOMAIN p0 = DOMAIN s.parked \cup {s.viewTabId}
      BY <1>0, <1>5, Parked0Is
    <3>2. s.viewTabId \in Tabs
      BY <1>0, <1>5, StoreIs
    <3> QED
      BY <3>1, <3>2, Distinct
  <2>3. adopts <=> Adopts(s, t)
    BY <1>5, <2>2 DEF Adopts
  <2>4. x = [y EXCEPT !.s = [y.s EXCEPT !.screen = next, !.parked = q, !.viewTabId = t, !.runTabId = runTab]]
    BY <2>1 DEF ShowNext, Parked0
  <2>5. \A u : Get(p0, u, EmptySlice) = IF u = s.viewTabId THEN s.screen ELSE Get(s.parked, u, EmptySlice)
    BY <1>0, <1>5, Parked0Is
  <2>6. next = NextScreen(s, t)
    <3>1. next = IF adopts THEN Get(p0, NoTab, EmptySlice) ELSE Get(p0, t, EmptySlice)
      BY DEF Get
    <3> HIDE DEF next, adopts, p0
    <3> QED
      BY <1>5, <2>2, <2>3, <2>5, <3>1 DEF NextScreen
  <2>7. q = NextParked(s, t)
    BY <1>5, <2>3 DEF NextParked
  <2>8. y \in WorldType /\ y.s = s /\ y = [s |-> s, b |-> y.b, rs |-> y.rs] /\ y.b \in BookType /\ y.rs \in [Runs -> RunType]
    BY <1>0, <1>2, <2>3
  <2> HIDE DEF next, q, y, adopts, p0, runTab
  <2>9. x = [s |-> [s EXCEPT !.screen = next, !.parked = q, !.viewTabId = t, !.runTabId = runTab], b |-> y.b, rs |-> y.rs]
    BY <2>4, <2>8
  <2>10. [s EXCEPT !.screen = next, !.parked = q, !.viewTabId = t, !.runTabId = runTab] = NextStore(s, t)
    BY <1>a, <2>6, <2>7
  <2>11. x.s = NextStore(s, t) /\ x.b = y.b /\ x.rs = y.rs /\ x \in WorldType
    BY <1>0, <2>8, <2>9, <2>10, NextStoreType DEF WorldType
  <2> QED
    BY <2>3, <2>11 DEF y
<1> QED
  BY <1>3, <1>4, <1>5

\* What the strip and the store agree on: S the tabs open.
KeptI(s, S) ==
  /\ S \subseteq Tabs
  /\ s.viewTabId = Null => S = {}
  /\ s.viewTabId # Null => s.viewTabId \in S
  /\ S \subseteq DOMAIN s.parked \cup {s.viewTabId}

\* The tab a turn of the editor shows.
Shows1(w, S, t) ==
  \/ t \in S
  \/ t \in Tabs /\ t \notin DOMAIN w.s.parked /\ Untouched(w.rs, w.b, t)
  \/ t = Null /\ \A q \in Runs : ~Flies(w.rs, q)

LEMMA NextPane ==
  ASSUME NEW s \in StoreType, NEW S, NEW t \in Tabs, KeptI(s, S), t \in S \/ t \notin DOMAIN s.parked,
         s.viewTabId = Null /\ NoTab \in DOMAIN s.parked => ~s.parked[NoTab].isExecuting
  PROVE  LET s2 == NextStore(s, t) IN
         /\ Adopts(s, t) => /\ Spin(s2, t) <=> Spin(s, NoTab)
                            /\ ~Spin(s2, NoTab)
                            /\ \A u \in S : u # t => (Spin(s2, u) <=> Spin(s, u))
                            /\ t \notin S
         /\ ~Adopts(s, t) => \A u \in S \cup {t, NoTab} : Spin(s2, u) <=> u \in S \cup {NoTab} /\ Spin(s, u)
<1> DEFINE s2 == NextStore(s, t)
           P(u) == Get(s.parked, u, EmptySlice)
           P2(u) == Get(NextParked(s, t), u, EmptySlice)
<1>0. /\ t # NoTab /\ t # Null /\ NoTab # Null /\ NoTab \notin Tabs /\ ~EmptySlice.isExecuting /\ S \subseteq Tabs
      /\ Null \notin Tabs
  BY Distinct, EmptyIs, TabsAssumption DEF KeptI
<1>1. s2.viewTabId = t /\ s2.screen = NextScreen(s, t) /\ s2.parked = NextParked(s, t)
  BY DEF NextStore
<1>2. \A u : Pane(s2, u) = IF u = t THEN NextScreen(s, t) ELSE P2(u)
  BY <1>0, <1>1, SliceOfIs DEF Pane
<1>3. \A u : Pane(s, u) = IF s.viewTabId = Null \/ u = s.viewTabId THEN s.screen ELSE P(u)
  BY SliceOfIs DEF Pane
<1>4. P(t) = EmptySlice \/ t \in S
  BY DEF Get
<1> HIDE DEF s2, P, P2
<1>5. CASE s.viewTabId = t
  <2>1. ~Adopts(s, t) /\ NextScreen(s, t) = s.screen /\ \A u : P2(u) = P(u)
    BY <1>5 DEF Adopts, NextScreen, NextParked, P, P2
  <2>2. t \in S
    BY <1>0, <1>5 DEF KeptI
  <2> QED
    BY <1>0, <1>2, <1>3, <1>5, <2>1, <2>2 DEF Spin, s2
<1>6. CASE s.viewTabId = Null
  <2>1. S = {}
    BY <1>6 DEF KeptI
  <2>2. Untabbed(s).isExecuting <=> s.screen.isExecuting
    BY <1>0, <1>6, UntabbedIs
  <2>3. P2(NoTab) = IF t \in QueryTabs THEN EmptySlice ELSE Untabbed(s)
    BY <1>0, <1>6, NextParkedIs DEF P2
  <2>4. NextScreen(s, t) = IF t \in QueryTabs THEN Untabbed(s) ELSE EmptySlice
    BY <1>0, <1>6 DEF NextScreen
  <2>5. Adopts(s, t) <=> t \in QueryTabs
    BY <1>0, <1>6 DEF Adopts
  <2> QED
    BY <1>0, <1>2, <1>3, <1>6, <2>1, <2>2, <2>3, <2>4, <2>5 DEF Spin, s2
<1>7. CASE s.viewTabId # Null /\ s.viewTabId # t
  <2>0. s.viewTabId \in S
    BY <1>7 DEF KeptI
  <2>1. \A u : P2(u) = IF u = t \/ (u = NoTab /\ Adopts(s, t)) THEN EmptySlice
                       ELSE IF u = s.viewTabId THEN s.screen ELSE P(u)
    BY <1>7, NextParkedIs DEF P, P2
  <2>2. NextScreen(s, t) = IF Adopts(s, t) THEN P(NoTab) ELSE P(t)
    BY <1>7 DEF NextScreen, P
  <2>3. Adopts(s, t) => t \notin S
    BY <1>7 DEF Adopts, KeptI
  <2> QED
    BY <1>0, <1>2, <1>3, <1>4, <1>7, <2>0, <2>1, <2>2, <2>3 DEF Spin, s2
<1> QED
  BY <1>5, <1>6, <1>7

LEMMA NextEmpty ==
  ASSUME NEW s \in StoreType, NEW S, KeptI(s, S), NEW L, s.viewTabId = Null => ~s.screen.isExecuting
  PROVE  \A u \in L : ~Spin(NextStore(s, Null), u)
<1>1. NextStore(s, Null).viewTabId = Null /\ NextStore(s, Null).screen = NextScreen(s, Null)
  BY DEF NextStore
<1>2. Null \notin QueryTabs /\ Null \notin Keys
  BY Distinct
<1>3. NextScreen(s, Null) = IF s.viewTabId = Null THEN s.screen ELSE EmptySlice
  <2>1. ~Adopts(s, Null)
    BY <1>2 DEF Adopts
  <2>2. Get(s.parked, Null, EmptySlice) = EmptySlice
    BY <1>2, StoreIs DEF Get
  <2> QED
    BY <2>1, <2>2 DEF NextScreen
<1> QED
  BY <1>1, <1>3, EmptyIs DEF Spin, Pane

SameHomes(rs, rs2) == \A q \in Runs : rs2[q].home = rs[q].home

\* A turn of the editor keeps what is known of the runs.
LEMMA ShowStep ==
  ASSUME NEW w \in WorldType, NEW S, NEW t, KeptI(w.s, S), CoreI(w.rs, w.b, w.s, S \cup {NoTab}), Shows1(w, S, t),
         w.s.viewTabId = Null /\ NoTab \in DOMAIN w.s.parked => ~w.s.parked[NoTab].isExecuting
  PROVE  LET x == showTab(w, t)
             L2 == S \cup {NoTab} \cup (IF t = Null THEN {} ELSE {t}) IN
         /\ x \in WorldType /\ x.s = NextStore(w.s, t)
         /\ CoreI(x.rs, x.b, x.s, L2)
         /\ Handed(w.rs, x.rs, t) /\ (t \in S => SameHomes(w.rs, x.rs))
         /\ \A u \in Tabs : u # t /\ Untouched(w.rs, w.b, u) => Untouched(x.rs, x.b, u)
<1> DEFINE L == S \cup {NoTab}
           L2 == L \cup (IF t = Null THEN {} ELSE {t})
           x == showTab(w, t)
           a == adoptUntabbed(w, t)
<1>0. /\ w.s \in StoreType /\ w.b \in BookType /\ w.rs \in [Runs -> RunType] /\ t \in Tabs \cup {Null}
      /\ Null \notin Tabs /\ NoTab \notin Tabs /\ NoTab # Null /\ S \subseteq Tabs /\ L \subseteq Keys
  BY Distinct, TabsAssumption DEF WorldType, KeptI, Shows1
<1>1. Typed(w.rs, w.b)
  BY <1>0, TypedIs
<1>2. RunI(w.rs, w.b, L) /\ ListI(w.rs, w.b, L) /\ SpinI(w.rs, w.b, w.s, L)
  BY DEF CoreI
<1>3. CASE Adopts(w.s, t)
  <2>1. t \in Tabs /\ t \in QueryTabs
    BY <1>3, Distinct DEF Adopts
  <2>2. t \notin S
    BY <1>0, <1>3, <2>1 DEF Adopts, KeptI
  <2>3. Untouched(w.rs, w.b, t)
    BY <1>0, <2>1, <2>2 DEF Shows1
  <2>4. a \in WorldType /\ a.s = w.s /\ Adopted(w.rs, w.b, a.rs, a.b, t)
    BY <1>2, <2>1, <2>3, AdoptIs
  <2>5. x \in WorldType /\ x.s = NextStore(w.s, t) /\ x.rs = a.rs /\ x.b = a.b
    BY <1>0, <1>3, <2>4, ShowTabIs
  <2>6. Typed(x.rs, x.b)
    BY <2>5, TypedIs DEF WorldType
  <2>7. t \notin DOMAIN w.s.parked
    BY <1>0, <2>1, <2>2 DEF Shows1
  <2>8. /\ Spin(x.s, t) <=> Spin(w.s, NoTab)
        /\ ~Spin(x.s, NoTab)
        /\ \A u \in S : u # t => (Spin(x.s, u) <=> Spin(w.s, u))
    BY <1>0, <1>3, <2>1, <2>5, <2>7, NextPane
  <2>9. x.s.viewTabId = t
    BY <2>5 DEF NextStore
  <2> HIDE DEF x, a
  <2>10. CoreI(x.rs, x.b, x.s, L \cup {t})
    <3>1. \A u \in L : u \notin {t, NoTab} => (Spin(x.s, u) <=> Spin(w.s, u))
      BY <2>8
    <3>2. Adopted(w.rs, w.b, x.rs, x.b, t)
      BY <2>4, <2>5
    <3>3. NoTab \in L
      OBVIOUS
    <3> HIDE DEF L
    <3> QED
      BY <1>0, <1>1, <2>1, <2>3, <2>6, <2>8, <2>9, <3>1, <3>2, <3>3, AdoptCore DEF L
  <2>11. Handed(w.rs, x.rs, t)
    <3>1. Adopted(w.rs, w.b, x.rs, x.b, t)
      BY <2>4, <2>5
    <3>2. \A q \in Runs : Moves(w.rs, w.b, q) => Flies(w.rs, q) /\ w.rs[q].tab = NoTab
      BY <1>2, Distinct DEF Moves, Lists, ListI, ListedI
    <3> QED
      BY <2>3, <3>1, <3>2 DEF Adopted, Handed, Untouched
  <2>12. \A u \in Tabs : u # t /\ Untouched(w.rs, w.b, u) => Untouched(x.rs, x.b, u)
    <3>1. Adopted(w.rs, w.b, x.rs, x.b, t)
      BY <2>4, <2>5
    <3> QED
      BY <1>0, <3>1 DEF Adopted, Untouched
  <2> QED
    BY <1>0, <2>1, <2>2, <2>5, <2>10, <2>11, <2>12 DEF x
<1>4. CASE ~Adopts(w.s, t)
  <2>1. x \in WorldType /\ x.s = NextStore(w.s, t) /\ x.rs = w.rs /\ x.b = w.b
    BY <1>0, <1>4, ShowTabIs
  <2> HIDE DEF x
  <2>2. x.s.viewTabId = t
    BY <2>1 DEF NextStore
  <2>3. CoreI(w.rs, w.b, x.s, L2)
    <3>1. CASE t = Null
      <4>1. \A u \in L : ~Busy(w.rs, w.b, u)
        <5>1. w.s.viewTabId # Null => \A q \in Runs : ~Flies(w.rs, q)
          BY <1>0, <3>1 DEF Shows1
        <5>2. \A q \in Runs : ~Flies(w.rs, q)
          BY <1>0, <3>1 DEF Shows1
        <5> QED
          BY <1>1, <1>2, <5>2 DEF Busy, ListI, ListedI, Typed
      <4>2. w.s.viewTabId = Null => ~w.s.screen.isExecuting
        BY <1>2, <4>1 DEF SpinI, Spin, Pane
      <4>3. \A u \in L : ~Spin(x.s, u)
        BY <1>0, <2>1, <3>1, <4>2, NextEmpty
      <4>4. \A q \in Runs : ~Flies(w.rs, q)
        BY <1>0, <3>1 DEF Shows1
      <4>5. \A u \in L : Spin(x.s, u) <=> u \in L /\ Spin(w.s, u)
        BY <1>2, <4>1, <4>3 DEF SpinI
      <4>6. L2 = L
        BY <3>1
      <4> HIDE DEF L, L2
      <4> QED
        BY <1>1, <4>4, <4>5, <4>6, ShowCore DEF L
    <3>2. CASE t # Null
      <4>0. t \in Tabs
        BY <1>0, <3>2
      <4>1. t \in S \/ t \notin DOMAIN w.s.parked
        BY <1>0, <4>0 DEF Shows1
      <4>2. \A u \in S \cup {t, NoTab} : Spin(x.s, u) <=> u \in S \cup {NoTab} /\ Spin(w.s, u)
        BY <1>0, <1>4, <2>1, <4>0, <4>1, NextPane
      <4>3. \A u \in L2 : Spin(x.s, u) <=> u \in L /\ Spin(w.s, u)
        BY <3>2, <4>2
      <4>4. \A u \in L2 : u \in L \/ Untouched(w.rs, w.b, u)
        BY <1>0, <3>2 DEF Shows1
      <4>5. x.s.viewTabId # Null
        BY <2>2, <3>2
      <4> HIDE DEF L, L2
      <4> QED
        BY <1>1, <4>3, <4>4, <4>5, ShowCore DEF L
    <3> QED
      BY <3>1, <3>2
  <2>4. Handed(w.rs, x.rs, t) /\ SameHomes(w.rs, x.rs)
    BY <2>1 DEF Handed, SameHomes
  <2> QED
    BY <2>1, <2>3, <2>4 DEF x
<1> QED
  BY <1>3, <1>4

-----------------------------------------------------------------------------
\* What following the editor leaves: f of the world w, with the tabs of live open and t shown.
Followed(w, S, t, live, f) ==
  /\ f \in WorldType
  /\ CoreI(f.rs, f.b, f.s, live \cup {NoTab})
  /\ Handed(w.rs, f.rs, t) /\ (t \in S => SameHomes(w.rs, f.rs))
  /\ \A u \in Tabs : u # t /\ Untouched(w.rs, w.b, u) => Untouched(f.rs, f.b, u)
  /\ f.s.viewTabId = t /\ f.s.screen = NextScreen(w.s, t)
  /\ f.s.parked = Without(NextParked(w.s, t), Tabs \ live)
  /\ f.s.runTabId = LET n == IF t \in QueryTabs THEN t ELSE w.s.runTabId IN IF n \in live THEN n ELSE Null

LEMMA FollowStep ==
  ASSUME NEW w \in WorldType, NEW S, NEW t, NEW live, KeptI(w.s, S), CoreI(w.rs, w.b, w.s, S \cup {NoTab}), Shows1(w, S, t),
         w.s.viewTabId = Null /\ NoTab \in DOMAIN w.s.parked => ~w.s.parked[NoTab].isExecuting,
         live \subseteq S \cup {t}, IF t = Null THEN live = {} ELSE t \in live
  PROVE  Followed(w, S, t, live, forgetTabs(showTab(w, t), live))
<1> DEFINE x  == showTab(w, t)
           f  == forgetTabs(x, live)
           G  == Tabs \ (live \cup {t})
           L  == S \cup {NoTab} \cup (IF t = Null THEN {} ELSE {t})
           L2 == live \cup {NoTab}
<1>0. /\ Null \notin Tabs /\ NoTab \notin Tabs /\ NoTab # Null /\ S \subseteq Tabs /\ t \in Tabs \cup {Null}
      /\ live \subseteq Tabs
  BY Distinct, TabsAssumption DEF KeptI, Shows1
<1>1. /\ x \in WorldType /\ x.s = NextStore(w.s, t) /\ CoreI(x.rs, x.b, x.s, L) /\ Handed(w.rs, x.rs, t)
      /\ t \in S => SameHomes(w.rs, x.rs)
      /\ \A u \in Tabs : u # t /\ Untouched(w.rs, w.b, u) => Untouched(x.rs, x.b, u)
  BY ShowStep
<1>2. x.s.viewTabId = t /\ x.s.screen = NextScreen(w.s, t) /\ x.s.parked = NextParked(w.s, t)
      /\ x.s.runTabId = IF t \in QueryTabs THEN t ELSE w.s.runTabId
  BY <1>1 DEF NextStore
<1> HIDE DEF x, L
<1>3. /\ f \in WorldType /\ Forgot(x.rs, x.b, f.rs, f.b, G)
      /\ f.s.viewTabId = t /\ f.s.screen = x.s.screen
      /\ f.s.parked = Without(x.s.parked, Tabs \ live)
      /\ f.s.runTabId = IF x.s.runTabId \in live THEN x.s.runTabId ELSE Null
  <2>1. x \in WorldType /\ ListI(x.rs, x.b, L) /\ x.s.viewTabId = t
    BY <1>1, <1>2 DEF CoreI
  <2>2. /\ f \in WorldType /\ Forgot(x.rs, x.b, f.rs, f.b, Tabs \ (live \cup {x.s.viewTabId}))
        /\ f.s.viewTabId = x.s.viewTabId /\ f.s.screen = x.s.screen
        /\ f.s.parked = Without(x.s.parked, Tabs \ live)
        /\ f.s.runTabId = IF x.s.runTabId \in live THEN x.s.runTabId ELSE Null
    BY <2>1, ForgetIs
  <2> QED
    BY <2>1, <2>2
<1> HIDE DEF f
<1>4. L2 \subseteq L /\ L2 \cap G = {} /\ NoTab \notin G
  BY <1>0 DEF L
<1>5. \A u \in L2 : Spin(f.s, u) <=> Spin(x.s, u)
  <2>1. \A u : Get(f.s.parked, u, EmptySlice) = IF u \in Tabs \ live THEN EmptySlice ELSE Get(x.s.parked, u, EmptySlice)
    BY <1>3, GetWithout
  <2>2. \A u \in L2 : Get(f.s.parked, u, EmptySlice) = Get(x.s.parked, u, EmptySlice)
    BY <1>0, <2>1
  <2>3. \A u \in L2 : Pane(f.s, u) = Pane(x.s, u)
    BY <1>2, <1>3, <2>2, SliceOfIs DEF Pane
  <2> QED
    BY <2>3 DEF Spin
<1>6. Typed(x.rs, x.b) /\ Typed(f.rs, f.b)
  BY <1>1, <1>3, TypedIs DEF WorldType
<1>7. CoreI(f.rs, f.b, f.s, L2)
  <2> HIDE DEF L2, G
  <2> QED
    BY <1>1, <1>2, <1>3, <1>4, <1>5, <1>6, ForgetCore
<1>8. Handed(w.rs, f.rs, t) /\ (t \in S => SameHomes(w.rs, f.rs))
  BY <1>1, <1>3 DEF Handed, Forgot, SameHomes
<1>9. \A u \in Tabs : u # t /\ Untouched(w.rs, w.b, u) => Untouched(f.rs, f.b, u)
  <2>1. Runs \cap Tabs = {}
    BY Distinct
  <2> QED
    BY <1>1, <1>3, <2>1 DEF Forgot, Untouched
<1>10. f.s.runTabId = LET n == IF t \in QueryTabs THEN t ELSE w.s.runTabId IN IF n \in live THEN n ELSE Null
  <2>1. PICK n : n = IF t \in QueryTabs THEN t ELSE w.s.runTabId
    OBVIOUS
  <2>2. x.s.runTabId = n
    BY <1>2, <2>1
  <2> QED
    BY <1>3, <2>1, <2>2
<1>11. f.s.screen = NextScreen(w.s, t) /\ f.s.parked = Without(NextParked(w.s, t), Tabs \ live)
  BY <1>2, <1>3
<1> QED
  BY <1>3, <1>7, <1>8, <1>9, <1>10, <1>11 DEF f, x, Followed

Shown == ToSet(tabs)

\* A set of numbers has a least one.
LEMMA LeastIs ==
  ASSUME NEW T \in SUBSET Nat, T # {}
  PROVE  \E x \in T : \A y \in T : x <= y
<1>1. PICK x \in T : \A y \in T : ~(<<y, x>> \in OpToRel(<, Nat))
  BY NatLessThanWellFounded, WFMin
<1>2. \A y \in T : ~(y < x)
  BY <1>1 DEF OpToRel
<1> QED
  BY <1>2

LEMMA FirstQuery ==
  ASSUME NEW ts \in Seq(Tabs)
  PROVE  LET i == SelectInSeq(ts, LAMBDA x : x \in QueryTabs) IN
         IF ToSet(ts) \cap QueryTabs = {} THEN i = 0 ELSE i # 0 /\ ts[i] \in ToSet(ts) \cap QueryTabs
<1> DEFINE I == {i \in 1..Len(ts) : ts[i] \in QueryTabs}
           n == SelectInSeq(ts, LAMBDA x : x \in QueryTabs)
<1>1. n = IF I # {} THEN Min(I) ELSE 0
  BY DEF SelectInSeq
<1>2. DOMAIN ts = 1..Len(ts) /\ Len(ts) \in Nat
  OBVIOUS
<1>3. I = {} <=> ToSet(ts) \cap QueryTabs = {}
  BY <1>2 DEF ToSet
<1>4. I # {} => Min(I) \in I
  <2> SUFFICES ASSUME I # {} PROVE Min(I) \in I
    OBVIOUS
  <2>1. I \in SUBSET Nat
    OBVIOUS
  <2> HIDE DEF I
  <2>2. \E x \in I : \A y \in I : x <= y
    BY <2>1, LeastIs
  <2> QED
    BY <2>2 DEF Min
<1>5. I # {} => n \in 1..Len(ts) /\ ts[n] \in QueryTabs
  BY <1>1, <1>4
<1> HIDE DEF n, I
<1>6. I # {} => n # 0 /\ ts[n] \in ToSet(ts) \cap QueryTabs
  BY <1>2, <1>5 DEF ToSet
<1> QED
  BY <1>1, <1>3, <1>6 DEF n

-----------------------------------------------------------------------------
LEMMA RemoveTab ==
  ASSUME NEW S, NEW s \in Seq(S), NEW k \in DOMAIN s
  PROVE  LET r == RemoveAt(s, k) IN
         /\ r \in Seq(S) /\ ToSet(r) \subseteq ToSet(s)
         /\ \A j \in DOMAIN s : j # k => s[j] \in ToSet(r)
         /\ r # <<>> => Last(r) \in ToSet(r)
         /\ r = <<>> => ToSet(r) = {}
<1> DEFINE a == SubSeq(s, 1, k - 1)  b == SubSeq(s, k + 1, Len(s))  r == a \o b
<1>1. Len(s) \in Nat /\ DOMAIN s = 1..Len(s) /\ k \in 1..Len(s)
  OBVIOUS
<1>2. a \in Seq(S) /\ Len(a) = k - 1 /\ \A i \in 1..(k - 1) : a[i] = s[i]
  BY <1>1
<1>3. b \in Seq(S) /\ Len(b) = Len(s) - k /\ \A i \in 1..(Len(s) - k) : b[i] = s[k + i]
  BY <1>1
<1> HIDE DEF a, b
<1>4. /\ r \in Seq(S) /\ Len(r) = Len(a) + Len(b) /\ DOMAIN r = 1..Len(r)
      /\ \A i \in 1..(Len(a) + Len(b)) : r[i] = IF i <= Len(a) THEN a[i] ELSE b[i - Len(a)]
  <2>1. a \in Seq(S) /\ b \in Seq(S) /\ Len(a) \in Nat /\ Len(b) \in Nat
    BY <1>2, <1>3
  <2>2. r \in Seq(S) /\ Len(r) = Len(a) + Len(b)
    BY <2>1
  <2>3. ASSUME NEW i \in 1..(Len(a) + Len(b)) PROVE r[i] = IF i <= Len(a) THEN a[i] ELSE b[i - Len(a)]
    BY <2>1
  <2> QED
    BY <2>2, <2>3
<1>5. Len(r) = Len(s) - 1 /\ DOMAIN r = 1..(Len(s) - 1)
  BY <1>1, <1>2, <1>3, <1>4
<1> HIDE DEF r
<1>6. ASSUME NEW i \in 1..(Len(s) - 1), i < k PROVE r[i] = s[i] /\ i \in DOMAIN s
  <2>1. i \in 1..(k - 1) /\ i \in 1..(Len(a) + Len(b)) /\ i <= Len(a)
    BY <1>1, <1>2, <1>3, <1>6
  <2> QED
    BY <1>1, <1>2, <1>4, <2>1
<1>7. ASSUME NEW i \in 1..(Len(s) - 1), ~(i < k) PROVE r[i] = s[i + 1] /\ i + 1 \in DOMAIN s
  <2>1. /\ i - Len(a) \in 1..(Len(s) - k) /\ i \in 1..(Len(a) + Len(b)) /\ ~(i <= Len(a))
        /\ k + (i - Len(a)) = i + 1
    BY <1>1, <1>2, <1>3, <1>7
  <2>2. r[i] = b[i - Len(a)] /\ b[i - Len(a)] = s[k + (i - Len(a))]
    BY <1>3, <1>4, <2>1
  <2> QED
    BY <1>1, <1>7, <2>1, <2>2
<1>8. ToSet(r) \subseteq ToSet(s)
  BY <1>5, <1>6, <1>7 DEF ToSet
<1>9. ASSUME NEW j \in DOMAIN s, j # k PROVE s[j] \in ToSet(r)
  <2>1. CASE j < k
    <3>1. j \in 1..(Len(s) - 1)
      BY <1>1, <2>1
    <3> QED
      BY <1>5, <1>6, <2>1, <3>1 DEF ToSet
  <2>2. CASE ~(j < k)
    <3>1. j - 1 \in 1..(Len(s) - 1) /\ ~(j - 1 < k) /\ (j - 1) + 1 = j
      BY <1>1, <1>9, <2>2
    <3>2. r[j - 1] = s[(j - 1) + 1]
      BY <1>7, <3>1
    <3> QED
      BY <1>5, <3>1, <3>2 DEF ToSet
  <2> QED
    BY <2>1, <2>2
<1>10. r # <<>> => Last(r) \in ToSet(r)
  <2>1. r \in Seq(S)
    BY <1>4
  <2>2. r # <<>> => Len(r) \in DOMAIN r
    BY <2>1
  <2> QED
    BY <2>2 DEF Last, ToSet
<1>11. r = <<>> => ToSet(r) = {}
  BY DEF ToSet
<1> QED
  BY <1>4, <1>8, <1>9, <1>10, <1>11 DEF r, a, b, RemoveAt

-----------------------------------------------------------------------------
\* What a turn of the editor leaves of the strip.
Turned(ts, t) ==
  /\ ts \in Seq(Tabs) /\ followEditor(ts, t)
  /\ ToSet(ts) \subseteq Shown \cup {t}
  /\ IF t = Null THEN ToSet(ts) = {} /\ Flying(run) = {} ELSE t \in ToSet(ts)
  /\ t \in Shown \cup fresh \cup {Null}
  /\ ToSet(ts) \cap QueryTabs = {} => Shown \cap QueryTabs = {} \/ ~Modal
  /\ fresh' \subseteq fresh /\ (t \in fresh => t \notin fresh')

editorTurn == openTab \/ setActiveTab \/ closeTab \/ closeOtherTabs \/ closeTabsToRight

LEMMA Turns ==
  ASSUME tabs \in Seq(Tabs), fresh \subseteq Tabs, fresh \cap Shown = {}, active # Null => active \in Shown,
         active = Null => Shown = {}, ~ClosesOverRun, editorTurn
  PROVE  \E ts, t : Turned(ts, t)
<1>0. DOMAIN tabs = 1..Len(tabs) /\ Len(tabs) \in Nat /\ Shown \subseteq Tabs /\ Null \notin Tabs
      /\ QueryTabs \subseteq Tabs
  BY Distinct DEF Shown, ToSet
<1>1. CASE openTab
  <2>1. PICK t \in fresh : fresh' = fresh \ {t} /\ followEditor(Append(tabs, t), t)
    BY <1>1 DEF openTab
  <2>2. Append(tabs, t) \in Seq(Tabs) /\ ToSet(Append(tabs, t)) = Shown \cup {t}
    <3> DEFINE r == Append(tabs, t)
    <3>1. /\ r \in Seq(Tabs) /\ DOMAIN r = 1..(Len(tabs) + 1)
          /\ r[Len(tabs) + 1] = t /\ \A i \in 1..Len(tabs) : r[i] = tabs[i]
      OBVIOUS
    <3>2. \A i : i \in 1..(Len(tabs) + 1) <=> i \in 1..Len(tabs) \/ i = Len(tabs) + 1
      BY <1>0
    <3> HIDE DEF r
    <3>3. ToSet(r) = Shown \cup {t}
      BY <1>0, <3>1, <3>2 DEF Shown, ToSet
    <3> QED
      BY <3>1, <3>3 DEF r
  <2>3. Turned(Append(tabs, t), t)
    BY <1>0, <2>1, <2>2 DEF Turned
  <2> QED
    BY <2>3
<1>2. CASE setActiveTab
  <2>1. PICK t \in Shown \ {active} : followEditor(tabs, t) /\ fresh' = fresh
    BY <1>2 DEF setActiveTab, Shown
  <2>2. Turned(tabs, t)
    BY <1>0, <2>1 DEF Turned, Shown
  <2> QED
    BY <2>2
<1>3. CASE closeTab
  <2> DEFINE last(i) == tabs[i] \in QueryTabs /\ \A j \in 1..Len(tabs) : tabs[j] \in QueryTabs => j = i
  <2>1. PICK i \in 1..Len(tabs) :
          IF last(i)
          THEN \E n \in fresh \cap QueryTabs : fresh' = fresh \ {n} /\ followEditor([tabs EXCEPT ![i] = n], n)
          ELSE /\ RemoveAt(tabs, i) = <<>> => ClosesOverRun \/ Flying(run) = {}
               /\ followEditor(RemoveAt(tabs, i), IF active # tabs[i] THEN active
                                                  ELSE IF RemoveAt(tabs, i) = <<>> THEN Null ELSE Last(RemoveAt(tabs, i)))
               /\ fresh' = fresh
    BY <1>3 DEF closeTab
  <2>2. CASE last(i)
    <3>1. PICK n \in fresh \cap QueryTabs : fresh' = fresh \ {n} /\ followEditor([tabs EXCEPT ![i] = n], n)
      BY <2>1, <2>2
    <3> DEFINE r == [tabs EXCEPT ![i] = n]
    <3>2. r \in Seq(Tabs) /\ DOMAIN r = DOMAIN tabs /\ r[i] = n /\ \A j \in DOMAIN tabs : j # i => r[j] = tabs[j]
      BY <1>0
    <3> HIDE DEF r
    <3>3. ToSet(r) \subseteq Shown \cup {n} /\ n \in ToSet(r)
      BY <1>0, <3>2 DEF Shown, ToSet
    <3>4. Turned(r, n)
      BY <1>0, <3>1, <3>2, <3>3 DEF Turned, r
    <3> QED
      BY <3>4
  <2>3. CASE ~last(i)
    <3> DEFINE r == RemoveAt(tabs, i)
               t == IF active # tabs[i] THEN active ELSE IF r = <<>> THEN Null ELSE Last(r)
    <3>1. (r = <<>> => Flying(run) = {}) /\ followEditor(r, t) /\ fresh' = fresh
      BY <2>1, <2>3
    <3>2. /\ r \in Seq(Tabs) /\ ToSet(r) \subseteq Shown
          /\ \A j \in 1..Len(tabs) : j # i => tabs[j] \in ToSet(r)
          /\ r # <<>> => Last(r) \in ToSet(r)
          /\ r = <<>> => ToSet(r) = {}
      BY RemoveTab DEF Shown
    <3> HIDE DEF r
    <3>3. Shown = {tabs[j] : j \in 1..Len(tabs)}
      BY <1>0 DEF Shown, ToSet
    <3>4. active \in Shown
      BY <3>3
    <3>5. active # tabs[i] => active \in ToSet(r)
      BY <3>2, <3>3, <3>4
    <3>6. IF t = Null THEN ToSet(r) = {} /\ Flying(run) = {} ELSE t \in ToSet(r)
      BY <1>0, <3>1, <3>2, <3>4, <3>5
    <3>7. ToSet(r) \cap QueryTabs = {} => Shown \cap QueryTabs = {}
      BY <2>3, <3>2, <3>3
    <3> HIDE DEF t
    <3>8. Turned(r, t)
      BY <1>0, <3>1, <3>2, <3>6, <3>7 DEF Turned
    <3> QED
      BY <3>8
  <2> QED
    BY <2>2, <2>3
<1>4. CASE closeOtherTabs
  <2>1. PICK t \in Shown : followEditor(<<t>>, t) /\ ~Modal /\ fresh' = fresh
    BY <1>4 DEF closeOtherTabs, Shown
  <2>2. <<t>> \in Seq(Tabs) /\ ToSet(<<t>>) = {t}
    BY <1>0 DEF ToSet
  <2>3. Turned(<<t>>, t)
    BY <1>0, <2>1, <2>2 DEF Turned
  <2> QED
    BY <2>3
<1>5. CASE closeTabsToRight
  <2>1. PICK i \in 1..(Len(tabs) - 1) :
           followEditor(SubSeq(tabs, 1, i), IF active \in ToSet(SubSeq(tabs, 1, i)) THEN active ELSE tabs[i])
           /\ ~Modal /\ fresh' = fresh
    BY <1>5 DEF closeTabsToRight
  <2> DEFINE r == SubSeq(tabs, 1, i)
             t == IF active \in ToSet(r) THEN active ELSE tabs[i]
  <2>2. r \in Seq(Tabs) /\ DOMAIN r = 1..i /\ \A j \in 1..i : r[j] = tabs[j] /\ j \in DOMAIN tabs
    BY <1>0
  <2>3. i \in 1..i
    BY <1>0
  <2>4. followEditor(r, t)
    BY <2>1
  <2> HIDE DEF r
  <2>5. ToSet(r) \subseteq Shown /\ tabs[i] \in ToSet(r)
    BY <2>2, <2>3 DEF ToSet, Shown
  <2>6. t \in ToSet(r)
    BY <2>5
  <2> HIDE DEF t
  <2>7. Turned(r, t)
    BY <1>0, <2>1, <2>2, <2>4, <2>5, <2>6 DEF Turned
  <2> QED
    BY <2>7
<1> QED
  BY <1>1, <1>2, <1>3, <1>4, <1>5 DEF editorTurn

\* The runs that wait for the user: d behind the dialog, a behind the discard prompt.
WaitI(rs, d, a, S) ==
  /\ d # Null => /\ rs[d].phase = "confirming" /\ rs[d].tab \in QueryTabs \cup {NoTab}
                 /\ rs[d].session # Null => rs[d].tab = rs[d].session
  /\ a # Null => /\ rs[a].phase = "asking" /\ rs[a].kind = "query" /\ rs[a].tab \in QueryTabs
                 /\ rs[a].session # Null => rs[a].tab = rs[a].session
                 /\ rs[a].own => rs[a].session # Null
  /\ S \cap QueryTabs = {} => a = Null /\ (d # Null => rs[d].tab = NoTab)

\* With no tab open: what runs, runs under no tab, and nothing is parked there.
EmptyI(rs, b, s) ==
  s.viewTabId = Null =>
    /\ \A r \in Runs : Flies(rs, r) => rs[r].tab = NoTab /\ b.lastStartedTab = NoTab
    /\ NoTab \in DOMAIN s.parked => ~s.parked[NoTab].isExecuting

\* A slice shows answers that came, and pages what ran.
GoodSlice(rs, x) ==
  /\ \A r \in {x.results, x.plan, x.error} \cap Runs : rs[r].phase = "done"
  /\ \A r \in {x.page, x.request} \cap Runs : Flown(rs, r)
ShowI(rs, s) == \A x \in AllSlices(s) : GoodSlice(rs, x)

\* What ran under no tab names no session.
Unnamed(rs, x) == \A r \in {x.page, x.request} \cap Runs : rs[r].session = Null
NoTabI(rs, s) ==
  /\ s.viewTabId = Null => Unnamed(rs, s.screen)
  /\ NoTab \in DOMAIN s.parked => Unnamed(rs, s.parked[NoTab])

\* Edits are made in tabs that are open, on the result that is shown.
EditI(e, s, S) ==
  /\ \A t \in QueryTabs : e[t] # Null => t \in S
  /\ \A t \in QueryTabs : s.viewTabId = t /\ e[t] # Null => e[t] = s.screen.results

\* A run is waited for: the state-level Awaited, of any runs.
AwaitedIn(rs, r) ==
  /\ ~rs[r].cancelled /\ ~rs[r].orphaned
  /\ \A q \in Runs : rs[q].seq > rs[r].seq /\ rs[q].home = rs[r].home => rs[r].own /\ ~rs[q].own

\* What asked no consent replaces no edits.
LossI(rs, d, e) ==
  /\ \A r \in Runs : /\ Flies(rs, r) /\ rs[r].kind = "query" /\ ~rs[r].agreed /\ AwaitedIn(rs, r)
                     /\ rs[r].home \in QueryTabs
                     => e[rs[r].home] = Null
  /\ d # Null /\ rs[d].kind = "query" /\ ~rs[d].agreed =>
       IF rs[d].tab = NoTab THEN \A t \in QueryTabs : e[t] = Null ELSE e[rs[d].tab] = Null

TypeI ==
  /\ tabs \in Seq(Tabs) /\ active \in Tabs \cup {Null} /\ fresh \subseteq Tabs
  /\ store \in StoreType /\ book \in BookType /\ run \in [Runs -> RunType]
  /\ dialog \in Runs \cup {Null} /\ asking \in Runs \cup {Null}
  /\ edits \in [QueryTabs -> Runs \cup {Null}]
  /\ stops \subseteq [run : Runs, tab : Keys, at : Nat]

StripI ==
  /\ store.viewTabId = active /\ KeptI(store, Shown)
  /\ store.runTabId \in Shown \cup {Null}
  /\ Shown \cap QueryTabs # {} => store.runTabId # Null

FreshI ==
  /\ \A t \in fresh : t \notin Shown /\ t \notin DOMAIN store.parked /\ Untouched(run, book, t)
  /\ \A c \in stops : c.tab \notin fresh

IInv ==
  /\ TypeI /\ StripI /\ FreshI
  /\ CoreI(run, book, store, Shown \cup {NoTab})
  /\ WaitI(run, dialog, asking, Shown) /\ EmptyI(run, book, store)
  /\ ShowI(run, store) /\ NoTabI(run, store) /\ EditI(edits, store, Shown) /\ LossI(run, dialog, edits)

\* Runs go on: what ended stays ended, what ran keeps its session.
Kept(rs, rs2) ==
  \A q \in Runs : /\ rs[q].phase = "done" => rs2[q].phase = "done"
                  /\ Flown(rs, q) => Flown(rs2, q) /\ rs2[q].session = rs[q].session

\* What is written of a slice shows answers that came, and pages what ran.
GoodPart(rs, p) ==
  /\ \A x \in DOMAIN p \cap {"results", "plan", "error"} : p[x] \in Runs => rs[p[x]].phase = "done"
  /\ \A x \in DOMAIN p \cap {"page", "request"} : p[x] \in Runs => Flown(rs, p[x])
UnnamedPart(rs, p) == \A x \in DOMAIN p \cap {"page", "request"} : p[x] \in Runs => rs[p[x]].session = Null

LEMMA SliceTypes ==
  ASSUME NEW x \in Slices
  PROVE  /\ x["results"] = x.results /\ x["plan"] = x.plan /\ x["error"] = x.error /\ x["page"] = x.page
         /\ x["request"] = x.request /\ x["isExecuting"] = x.isExecuting
         /\ x.results \in Runs \cup {Null} /\ x.plan \in Runs \cup {Null} /\ x.page \in Runs \cup {Null}
         /\ x.request \in Runs \cup {Null} /\ x.error \in Runs \cup {Null, Unconfirmed} /\ x.isExecuting \in BOOLEAN
  BY DEF Slices

LEMMA SliceKept ==
  ASSUME NEW rs, NEW rs2, NEW x, Kept(rs, rs2), GoodSlice(rs, x)
  PROVE  GoodSlice(rs2, x) /\ (Unnamed(rs, x) => Unnamed(rs2, x))
  BY DEF Kept, GoodSlice, Unnamed

LEMMA EmptyGood == ASSUME NEW rs PROVE GoodSlice(rs, EmptySlice) /\ Unnamed(rs, EmptySlice)
  BY Distinct DEF GoodSlice, Unnamed, EmptySlice

LEMMA PatchGood ==
  ASSUME NEW rs, NEW x \in Slices, NEW p, Partial(p), GoodSlice(rs, x)
  PROVE  /\ GoodPart(rs, p) => GoodSlice(rs, Patch(x, p))
         /\ UnnamedPart(rs, p) /\ Unnamed(rs, x) => Unnamed(rs, Patch(x, p))
<1> DEFINE y == Patch(x, p)
<1>1. y \in Slices /\ \A f \in Fields : y[f] = IF f \in DOMAIN p THEN p[f] ELSE x[f]
  BY PatchIs
<1> HIDE DEF y
<1>2. /\ y.results = IF "results" \in DOMAIN p THEN p["results"] ELSE x.results
      /\ y.plan = IF "plan" \in DOMAIN p THEN p["plan"] ELSE x.plan
      /\ y.error = IF "error" \in DOMAIN p THEN p["error"] ELSE x.error
      /\ y.page = IF "page" \in DOMAIN p THEN p["page"] ELSE x.page
      /\ y.request = IF "request" \in DOMAIN p THEN p["request"] ELSE x.request
  BY <1>1, SliceTypes DEF Fields
<1>3. GoodPart(rs, p) => GoodSlice(rs, y)
  BY <1>2 DEF GoodPart, GoodSlice
<1>4. UnnamedPart(rs, p) /\ Unnamed(rs, x) => Unnamed(rs, y)
  BY <1>2 DEF UnnamedPart, Unnamed
<1> QED
  BY <1>3, <1>4 DEF y

LEMMA StoreSlices ==
  ASSUME NEW s \in StoreType
  PROVE  AllSlices(s) \subseteq Slices /\ s.screen \in AllSlices(s) /\ \A k \in DOMAIN s.parked : s.parked[k] \in AllSlices(s)
  BY StoreIs DEF AllSlices

\* Nothing is written: what runs do keeps what is shown good.
LEMMA StoreKept ==
  ASSUME NEW s \in StoreType, NEW rs, NEW rs2, Kept(rs, rs2), ShowI(rs, s)
  PROVE  ShowI(rs2, s) /\ (NoTabI(rs, s) => NoTabI(rs2, s))
<1>1. ShowI(rs2, s)
  BY SliceKept DEF ShowI
<1>2. NoTabI(rs, s) => NoTabI(rs2, s)
  BY SliceKept, StoreSlices DEF ShowI, NoTabI
<1> QED
  BY <1>1, <1>2

LEMMA WriterGood ==
  ASSUME NEW s \in StoreType, NEW t \in Keys, NEW p, Partial(p), NEW rs, NEW rs2, Kept(rs, rs2), ShowI(rs, s), NoTabI(rs, s),
         GoodPart(rs2, p), t = NoTab \/ s.viewTabId = Null => UnnamedPart(rs2, p)
  PROVE  LET q == tabWriter(s, t, p) IN ShowI(rs2, q) /\ NoTabI(rs2, q)
<1> DEFINE q == tabWriter(s, t, p)
<1>1. ShowI(rs2, s) /\ NoTabI(rs2, s)
  BY StoreKept
<1>2. AllSlices(s) \subseteq Slices
  BY StoreSlices
<1>3. ShowI(rs2, q)
  <2> SUFFICES ASSUME NEW x \in AllSlices(q) PROVE GoodSlice(rs2, x)
    BY DEF ShowI
  <2>1. PICK y \in AllSlices(s) \cup {EmptySlice} : x = y \/ x = Patch(y, p)
    BY WriterSlices
  <2>2. GoodSlice(rs2, y) /\ y \in Slices
    BY <1>1, <1>2, EmptyGood, EmptyIs DEF ShowI
  <2> QED
    BY <2>1, <2>2, PatchGood
<1>4. /\ q.viewTabId = s.viewTabId
      /\ s.viewTabId \in {Null, t} => q.parked = s.parked /\ q.screen = Patch(s.screen, p)
      /\ s.viewTabId \notin {Null, t} => q.screen = s.screen /\ q.parked = With(s.parked, t, Patch(SliceOf(s, t), p))
  BY WriterIs
<1>5. s.screen \in Slices /\ GoodSlice(rs2, s.screen) /\ \A k \in DOMAIN s.parked : s.parked[k] \in Slices /\ GoodSlice(rs2, s.parked[k])
  BY <1>1, <1>2, StoreSlices DEF ShowI
<1>6. CASE s.viewTabId \in {Null, t}
  <2>1. s.viewTabId = Null => Unnamed(rs2, q.screen)
    BY <1>1, <1>4, <1>5, <1>6, PatchGood DEF NoTabI
  <2> QED
    BY <1>1, <1>3, <1>4, <1>6, <2>1 DEF NoTabI
<1>7. CASE s.viewTabId \notin {Null, t}
  <2>1. DOMAIN q.parked = DOMAIN s.parked \cup {t} /\ q.parked[t] = Patch(SliceOf(s, t), p)
        /\ \A k \in DOMAIN s.parked : k # t => q.parked[k] = s.parked[k]
    <3>1. PICK f, y : f = s.parked /\ y = Patch(SliceOf(s, t), p)
      OBVIOUS
    <3>2. PICK g : g = With(f, t, y)
      OBVIOUS
    <3>3. DOMAIN g = DOMAIN f \cup {t} /\ g[t] = y /\ \A k \in DOMAIN f : k # t => g[k] = f[k]
      BY <3>2 DEF With
    <3>4. q.parked = g
      BY <1>4, <1>7, <3>1, <3>2
    <3> QED
      BY <3>1, <3>3, <3>4
  <2>2. t = NoTab => Unnamed(rs2, q.parked[t])
    <3> SUFFICES ASSUME t = NoTab PROVE Unnamed(rs2, q.parked[t])
      OBVIOUS
    <3>1. SliceOf(s, t) = IF t \in DOMAIN s.parked THEN s.parked[t] ELSE EmptySlice
      BY <1>7 DEF SliceOf
    <3>2. SliceOf(s, t) \in Slices /\ GoodSlice(rs2, SliceOf(s, t)) /\ Unnamed(rs2, SliceOf(s, t))
      BY <1>1, <1>5, <3>1, EmptyGood, EmptyIs DEF NoTabI
    <3> QED
      BY <2>1, <3>2, PatchGood
  <2>3. NoTab \in DOMAIN q.parked => Unnamed(rs2, q.parked[NoTab])
    BY <1>1, <2>1, <2>2 DEF NoTabI
  <2> QED
    BY <1>3, <1>4, <1>7, <2>3 DEF NoTabI
<1> QED
  BY <1>6, <1>7

\* With no tab open everything is written where NoTab's output is.
LEMMA WriterNull ==
  ASSUME NEW s, NEW t, NEW p, s.viewTabId = Null
  PROVE  tabWriter(s, t, p) = tabWriter(s, NoTab, p)
  BY DEF tabWriter

\* Writing the slice on screen.
LEMMA ScreenWriter ==
  ASSUME NEW s, NEW p
  PROVE  [s EXCEPT !.screen = Patch(@, p)] = tabWriter(s, IF s.viewTabId = Null THEN NoTab ELSE s.viewTabId, p)
  BY DEF tabWriter

\* What a start writes of its tab's slice.
StartPart(r, kind) ==
  LET begun == [isExecuting |-> TRUE, error |-> Null, cancelled |-> Null] IN
  IF kind = "explain" THEN With(begun, "request", r) ELSE begun

LEMMA StartPartIs ==
  ASSUME NEW r \in Runs, NEW kind
  PROVE  LET p == StartPart(r, kind) IN
         /\ Partial(p) /\ p.isExecuting /\ "isExecuting" \in DOMAIN p /\ p["error"] = Null
         /\ DOMAIN p \subseteq {"isExecuting", "error", "cancelled", "request"}
         /\ "request" \in DOMAIN p => p["request"] = r
<1> DEFINE p == StartPart(r, kind)
           a == [isExecuting |-> TRUE, error |-> Null, cancelled |-> Null]
<1>1. DOMAIN a = {"isExecuting", "error", "cancelled"} /\ a["isExecuting"] = TRUE /\ a["error"] = Null /\ a["cancelled"] = Null
  OBVIOUS
<1>2. p = a \/ p = With(a, "request", r)
  BY DEF StartPart
<1> HIDE DEF p, a
<1>3. ASSUME p = With(a, "request", r)
      PROVE  /\ DOMAIN p = {"isExecuting", "error", "cancelled", "request"}
             /\ p["isExecuting"] = TRUE /\ p["error"] = Null /\ p["cancelled"] = Null /\ p["request"] = r
  <2>1. DOMAIN p = DOMAIN a \cup {"request"} /\ p["request"] = r /\ \A x \in DOMAIN a : x # "request" => p[x] = a[x]
    BY <1>3 DEF With
  <2> QED
    BY <1>1, <2>1
<1>4. /\ DOMAIN p \subseteq {"isExecuting", "error", "cancelled", "request"} /\ "isExecuting" \in DOMAIN p
      /\ p["isExecuting"] = TRUE /\ p["error"] = Null /\ p["cancelled"] = Null /\ ("request" \in DOMAIN p => p["request"] = r)
  <2>1. CASE p = a
    BY <1>1, <2>1
  <2>2. CASE p = With(a, "request", r)
    BY <1>3, <2>2
  <2> QED
    BY <1>2, <2>1, <2>2
<1>5. Partial(p)
  BY <1>4 DEF Partial, Fields
<1>6. p.isExecuting
  BY <1>4
<1> QED
  BY <1>4, <1>5, <1>6 DEF p

\* A start, as a change of the flat functions.
LEMMA StartIs ==
  ASSUME NEW r \in Runs, NEW tab \in Keys, NEW own \in BOOLEAN, NEW session \in QueryTabs \cup {Null},
         NEW kind \in {"query", "explain", "page"}, NEW agreed \in BOOLEAN, TypeI, tab = NoTab => session = Null,
         Start(r, [tab |-> tab, own |-> own], session, kind, agreed)
  PROVE  /\ run' \in [Runs -> RunType] /\ book' \in BookType
         /\ Started(run, book, run', book', r, tab, own)
         /\ run'[r].session = session /\ run'[r].kind = kind /\ run'[r].agreed = agreed
         /\ book'.lastStartedTab = tab
         /\ store' = tabWriter(store, tab, StartPart(r, kind))
<1> DEFINE key == IF own THEN tab ELSE r
           g   == Generation(bumpGeneration(book, key), key)
           e   == [phase |-> "flying", tab |-> tab, own |-> own, key |-> key, filed |-> tab, home |-> tab,
                   generation |-> g, seq |-> book.runCount + 1, session |-> session, kind |-> kind,
                   cancelled |-> FALSE, orphaned |-> FALSE, agreed |-> agreed]
<1>1. run \in [Runs -> RunType] /\ book \in BookType /\ key \in Keys \cup Runs
  BY DEF TypeI
<1>2. run' = [run EXCEPT ![r] = e] /\ book' = StartBook(book, r, tab, own) /\ store' = tabWriter(store, tab, StartPart(r, kind))
  BY DEF Start, StartBook, StartPart
<1>3. g = Generation(book, key) + 1 /\ g \in Nat /\ book.runCount + 1 \in Nat
  BY <1>1, BumpIs, FlatTypes, BookIs
<1> HIDE DEF g
<1>4. e \in RunType
  BY <1>1, <1>3 DEF RunType, Phases
<1>5. run' \in [Runs -> RunType] /\ run'[r] = e /\ \A q \in Runs : q # r => run'[q] = run[q]
  BY <1>1, <1>2, <1>4
<1>6. /\ book' \in BookType /\ book'.runCount = book.runCount + 1 /\ book'.lastStartedTab = tab
      /\ \A k : Generation(book', k) = IF k = key THEN Generation(book, key) + 1 ELSE Generation(book, k)
      /\ \A k : At(book', k) = IF k = key THEN r ELSE At(book, k)
      /\ \A k : LatestStart(book', k) = IF k = tab THEN book.runCount + 1 ELSE LatestStart(book, k)
  BY <1>1, <1>2, StartBookIs
<1>7. Started(run, book, run', book', r, tab, own)
  BY <1>3, <1>5, <1>6 DEF Started
<1> QED
  BY <1>2, <1>5, <1>6, <1>7

\* What a write that leaves the rows alone leaves of the rows on screen.
LEMMA WriterRows ==
  ASSUME NEW s \in StoreType, NEW t \in Keys, NEW p, Partial(p), "results" \notin DOMAIN p
  PROVE  tabWriter(s, t, p).screen.results = s.screen.results
<1> DEFINE q == tabWriter(s, t, p)
<1>1. q \in StoreType /\ (q.screen = Patch(s.screen, p) \/ q.screen = s.screen)
  BY WriterIs
<1>2. s.screen \in Slices /\ q.screen \in Slices
  BY <1>1, StoreIs
<1> HIDE DEF q
<1>3. q.screen = Patch(s.screen, p) => q.screen["results"] = s.screen["results"]
  BY <1>2, PatchIs DEF Fields
<1>4. q.screen.results = s.screen.results
  BY <1>1, <1>2, <1>3, SliceTypes
<1> QED
  BY <1>4 DEF q

\* What a write leaves of the store.
LEMMA WriterStore ==
  ASSUME NEW t \in Keys, NEW p, Partial(p), TypeI, StripI, store' = tabWriter(store, t, p), UNCHANGED editorVars
  PROVE  StripI' /\ store' \in StoreType /\ store'.viewTabId = store.viewTabId
         /\ (store.viewTabId = Null => store'.parked = store.parked)
         /\ DOMAIN store'.parked \subseteq DOMAIN store.parked \cup {t}
         /\ Shown' = Shown
<1>1. store \in StoreType
  BY DEF TypeI
<1>2. /\ store' \in StoreType /\ store'.viewTabId = store.viewTabId /\ store'.runTabId = store.runTabId
      /\ (store.viewTabId = Null => store'.parked = store.parked)
  BY <1>1, WriterIs
<1>3. DOMAIN store'.parked \subseteq DOMAIN store.parked \cup {t} /\ DOMAIN store.parked \subseteq DOMAIN store'.parked
  BY <1>1, WriterParked
<1>4. Shown' = Shown /\ active' = active
  BY DEF Shown, editorVars
<1>5. StripI'
  BY <1>2, <1>3, <1>4 DEF StripI, KeptI
<1> QED
  BY <1>2, <1>3, <1>4, <1>5

-----------------------------------------------------------------------------
\* The conditions a start is made under.
Startable(r, tab, own, session, kind, agreed) ==
  /\ r \in Runs /\ ~Flown(run, r) /\ tab \in Keys /\ own \in BOOLEAN /\ session \in QueryTabs \cup {Null}
  /\ kind \in {"query", "explain", "page"} /\ agreed \in BOOLEAN
  /\ tab = NoTab => session = Null
  /\ tab \notin fresh /\ session \notin fresh
  /\ store.viewTabId = Null => tab = NoTab
  /\ own /\ tab = NoTab => store.viewTabId = Null
  /\ kind = "query" /\ ~agreed /\ tab \in QueryTabs => edits[tab] = Null

LEMMA StartStep ==
  ASSUME IInv, NEW r, NEW tab, NEW own, NEW session, NEW kind, NEW agreed, Startable(r, tab, own, session, kind, agreed),
         Start(r, [tab |-> tab, own |-> own], session, kind, agreed), UNCHANGED <<editorVars, edits, stops>>,
         dialog' \in {dialog, Null} \ {r}, asking' \in {asking, Null} \ {r}
  PROVE  IInv'
<1> DEFINE p == StartPart(r, kind)
           L == Shown \cup {NoTab}
<1>0. /\ TypeI /\ StripI /\ FreshI /\ CoreI(run, book, store, L) /\ WaitI(run, dialog, asking, Shown) /\ EmptyI(run, book, store)
      /\ ShowI(run, store) /\ NoTabI(run, store) /\ EditI(edits, store, Shown) /\ LossI(run, dialog, edits)
  BY DEF IInv
<1>a. r \in Runs /\ tab \in Keys /\ own \in BOOLEAN /\ session \in QueryTabs \cup {Null} /\ agreed \in BOOLEAN
      /\ kind \in {"query", "explain", "page"} /\ ~Flown(run, r)
  BY DEF Startable
<1>b. store \in StoreType /\ book \in BookType /\ run \in [Runs -> RunType]
  BY <1>0 DEF TypeI
<1>1. /\ run' \in [Runs -> RunType] /\ book' \in BookType
      /\ Started(run, book, run', book', r, tab, own)
      /\ run'[r].session = session /\ run'[r].kind = kind /\ run'[r].agreed = agreed
      /\ book'.lastStartedTab = tab
      /\ store' = tabWriter(store, tab, p)
  BY <1>0, <1>a, StartIs DEF Startable
<1>2. /\ Partial(p) /\ p.isExecuting /\ "isExecuting" \in DOMAIN p /\ p["error"] = Null
      /\ DOMAIN p \subseteq {"isExecuting", "error", "cancelled", "request"}
      /\ "request" \in DOMAIN p => p["request"] = r
  BY <1>a, StartPartIs
<1> HIDE DEF p
<1>3. StripI' /\ store' \in StoreType /\ store'.viewTabId = store.viewTabId
      /\ (store.viewTabId = Null => store'.parked = store.parked)
      /\ DOMAIN store'.parked \subseteq DOMAIN store.parked \cup {tab}
      /\ Shown' = Shown
  BY <1>0, <1>1, <1>2, <1>a, WriterStore
<1>4. \A q \in Runs : q # r => run'[q] = run[q]
  BY <1>1 DEF Started
<1>5. run'[r].phase = "flying" /\ run'[r].tab = tab /\ run'[r].home = tab /\ run'[r].seq = book.runCount + 1
      /\ ~run'[r].cancelled /\ ~run'[r].orphaned
  BY <1>1 DEF Started
<1>6. TypeI'
  BY <1>0, <1>1, <1>3 DEF TypeI, editorVars
<1>7. FreshI'
  <2>1. Runs \cap Keys = {} /\ fresh \subseteq Keys
    BY <1>0, Distinct DEF TypeI
  <2>2. ASSUME NEW t \in fresh PROVE t \notin Shown' /\ t \notin DOMAIN store'.parked /\ Untouched(run', book', t)
    <3>1. t # tab /\ t # session /\ t # r /\ Untouched(run, book, t) /\ t \notin Shown /\ t \notin DOMAIN store.parked
      BY <1>0, <1>a, <2>1 DEF FreshI, Startable
    <3>2. Untouched(run', book', t)
      BY <1>1, <1>4, <1>5, <3>1 DEF Started, Untouched
    <3> QED
      BY <1>3, <3>1, <3>2
  <2>3. fresh' = fresh /\ stops' = stops
    BY DEF editorVars
  <2> QED
    BY <1>0, <2>2, <2>3 DEF FreshI
<1>8. CoreI(run', book', store', L)
  <2>1. Typed(run, book)
    BY <1>b, TypedIs
  <2>2. \A u \in L : Spin(store', u) <=> u = tab \/ Spin(store, u)
    <3>1. store.viewTabId = Null => tab = NoTab /\ L = {NoTab}
      BY <1>0 DEF Startable, StripI, KeptI
    <3> HIDE DEF L
    <3>2. \A u \in L : Spin(tabWriter(store, tab, p), u) <=> (u = tab /\ p.isExecuting) \/ (u # tab /\ Spin(store, u))
      BY <1>2, <1>a, <1>b, <3>1, WriterSpin
    <3> QED
      BY <1>1, <1>2, <3>2
  <2>3. own /\ tab = NoTab => store.viewTabId = Null
    BY DEF Startable
  <2> HIDE DEF L
  <2>4. RunI(run, book, L) /\ ListI(run, book, L) /\ GenI(run, book, L, store.viewTabId) /\ OrderI(run, book, L) /\ SpinI(run, book, store, L)
    BY <1>0 DEF CoreI
  <2>5. RunI(run', book', L)
    BY <1>1, <1>a, <2>1, <2>4, StartRun
  <2>6. ListI(run', book', L)
    BY <1>1, <1>a, <2>1, <2>4, StartList
  <2>7. GenI(run', book', L, store.viewTabId)
    BY <1>1, <1>a, <2>1, <2>3, <2>4, StartGen
  <2>8. OrderI(run', book', L)
    BY <1>1, <1>a, <2>1, <2>4, StartOrder
  <2>9. SpinI(run', book', store', L)
    <3>1. Started(run, book, run', book', r, tab, own) /\ RunI(run, book, L) /\ ListI(run, book, L) /\ SpinI(run, book, store, L)
      BY <1>1, <2>4
    <3> QED
      BY <1>a, <2>1, <2>2, <3>1, StartSpin
  <2> QED
    BY <1>3, <2>5, <2>6, <2>7, <2>8, <2>9 DEF CoreI
<1>9. WaitI(run', dialog', asking', Shown')
  <2>1. dialog' # Null => dialog' = dialog /\ run'[dialog'] = run[dialog]
    BY <1>0, <1>4 DEF TypeI
  <2>2. asking' # Null => asking' = asking /\ run'[asking'] = run[asking]
    BY <1>0, <1>4 DEF TypeI
  <2> QED
    BY <1>0, <1>3, <2>1, <2>2 DEF WaitI
<1>10. EmptyI(run', book', store')
  <2>1. store.viewTabId = Null => tab = NoTab
    BY DEF Startable
  <2> QED
    BY <1>0, <1>1, <1>3, <1>4, <1>5, <2>1 DEF EmptyI, Flies
<1>11. ShowI(run', store') /\ NoTabI(run', store')
  <2>1. Kept(run, run')
    BY <1>4, <1>5, <1>a DEF Kept, Flown
  <2>2. GoodPart(run', p)
    BY <1>2, <1>5, Distinct DEF GoodPart, Flown
  <2>3. tab = NoTab \/ store.viewTabId = Null => UnnamedPart(run', p)
    BY <1>1, <1>2 DEF UnnamedPart, Startable
  <2> QED
    BY <1>0, <1>1, <1>2, <1>a, <1>b, <2>1, <2>2, <2>3, WriterGood
<1>12. EditI(edits', store', Shown')
  <2>1. store'.screen.results = store.screen.results
    BY <1>1, <1>2, <1>a, <1>b, WriterRows
  <2> QED
    BY <1>0, <1>3, <2>1 DEF EditI
<1>13. LossI(run', dialog', edits')
  <2>1. run[r].seq = 0 /\ \A q \in Runs : run[q].seq \in Nat
    BY <1>0, <1>a, <1>b, RunTypes DEF CoreI, RunI
  <2>2. ASSUME NEW q \in Runs, q # r, AwaitedIn(run', q) PROVE AwaitedIn(run, q)
    BY <1>4, <2>1, <2>2 DEF AwaitedIn
  <2>3. ASSUME NEW q \in Runs, Flies(run', q), run'[q].kind = "query", ~run'[q].agreed, AwaitedIn(run', q), run'[q].home \in QueryTabs
        PROVE  edits'[run'[q].home] = Null
    <3>1. CASE q = r
      BY <1>1, <1>5, <2>3, <3>1 DEF Startable
    <3>2. CASE q # r
      BY <1>0, <1>4, <2>2, <2>3, <3>2 DEF LossI, Flies
    <3> QED
      BY <3>1, <3>2
  <2>4. dialog' # Null => dialog' = dialog /\ run'[dialog'] = run[dialog]
    BY <1>0, <1>4 DEF TypeI
  <2> QED
    BY <1>0, <2>3, <2>4 DEF LossI
<1> QED
  BY <1>3, <1>6, <1>7, <1>8, <1>9, <1>10, <1>11, <1>12, <1>13 DEF IInv

\* Nothing starts or ends: at most, runs that wait for the user change.
Asked ==
  /\ run' \in [Runs -> RunType] /\ UNCHANGED <<editorVars, book>>
  /\ \A q \in Runs :
       \/ run'[q] = run[q]
       \/ /\ ~Flown(run, q) /\ ~Flies(run', q) /\ run'[q].seq = run[q].seq /\ run'[q].home = run[q].home
          /\ run'[q].tab = NoTab => run'[q].session = Null
          /\ run'[q].tab \notin fresh /\ run'[q].session \notin fresh

\* What is written without a spinner.
Written(t, p) ==
  /\ Partial(p) /\ "isExecuting" \notin DOMAIN p /\ t \in Keys \ fresh
  /\ store' = tabWriter(store, t, p) /\ GoodPart(run', p) /\ UnnamedPart(run', p)

\* What every such step keeps.
QuietI ==
  /\ StripI' /\ store' \in StoreType /\ Shown' = Shown /\ store'.viewTabId = store.viewTabId
  /\ \A t \in fresh' : t \notin Shown' /\ t \notin DOMAIN store'.parked /\ Untouched(run', book', t)
  /\ CoreI(run', book', store', Shown' \cup {NoTab})
  /\ EmptyI(run', book', store') /\ ShowI(run', store') /\ NoTabI(run', store')
  /\ \A q \in Runs : Flown(run, q) => run'[q] = run[q]
  /\ \A q \in Runs : Flies(run', q) => run'[q] = run[q] /\ (AwaitedIn(run', q) => AwaitedIn(run, q))

LEMMA AskedRuns ==
  ASSUME IInv, Asked
  PROVE  /\ Kept(run, run') /\ Waited(run, run') /\ Typed(run, book) /\ Typed(run', book)
         /\ \A t \in fresh : Untouched(run', book, t)
         /\ \A q \in Runs : Flown(run, q) => run'[q] = run[q]
         /\ \A q \in Runs : Flies(run', q) => run'[q] = run[q] /\ (AwaitedIn(run', q) => AwaitedIn(run, q))
<1>0. TypeI /\ FreshI /\ CoreI(run, book, store, Shown \cup {NoTab})
  BY DEF IInv
<1>1. run \in [Runs -> RunType] /\ book \in BookType /\ run' \in [Runs -> RunType]
  BY <1>0 DEF TypeI, Asked
<1>2. Typed(run, book) /\ Typed(run', book)
  BY <1>1, TypedIs
<1>3. Waited(run, run')
  BY DEF Asked, Waited
<1>4. \A q \in Runs : Flown(run, q) \/ Flies(run', q) => run'[q] = run[q]
  BY DEF Asked
<1>5. Kept(run, run')
  BY <1>4 DEF Kept, Flown
<1>6. ASSUME NEW t \in fresh PROVE Untouched(run', book, t)
  <2>1. Untouched(run, book, t)
    BY <1>0 DEF FreshI
  <2>2. \A q \in Runs : run'[q].tab # t /\ run'[q].home # t /\ run'[q].session # t
    BY <2>1 DEF Asked, Untouched
  <2> QED
    BY <2>1, <2>2 DEF Untouched
<1>7. ASSUME NEW q \in Runs, Flies(run', q), AwaitedIn(run', q) PROVE AwaitedIn(run, q)
  <2>1. \A x \in Runs : run'[x].seq = run[x].seq /\ run[x].seq \in Nat /\ run'[x].home = run[x].home
    BY <1>1, RunTypes DEF Asked
  <2>2. \A x \in Runs : run[x].seq > run[q].seq => run'[x] = run[x]
    BY <1>0, <1>4, <2>1 DEF CoreI, RunI
  <2>3. run'[q] = run[q]
    BY <1>4, <1>7
  <2> QED
    BY <1>7, <2>1, <2>2, <2>3 DEF AwaitedIn
<1> QED
  BY <1>2, <1>3, <1>4, <1>5, <1>6, <1>7

LEMMA QuietSame ==
  ASSUME IInv, Asked, store' = store
  PROVE  QuietI
<1>0. /\ TypeI /\ StripI /\ FreshI /\ CoreI(run, book, store, Shown \cup {NoTab}) /\ EmptyI(run, book, store)
      /\ ShowI(run, store) /\ NoTabI(run, store) /\ store \in StoreType
  BY DEF IInv, TypeI
<1>1. Shown' = Shown /\ active' = active /\ fresh' = fresh /\ book' = book
  BY DEF Asked, Shown, editorVars
<1>2. StripI'
  BY <1>0, <1>1 DEF StripI
<1>3. /\ Kept(run, run') /\ Waited(run, run') /\ Typed(run, book) /\ Typed(run', book)
      /\ \A t \in fresh : Untouched(run', book, t)
      /\ \A q \in Runs : Flown(run, q) => run'[q] = run[q]
      /\ \A q \in Runs : Flies(run', q) => run'[q] = run[q] /\ (AwaitedIn(run', q) => AwaitedIn(run, q))
  BY AskedRuns
<1>4. CoreI(run', book, store, Shown \cup {NoTab})
  BY <1>0, <1>3, WaitCore
<1>5. ShowI(run', store) /\ NoTabI(run', store)
  BY <1>0, <1>3, StoreKept
<1>6. EmptyI(run', book, store)
  BY <1>0, <1>3 DEF EmptyI, Flies
<1>7. \A t \in fresh' : t \notin Shown' /\ t \notin DOMAIN store'.parked /\ Untouched(run', book', t)
  BY <1>0, <1>1, <1>3 DEF FreshI
<1> QED
  BY <1>0, <1>1, <1>2, <1>3, <1>4, <1>5, <1>6, <1>7 DEF QuietI

LEMMA QuietWrite ==
  ASSUME IInv, Asked, NEW t0, NEW p, Written(t0, p)
  PROVE  QuietI
<1>0. /\ TypeI /\ StripI /\ FreshI /\ CoreI(run, book, store, Shown \cup {NoTab}) /\ EmptyI(run, book, store)
      /\ ShowI(run, store) /\ NoTabI(run, store) /\ store \in StoreType /\ fresh \subseteq Tabs
  BY DEF IInv, TypeI
<1>1. PICK t \in Keys \ fresh : store' = tabWriter(store, t, p) /\ (store.viewTabId = Null => t = NoTab)
  <2>1. NoTab \in Keys \ fresh
    BY <1>0, Distinct
  <2> QED
    BY <2>1, WriterNull DEF Written
<1>2. Partial(p) /\ "isExecuting" \notin DOMAIN p /\ GoodPart(run', p) /\ UnnamedPart(run', p)
  BY DEF Written
<1>3. /\ Kept(run, run') /\ Waited(run, run') /\ Typed(run, book) /\ Typed(run', book)
      /\ \A u \in fresh : Untouched(run', book, u)
      /\ \A q \in Runs : Flown(run, q) => run'[q] = run[q]
      /\ \A q \in Runs : Flies(run', q) => run'[q] = run[q] /\ (AwaitedIn(run', q) => AwaitedIn(run, q))
  BY AskedRuns
<1>4. UNCHANGED editorVars /\ book' = book /\ fresh' = fresh
  BY DEF Asked, editorVars
<1>5. StripI' /\ store' \in StoreType /\ store'.viewTabId = store.viewTabId
      /\ (store.viewTabId = Null => store'.parked = store.parked)
      /\ DOMAIN store'.parked \subseteq DOMAIN store.parked \cup {t}
      /\ Shown' = Shown
  BY <1>0, <1>1, <1>2, <1>4, WriterStore
<1>6. CoreI(run', book, store', Shown \cup {NoTab})
  <2> DEFINE L == Shown \cup {NoTab}
  <2>1. store.viewTabId = Null => t = NoTab /\ L = {NoTab}
    BY <1>0, <1>1 DEF StripI, KeptI
  <2>2. CoreI(run, book, store, L)
    BY <1>0
  <2> HIDE DEF L
  <2>3. \A u \in L : Spin(tabWriter(store, t, p), u) <=> Spin(store, u)
    BY <1>0, <1>2, <2>1, WriterSpin
  <2>4. \A u \in L : Spin(store', u) <=> Spin(store, u)
    BY <1>1, <2>3
  <2>5. CoreI(run', book, store', L)
    BY <1>3, <1>5, <2>2, <2>4, WaitCore
  <2> QED
    BY <2>5 DEF L
<1>7. ShowI(run', store') /\ NoTabI(run', store')
  BY <1>0, <1>1, <1>2, <1>3, WriterGood
<1>8. EmptyI(run', book, store')
  BY <1>0, <1>3, <1>5 DEF EmptyI, Flies
<1>9. \A u \in fresh' : u \notin Shown' /\ u \notin DOMAIN store'.parked /\ Untouched(run', book', u)
  BY <1>0, <1>3, <1>4, <1>5 DEF FreshI
<1> QED
  BY <1>3, <1>4, <1>5, <1>6, <1>7, <1>8, <1>9 DEF QuietI

\* What is left to show of a step that starts and ends nothing.
LEMMA QuietStep ==
  ASSUME IInv, Asked, QuietI,
         dialog' \in Runs \cup {Null}, asking' \in Runs \cup {Null}, edits' \in [QueryTabs -> Runs \cup {Null}],
         stops' \subseteq [run : Runs, tab : Keys, at : Nat], \A c \in stops' : c.tab \notin fresh,
         WaitI(run', dialog', asking', Shown), EditI(edits', store', Shown),
         \A r \in Runs : Flies(run, r) /\ run[r].kind = "query" /\ ~run[r].agreed /\ AwaitedIn(run, r) /\ run[r].home \in QueryTabs
                         => edits'[run[r].home] = Null,
         dialog' # Null /\ run'[dialog'].kind = "query" /\ ~run'[dialog'].agreed =>
           IF run'[dialog'].tab = NoTab THEN \A t \in QueryTabs : edits'[t] = Null ELSE edits'[run'[dialog'].tab] = Null
  PROVE  IInv'
<1>1. Shown' = Shown /\ fresh' = fresh /\ active' = active /\ tabs' = tabs /\ book' = book /\ run' \in [Runs -> RunType]
  BY DEF QuietI, Asked, editorVars
<1>2. TypeI'
  BY <1>1 DEF IInv, TypeI, QuietI
<1>3. FreshI'
  BY <1>1 DEF FreshI, QuietI
<1>4. WaitI(run', dialog', asking', Shown') /\ EditI(edits', store', Shown')
  BY <1>1
<1>5. LossI(run', dialog', edits')
  <2>1. ASSUME NEW r \in Runs, Flies(run', r), run'[r].kind = "query", ~run'[r].agreed, AwaitedIn(run', r), run'[r].home \in QueryTabs
        PROVE  edits'[run'[r].home] = Null
    <3>1. run'[r] = run[r] /\ AwaitedIn(run, r)
      BY <2>1 DEF QuietI
    <3> QED
      BY <2>1, <3>1 DEF Flies
  <2> QED
    BY <2>1 DEF LossI
<1> QED
  BY <1>2, <1>3, <1>4, <1>5 DEF IInv, QuietI

\* The waiting runs change and the edits do not.
LEMMA QuietEdits ==
  ASSUME IInv, Asked, QuietI, store'.screen.results = store.screen.results, edits' = edits
  PROVE  /\ EditI(edits', store', Shown) /\ edits' \in [QueryTabs -> Runs \cup {Null}]
         /\ \A r \in Runs : Flies(run, r) /\ run[r].kind = "query" /\ ~run[r].agreed /\ AwaitedIn(run, r) /\ run[r].home \in QueryTabs
                            => edits'[run[r].home] = Null
<1>1. EditI(edits, store, Shown) /\ LossI(run, dialog, edits) /\ edits \in [QueryTabs -> Runs \cup {Null}]
  BY DEF IInv, TypeI
<1>2. EditI(edits', store', Shown)
  BY <1>1 DEF EditI, QuietI
<1> QED
  BY <1>1, <1>2 DEF LossI

-----------------------------------------------------------------------------
\* The conditions a run is made to wait under.
Waitable(r, tab, own, session, kind, agreed) ==
  /\ r \in Runs /\ ~Flown(run, r) /\ tab \in QueryTabs \cup {NoTab} /\ own \in BOOLEAN /\ session \in QueryTabs \cup {Null}
  /\ kind \in {"query", "explain", "page"} /\ agreed \in BOOLEAN
  /\ session # Null => tab = session
  /\ tab \notin fresh /\ session \notin fresh
  /\ Shown \cap QueryTabs = {} => tab = NoTab

LEMMA WaitRuns ==
  ASSUME IInv, NEW r, NEW tab, NEW own, NEW session, NEW kind, NEW agreed, Waitable(r, tab, own, session, kind, agreed),
         NEW phase \in {"asking", "confirming"}, NEW replaced \in {dialog, asking}, r # replaced,
         Wait(r, phase, replaced, [tab |-> tab, own |-> own], session, kind, agreed), UNCHANGED editorVars
  PROVE  /\ Asked /\ QuietI /\ store' = store
         /\ run'[r].phase = phase /\ run'[r].tab = tab /\ run'[r].own = own /\ run'[r].session = session
         /\ run'[r].kind = kind /\ run'[r].agreed = agreed
         /\ \A q \in Runs : q \notin {r, replaced} => run'[q] = run[q]
<1>0. /\ TypeI /\ FreshI /\ CoreI(run, book, store, Shown \cup {NoTab}) /\ WaitI(run, dialog, asking, Shown)
      /\ run \in [Runs -> RunType] /\ replaced \in Runs \cup {Null} /\ r \in Runs
  BY DEF IInv, TypeI, Waitable
<1> DEFINE e == [run[r] EXCEPT !.phase = phase, !.tab = tab, !.own = own, !.session = session, !.kind = kind, !.agreed = agreed]
<1>1. /\ run' = [q \in Runs |-> IF q = r THEN e ELSE IF q = replaced THEN [run[q] EXCEPT !.phase = "done"] ELSE run[q]]
      /\ store' = store /\ book' = book
  BY DEF Wait
<1>2. run[r] \in RunType /\ tab \in Keys
  BY <1>0, Distinct DEF Waitable
<1>3. /\ e \in RunType /\ e.phase = phase /\ e.tab = tab /\ e.own = own /\ e.session = session /\ e.kind = kind
      /\ e.agreed = agreed /\ e.seq = run[r].seq /\ e.home = run[r].home
  <2>1. /\ phase \in Phases /\ own \in BOOLEAN /\ session \in QueryTabs \cup {Null} /\ agreed \in BOOLEAN
        /\ kind \in {"query", "explain", "page"} /\ tab \in Keys
    BY <1>2 DEF Waitable, Phases
  <2>2. /\ e.phase = phase /\ e.tab = tab /\ e.own = own /\ e.session = session /\ e.kind = kind
        /\ e.agreed = agreed /\ e.seq = run[r].seq /\ e.home = run[r].home
    BY <1>2 DEF RunType
  <2>3. e \in RunType
    BY <1>2, <2>1, ZenonT(60) DEF RunType
  <2> QED
    BY <2>2, <2>3
<1> HIDE DEF e
<1>4. ASSUME NEW q \in Runs PROVE [run[q] EXCEPT !.phase = "done"] \in RunType
  BY <1>0 DEF RunType, Phases
<1>5. run' \in [Runs -> RunType] /\ run'[r] = e /\ \A q \in Runs : q \notin {r, replaced} => run'[q] = run[q]
  BY <1>0, <1>1, <1>3, <1>4
<1>6. replaced \in Runs => /\ run'[replaced] = [run[replaced] EXCEPT !.phase = "done"]
                           /\ run[replaced].phase \in {"asking", "confirming"}
  BY <1>0, <1>1, Distinct DEF WaitI
<1>7. Asked
  <2>1. ASSUME replaced \in Runs
        PROVE  /\ ~Flown(run, replaced) /\ ~Flies(run', replaced) /\ run'[replaced].seq = run[replaced].seq
               /\ run'[replaced].home = run[replaced].home
               /\ run'[replaced].tab = NoTab => run'[replaced].session = Null
               /\ run'[replaced].tab \notin fresh /\ run'[replaced].session \notin fresh
    <3>1. /\ run'[replaced].phase = "done" /\ run'[replaced].seq = run[replaced].seq
          /\ run'[replaced].home = run[replaced].home /\ run'[replaced].tab = run[replaced].tab
          /\ run'[replaced].session = run[replaced].session
      BY <1>0, <1>6, <2>1 DEF RunType
    <3>2. run[replaced].tab \notin fresh /\ run[replaced].session \notin fresh
      BY <1>0, <2>1 DEF FreshI, Untouched
    <3>3. run[replaced].tab = NoTab => run[replaced].session = Null
      BY <1>0, <2>1 DEF CoreI, RunI
    <3> QED
      BY <1>6, <2>1, <3>1, <3>2, <3>3 DEF Flown, Flies
  <2>2. /\ ~Flown(run, r) /\ ~Flies(run', r) /\ run'[r].seq = run[r].seq /\ run'[r].home = run[r].home
        /\ run'[r].tab = NoTab => run'[r].session = Null
        /\ run'[r].tab \notin fresh /\ run'[r].session \notin fresh
    BY <1>3, <1>5, Distinct DEF Waitable, Flies
  <2> QED
    BY <1>1, <1>5, <2>1, <2>2 DEF Asked
<1> QED
  BY <1>1, <1>3, <1>5, <1>7, QuietSame

LEMMA ConfirmStep ==
  ASSUME IInv, NEW r, NEW tab, NEW own, NEW session, NEW kind, NEW agreed, Waitable(r, tab, own, session, kind, agreed),
         Wait(r, "confirming", dialog, [tab |-> tab, own |-> own], session, kind, agreed),
         UNCHANGED <<editorVars, edits, stops>>, dialog' = r, r # dialog, asking' \in {asking, Null} \ {r},
         kind = "query" /\ ~agreed => IF tab = NoTab THEN \A t \in QueryTabs : edits[t] = Null ELSE edits[tab] = Null
  PROVE  IInv'
<1>0. TypeI /\ FreshI /\ WaitI(run, dialog, asking, Shown)
  BY DEF IInv
<1>1. /\ Asked /\ QuietI /\ store' = store
      /\ run'[r].phase = "confirming" /\ run'[r].tab = tab /\ run'[r].own = own /\ run'[r].session = session
      /\ run'[r].kind = kind /\ run'[r].agreed = agreed
      /\ \A q \in Runs : q \notin {r, dialog} => run'[q] = run[q]
  BY WaitRuns
<1>2. asking' # Null => asking' = asking /\ run'[asking'] = run[asking]
  BY <1>0, <1>1 DEF WaitI, TypeI
<1>3. WaitI(run', dialog', asking', Shown)
  BY <1>0, <1>1, <1>2 DEF WaitI, Waitable
<1>4. /\ EditI(edits', store', Shown) /\ edits' \in [QueryTabs -> Runs \cup {Null}]
      /\ \A q \in Runs : Flies(run, q) /\ run[q].kind = "query" /\ ~run[q].agreed /\ AwaitedIn(run, q) /\ run[q].home \in QueryTabs
                         => edits'[run[q].home] = Null
  BY <1>1, QuietEdits
<1>5. /\ dialog' \in Runs \cup {Null} /\ asking' \in Runs \cup {Null}
      /\ stops' \subseteq [run : Runs, tab : Keys, at : Nat] /\ \A c \in stops' : c.tab \notin fresh
  BY <1>0 DEF TypeI, FreshI, Waitable
<1>6. dialog' # Null /\ run'[dialog'].kind = "query" /\ ~run'[dialog'].agreed =>
        IF run'[dialog'].tab = NoTab THEN \A t \in QueryTabs : edits'[t] = Null ELSE edits'[run'[dialog'].tab] = Null
  BY <1>1
<1> QED
  BY <1>1, <1>3, <1>4, <1>5, <1>6, QuietStep

LEMMA AskStep ==
  ASSUME IInv, NEW r, NEW tab, NEW own, NEW session, Waitable(r, tab, own, session, "query", FALSE),
         tab \in QueryTabs, own => session # Null,
         Wait(r, "asking", asking, [tab |-> tab, own |-> own], session, "query", FALSE),
         UNCHANGED <<editorVars, edits, stops, dialog>>, asking' = r, r # asking, r # dialog
  PROVE  IInv'
<1>0. TypeI /\ FreshI /\ WaitI(run, dialog, asking, Shown) /\ LossI(run, dialog, edits)
  BY DEF IInv
<1>1. /\ Asked /\ QuietI /\ store' = store
      /\ run'[r].phase = "asking" /\ run'[r].tab = tab /\ run'[r].own = own /\ run'[r].session = session
      /\ run'[r].kind = "query"
      /\ \A q \in Runs : q \notin {r, asking} => run'[q] = run[q]
  BY WaitRuns
<1>2. dialog # Null => run'[dialog] = run[dialog]
  BY <1>0, <1>1 DEF WaitI, TypeI
<1>3. WaitI(run', dialog', asking', Shown)
  <2>1. Shown \cap QueryTabs # {}
    BY Distinct DEF Waitable
  <2> QED
    BY <1>0, <1>1, <1>2, <2>1 DEF WaitI, Waitable
<1>4. /\ EditI(edits', store', Shown) /\ edits' \in [QueryTabs -> Runs \cup {Null}]
      /\ \A q \in Runs : Flies(run, q) /\ run[q].kind = "query" /\ ~run[q].agreed /\ AwaitedIn(run, q) /\ run[q].home \in QueryTabs
                         => edits'[run[q].home] = Null
  BY <1>1, QuietEdits
<1>5. /\ dialog' \in Runs \cup {Null} /\ asking' \in Runs \cup {Null}
      /\ stops' \subseteq [run : Runs, tab : Keys, at : Nat] /\ \A c \in stops' : c.tab \notin fresh
  BY <1>0 DEF TypeI, FreshI, Waitable
<1>6. dialog' # Null /\ run'[dialog'].kind = "query" /\ ~run'[dialog'].agreed =>
        IF run'[dialog'].tab = NoTab THEN \A t \in QueryTabs : edits'[t] = Null ELSE edits'[run'[dialog'].tab] = Null
  BY <1>0, <1>2 DEF LossI
<1> QED
  BY <1>1, <1>3, <1>4, <1>5, <1>6, QuietStep

\* A waiting run is declined, or one that is idle refused.
LEMMA DeclineRuns ==
  ASSUME IInv, NEW r \in Runs, ~Flown(run, r), run' = [run EXCEPT ![r].phase = "done"], UNCHANGED <<editorVars, book>>
  PROVE  Asked /\ run'[r].phase = "done" /\ \A q \in Runs : q # r => run'[q] = run[q]
<1>0. FreshI /\ CoreI(run, book, store, Shown \cup {NoTab}) /\ run \in [Runs -> RunType]
  BY DEF IInv, TypeI
<1> DEFINE e == [run[r] EXCEPT !.phase = "done"]
<1>1. e \in RunType /\ e.phase = "done" /\ e.seq = run[r].seq /\ e.home = run[r].home /\ e.tab = run[r].tab /\ e.session = run[r].session
  BY <1>0 DEF RunType, Phases
<1>2. run' = [run EXCEPT ![r] = e]
  OBVIOUS
<1> HIDE DEF e
<1>3. run' \in [Runs -> RunType] /\ run'[r] = e /\ \A q \in Runs : q # r => run'[q] = run[q]
  BY <1>0, <1>1, <1>2
<1>4. run[r].tab \notin fresh /\ run[r].session \notin fresh /\ (run[r].tab = NoTab => run[r].session = Null)
  BY <1>0 DEF FreshI, Untouched, CoreI, RunI
<1>5. Asked
  BY <1>1, <1>3, <1>4 DEF Asked, Flies
<1> QED
  BY <1>1, <1>3, <1>5

\* Where a run is filed.
LEMMA TargetIs ==
  ASSUME NEW s, NEW session, NEW tab
  PROVE  LET g == targetFor(s, session, tab) IN
         /\ g = [tab |-> g.tab, own |-> g.own] /\ g.own \in BOOLEAN /\ (g.own <=> session # Null)
         /\ session # Null => g.tab = session
         /\ session = Null /\ tab # Null => g.tab = tab
         /\ session = Null /\ tab = Null => g.tab = IF s.runTabId # Null THEN s.runTabId ELSE NoTab
  BY DEF targetFor, tabKeyFor

\* What a run of the editor, or of a pane, is filed under: a query tab that is open if one is.
LEMMA EditorTarget ==
  ASSUME IInv, NEW session, NEW tab, session \in {Null, EditorSession}, tab # Null => tab \in Shown \cap QueryTabs,
         NEW g, g = targetFor(store, session, tab)
  PROVE  /\ g = [tab |-> g.tab, own |-> g.own] /\ g.own \in BOOLEAN /\ (g.own <=> session # Null)
         /\ g.tab \in (Shown \cap QueryTabs) \cup {NoTab} /\ session \in (Shown \cap QueryTabs) \cup {Null}
         /\ g.tab = NoTab => session = Null /\ Shown \cap QueryTabs = {}
         /\ Shown \cap QueryTabs = {} => g.tab = NoTab
         /\ session # Null => g.tab = session
         /\ g.tab \notin fresh /\ session \notin fresh /\ g.tab \in Keys
         /\ store.viewTabId = Null => g.tab = NoTab
<1>0. TypeI /\ StripI /\ FreshI
  BY DEF IInv
<1>1. session \in (Shown \cap QueryTabs) \cup {Null}
  BY <1>0 DEF EditorSession, StripI, KeptI, TypeI
<1>2. /\ g = [tab |-> g.tab, own |-> g.own] /\ g.own \in BOOLEAN /\ (g.own <=> session # Null)
      /\ session # Null => g.tab = session
      /\ session = Null /\ tab # Null => g.tab = tab
      /\ session = Null /\ tab = Null => g.tab = IF store.runTabId # Null THEN store.runTabId ELSE NoTab
  BY TargetIs
<1>3. store.runTabId \in (Shown \cap QueryTabs) \cup {Null}
  BY <1>0 DEF StripI, TypeI, StoreType
<1>4. g.tab \in (Shown \cap QueryTabs) \cup {NoTab}
  BY <1>1, <1>2, <1>3
<1>5. g.tab = NoTab => session = Null /\ Shown \cap QueryTabs = {}
  BY <1>0, <1>1, <1>2, <1>3, Distinct DEF StripI
<1>6. Shown \cap QueryTabs = {} => g.tab = NoTab
  BY <1>4
<1>7. g.tab \notin fresh /\ session \notin fresh /\ g.tab \in Keys
  BY <1>0, <1>1, <1>4, Distinct DEF FreshI, TypeI
<1>8. store.viewTabId = Null => g.tab = NoTab
  BY <1>0, <1>6 DEF StripI, KeptI
<1> QED
  BY <1>1, <1>2, <1>4, <1>5, <1>6, <1>7, <1>8

LEMMA WaitingApart ==
  ASSUME IInv
  PROVE  /\ \A r \in Runs : Idles(r) => ~Flown(run, r) /\ r # dialog /\ r # asking
         /\ dialog # Null => dialog \in Runs /\ ~Flown(run, dialog) /\ dialog # asking
         /\ asking # Null => asking \in Runs /\ ~Flown(run, asking) /\ dialog # asking
         /\ dialog \in Runs \cup {Null} /\ asking \in Runs \cup {Null}
  BY Distinct DEF IInv, TypeI, WaitI, Idles, Flown

-----------------------------------------------------------------------------
LEMMA GateStep ==
  ASSUME IInv, NEW r \in Runs, ~Flown(run, r), r # dialog, NEW g, NEW session, NEW agreed \in BOOLEAN,
         g = [tab |-> g.tab, own |-> g.own], g.own \in BOOLEAN, g.own => g.tab # NoTab,
         g.tab \in QueryTabs \cup {NoTab}, session \in QueryTabs \cup {Null},
         g.tab = NoTab => session = Null, session # Null => g.tab = session,
         g.tab \notin fresh, session \notin fresh,
         Shown \cap QueryTabs = {} => g.tab = NoTab,
         agreed \/ IF g.tab = NoTab THEN \A t \in QueryTabs : edits[t] = Null ELSE edits[g.tab] = Null,
         Gate(r, g, session, agreed), UNCHANGED <<editorVars, edits, stops>>, asking' \in {asking, Null} \ {r}
  PROVE  IInv'
<1>0. StripI /\ NoTab \notin QueryTabs /\ QueryTabs \subseteq Keys /\ NoTab \in Keys
  BY Distinct DEF IInv
<1>1. Waitable(r, g.tab, g.own, session, "query", agreed)
  BY DEF Waitable
<1>2. store.viewTabId = Null => g.tab = NoTab
  BY <1>0 DEF StripI, KeptI
<1>3. Startable(r, g.tab, g.own, session, "query", agreed)
  BY <1>0, <1>2 DEF Startable
<1>4. CASE Start(r, g, session, "query", agreed) /\ UNCHANGED dialog
  <2>1. Start(r, [tab |-> g.tab, own |-> g.own], session, "query", agreed)
    BY <1>4
  <2>2. dialog' \in {dialog, Null} \ {r}
    BY <1>4
  <2> QED
    BY <1>3, <2>1, <2>2, StartStep
<1>5. CASE Wait(r, "confirming", dialog, g, session, "query", agreed) /\ dialog' = r
  <2>1. Wait(r, "confirming", dialog, [tab |-> g.tab, own |-> g.own], session, "query", agreed)
    BY <1>5
  <2>2. ~agreed => IF g.tab = NoTab THEN \A t \in QueryTabs : edits[t] = Null ELSE edits[g.tab] = Null
    OBVIOUS
  <2> QED
    BY <1>1, <1>5, <2>1, <2>2, ConfirmStep
<1> QED
  BY <1>4, <1>5 DEF Gate

LEMMA QueryStep ==
  ASSUME IInv, NEW r \in Runs, executeQuery(r)
  PROVE  IInv'
<1>1. PICK from \in {"editor", "elsewhere", "grid"} :
        LET session == IF from = "editor" THEN EditorSession ELSE Null
            g == targetFor(store, session, IF from = "grid" THEN store.viewTabId ELSE Null)
        IN /\ from = "editor" => session # Null /\ ~Modal
           /\ from = "grid" => store.viewTabId \in QueryTabs
           /\ IF g.tab \in QueryTabs /\ edits[g.tab] # Null
              THEN /\ Wait(r, "asking", asking, g, session, "query", FALSE)
                   /\ asking' = r
                   /\ UNCHANGED dialog
              ELSE Gate(r, g, session, FALSE) /\ UNCHANGED asking
  BY DEF executeQuery
<1>2. PICK session, tab, g : /\ session = IF from = "editor" THEN EditorSession ELSE Null
                             /\ tab = IF from = "grid" THEN store.viewTabId ELSE Null
                             /\ g = targetFor(store, session, tab)
  OBVIOUS
<1>3. /\ from = "grid" => store.viewTabId \in QueryTabs
      /\ IF g.tab \in QueryTabs /\ edits[g.tab] # Null
         THEN /\ Wait(r, "asking", asking, g, session, "query", FALSE)
              /\ asking' = r
              /\ UNCHANGED dialog
         ELSE Gate(r, g, session, FALSE) /\ UNCHANGED asking
  BY <1>1, <1>2
<1>4. Idles(r) /\ UNCHANGED <<editorVars, edits, stops>> /\ StripI /\ EditI(edits, store, Shown) /\ TypeI
  BY DEF executeQuery, IInv
<1>5. session \in {Null, EditorSession} /\ (tab # Null => tab \in Shown \cap QueryTabs)
  BY <1>2, <1>3, <1>4, Distinct DEF StripI, KeptI
<1>6. /\ g = [tab |-> g.tab, own |-> g.own] /\ g.own \in BOOLEAN /\ (g.own <=> session # Null)
      /\ g.tab \in (Shown \cap QueryTabs) \cup {NoTab} /\ session \in (Shown \cap QueryTabs) \cup {Null}
      /\ g.tab = NoTab => session = Null /\ Shown \cap QueryTabs = {}
      /\ Shown \cap QueryTabs = {} => g.tab = NoTab
      /\ session # Null => g.tab = session
      /\ g.tab \notin fresh /\ session \notin fresh
  BY <1>2, <1>5, EditorTarget
<1>7. ~Flown(run, r) /\ r # dialog /\ r # asking
  BY <1>4, WaitingApart
<1>8. CASE g.tab \in QueryTabs /\ edits[g.tab] # Null
  <2>1. Wait(r, "asking", asking, g, session, "query", FALSE) /\ asking' = r /\ UNCHANGED dialog
    BY <1>3, <1>8
  <2>2. Waitable(r, g.tab, g.own, session, "query", FALSE)
    BY <1>6, <1>7 DEF Waitable
  <2>3. Wait(r, "asking", asking, [tab |-> g.tab, own |-> g.own], session, "query", FALSE)
    BY <1>6, <2>1
  <2> QED
    BY <1>4, <1>6, <1>7, <1>8, <2>1, <2>2, <2>3, AskStep
<1>9. CASE ~(g.tab \in QueryTabs /\ edits[g.tab] # Null)
  <2>1. Gate(r, g, session, FALSE) /\ asking' = asking
    BY <1>3, <1>9
  <2>2. IF g.tab = NoTab THEN \A t \in QueryTabs : edits[t] = Null ELSE edits[g.tab] = Null
    BY <1>4, <1>6, <1>9 DEF EditI
  <2>3. asking' \in {asking, Null} \ {r}
    BY <1>7, <2>1
  <2>4. g.own => g.tab # NoTab
    BY <1>6
  <2> QED
    BY <1>4, <1>6, <1>7, <2>1, <2>2, <2>3, <2>4, GateStep
<1> QED
  BY <1>8, <1>9

\* A declined run goes nowhere.
LEMMA DeclineStep ==
  ASSUME IInv, NEW r \in {dialog, asking}, r # Null, run' = [run EXCEPT ![r].phase = "done"],
         UNCHANGED <<editorVars, store, book, edits, stops>>,
         dialog' = IF r = dialog THEN Null ELSE dialog, asking' = IF r = asking THEN Null ELSE asking
  PROVE  IInv'
<1>0. TypeI /\ FreshI /\ WaitI(run, dialog, asking, Shown) /\ LossI(run, dialog, edits)
  BY DEF IInv
<1>1. r \in Runs /\ ~Flown(run, r) /\ (dialog # Null => dialog # asking) /\ (asking # Null => dialog # asking)
  BY WaitingApart
<1>2. Asked /\ \A q \in Runs : q # r => run'[q] = run[q]
  BY <1>1, DeclineRuns
<1>3. QuietI /\ store' = store
  BY <1>2, QuietSame
<1>4. /\ EditI(edits', store', Shown) /\ edits' \in [QueryTabs -> Runs \cup {Null}]
      /\ \A q \in Runs : Flies(run, q) /\ run[q].kind = "query" /\ ~run[q].agreed /\ AwaitedIn(run, q) /\ run[q].home \in QueryTabs
                         => edits'[run[q].home] = Null
  BY <1>2, <1>3, QuietEdits
<1>5. /\ dialog' # Null => dialog' = dialog /\ run'[dialog'] = run[dialog]
      /\ asking' # Null => asking' = asking /\ run'[asking'] = run[asking]
  BY <1>0, <1>1, <1>2 DEF TypeI
<1>6. WaitI(run', dialog', asking', Shown)
  BY <1>0, <1>5 DEF WaitI
<1>7. /\ dialog' \in Runs \cup {Null} /\ asking' \in Runs \cup {Null}
      /\ stops' \subseteq [run : Runs, tab : Keys, at : Nat] /\ \A c \in stops' : c.tab \notin fresh
  BY <1>0 DEF TypeI, FreshI
<1>8. dialog' # Null /\ run'[dialog'].kind = "query" /\ ~run'[dialog'].agreed =>
        IF run'[dialog'].tab = NoTab THEN \A t \in QueryTabs : edits'[t] = Null ELSE edits'[run'[dialog'].tab] = Null
  BY <1>0, <1>5 DEF LossI
<1> QED
  BY <1>2, <1>3, <1>4, <1>6, <1>7, <1>8, QuietStep

LEMMA AnswerPrompt ==
  ASSUME IInv, answer
  PROVE  IInv'
<1>0. TypeI /\ FreshI /\ WaitI(run, dialog, asking, Shown) /\ run \in [Runs -> RunType]
  BY DEF IInv, TypeI
<1>1. asking # Null /\ asking' = Null /\ UNCHANGED <<editorVars, edits, stops>>
  BY DEF answer
<1>2. asking \in Runs /\ ~Flown(run, asking) /\ dialog # asking
  BY <1>1, WaitingApart
<1>3. PICK g : g = [tab |-> run[asking].tab, own |-> run[asking].own]
  OBVIOUS
<1>4. CASE Gate(asking, g, run[asking].session, TRUE)
  <2>1. /\ g.tab = run[asking].tab /\ g.own = run[asking].own
        /\ run[asking].tab \in QueryTabs /\ (run[asking].session # Null => run[asking].tab = run[asking].session)
        /\ Shown \cap QueryTabs # {}
    BY <1>0, <1>1, <1>3 DEF WaitI
  <2>2. run[asking].tab \notin fresh /\ run[asking].session \notin fresh
    BY <1>0, <1>2 DEF FreshI, Untouched
  <2>3. run[asking].own \in BOOLEAN /\ run[asking].session \in QueryTabs \cup {Null}
    BY <1>0, <1>2, RunTypes
  <2>4. g.tab # NoTab
    BY <2>1, Distinct
  <2>5. asking' \in {asking, Null} \ {asking}
    BY <1>1, <1>2, Distinct
  <2> QED
    BY <1>1, <1>2, <1>3, <1>4, <2>1, <2>2, <2>3, <2>4, <2>5, GateStep
<1>5. CASE run' = [run EXCEPT ![asking].phase = "done"] /\ UNCHANGED <<store, book, dialog>>
  BY <1>1, <1>2, <1>5, DeclineStep
<1> QED
  BY <1>3, <1>4, <1>5 DEF answer

LEMMA ConfirmedStep ==
  ASSUME IInv, confirmExecution
  PROVE  IInv'
<1>0. /\ TypeI /\ StripI /\ FreshI /\ WaitI(run, dialog, asking, Shown) /\ LossI(run, dialog, edits)
      /\ run \in [Runs -> RunType] /\ CoreI(run, book, store, Shown \cup {NoTab})
  BY DEF IInv, TypeI
<1>1. dialog # Null /\ dialog' = Null /\ UNCHANGED <<editorVars, asking, edits, stops>>
  BY DEF confirmExecution
<1>2. dialog \in Runs /\ ~Flown(run, dialog) /\ dialog # asking
  BY <1>1, WaitingApart
<1>3. PICK tab, g : /\ tab = IF run[dialog].tab = NoTab THEN Null ELSE run[dialog].tab
                    /\ g = targetFor(store, run[dialog].session, tab)
  OBVIOUS
<1>4. Start(dialog, g, run[dialog].session, run[dialog].kind, run[dialog].agreed)
  BY <1>3 DEF confirmExecution
<1>5. /\ run[dialog].session \in QueryTabs \cup {Null} /\ run[dialog].kind \in {"query", "explain", "page"}
      /\ run[dialog].agreed \in BOOLEAN /\ run[dialog].tab \in QueryTabs \cup {NoTab}
      /\ run[dialog].session # Null => run[dialog].tab = run[dialog].session
      /\ run[dialog].tab = NoTab => run[dialog].session = Null
      /\ run[dialog].tab \notin fresh /\ run[dialog].session \notin fresh
      /\ Shown \cap QueryTabs = {} => run[dialog].tab = NoTab
  BY <1>0, <1>1, <1>2, RunTypes DEF WaitI, FreshI, Untouched, CoreI, RunI
<1>6. /\ g = [tab |-> g.tab, own |-> g.own] /\ g.own \in BOOLEAN /\ (g.own <=> run[dialog].session # Null)
      /\ run[dialog].tab # NoTab => g.tab = run[dialog].tab
      /\ run[dialog].tab = NoTab => g.tab = IF store.runTabId # Null THEN store.runTabId ELSE NoTab
  BY <1>3, <1>5, TargetIs, Distinct
<1>7. store.runTabId \in (Shown \cap QueryTabs) \cup {Null}
  BY <1>0 DEF StripI, TypeI, StoreType
<1>8. Startable(dialog, g.tab, g.own, run[dialog].session, run[dialog].kind, run[dialog].agreed)
  <2>1. g.tab \in Keys /\ g.tab \notin fresh
    BY <1>0, <1>5, <1>6, <1>7, Distinct DEF FreshI, TypeI
  <2>2. g.tab = NoTab => run[dialog].session = Null /\ ~g.own
    BY <1>5, <1>6, <1>7, Distinct
  <2>3. store.viewTabId = Null => g.tab = NoTab
    BY <1>0, <1>5, <1>6, <1>7 DEF StripI, KeptI
  <2>4. run[dialog].kind = "query" /\ ~run[dialog].agreed /\ g.tab \in QueryTabs => edits[g.tab] = Null
    BY <1>0, <1>1, <1>5, <1>6 DEF LossI
  <2> QED
    BY <1>2, <1>5, <1>6, <2>1, <2>2, <2>3, <2>4 DEF Startable
<1>9. Start(dialog, [tab |-> g.tab, own |-> g.own], run[dialog].session, run[dialog].kind, run[dialog].agreed)
  BY <1>4, <1>6
<1>10. dialog' \in {dialog, Null} \ {dialog} /\ asking' \in {asking, Null} \ {dialog}
  BY <1>1, <1>2, Distinct
<1> QED
  BY <1>1, <1>8, <1>9, <1>10, StartStep

\* A run that is waited for is listed, and keeps its tab busy.
LEMMA AwaitedLists ==
  ASSUME NEW rs, NEW b, NEW s, NEW L, Typed(rs, b), CoreI(rs, b, s, L), NEW r \in Runs, Flies(rs, r), AwaitedIn(rs, r),
         rs[r].home \in L
  PROVE  /\ Lists(rs, b, r) /\ ListedI(rs, b, L, rs[r].key, r) /\ rs[r].tab = rs[r].home /\ Busy(rs, b, rs[r].home)
<1>1. SideI(rs, b, r) /\ OwnI(rs, b, L, s.viewTabId, r) /\ ListI(rs, b, L) /\ rs[r].own \in BOOLEAN
  BY DEF CoreI, GenI, Typed
<1>2. Lists(rs, b, r)
  <2>1. CASE rs[r].own
    BY <1>1, <2>1 DEF OwnI, AwaitedIn
  <2>2. CASE ~rs[r].own
    BY <1>1, <2>2 DEF SideI, AwaitedIn
  <2> QED
    BY <2>1, <2>2
<1>3. At(b, rs[r].key) = r /\ r # Null /\ rs[r].key \in Keys \cup Runs
  BY <1>2, Distinct DEF Lists, Typed
<1>4. ListedI(rs, b, L, rs[r].key, r)
  BY <1>1, <1>3 DEF ListI
<1>5. rs[r].tab = rs[r].home
  BY <1>4 DEF ListedI
<1> QED
  BY <1>2, <1>3, <1>4, <1>5 DEF Busy

-----------------------------------------------------------------------------
LEMMA SameWaiting ==
  ASSUME IInv, Asked, QuietI, UNCHANGED <<dialog, asking>>,
         \A q \in {dialog, asking} \cap Runs : run'[q] = run[q],
         \A t \in QueryTabs : edits'[t] \in {edits[t], Null}
  PROVE  /\ dialog' \in Runs \cup {Null} /\ asking' \in Runs \cup {Null}
         /\ WaitI(run', dialog', asking', Shown)
         /\ \A r \in Runs : Flies(run, r) /\ run[r].kind = "query" /\ ~run[r].agreed /\ AwaitedIn(run, r) /\ run[r].home \in QueryTabs
                            => edits'[run[r].home] = Null
         /\ dialog' # Null /\ run'[dialog'].kind = "query" /\ ~run'[dialog'].agreed =>
              IF run'[dialog'].tab = NoTab THEN \A t \in QueryTabs : edits'[t] = Null ELSE edits'[run'[dialog'].tab] = Null
<1>1. TypeI /\ WaitI(run, dialog, asking, Shown) /\ LossI(run, dialog, edits)
  BY DEF IInv
<1>2. dialog' = dialog /\ asking' = asking /\ (dialog # Null => run'[dialog] = run[dialog]) /\ (asking # Null => run'[asking] = run[asking])
  BY <1>1 DEF TypeI
<1>3. WaitI(run', dialog', asking', Shown)
  BY <1>1, <1>2 DEF WaitI
<1>4. \A r \in Runs : Flies(run, r) /\ run[r].kind = "query" /\ ~run[r].agreed /\ AwaitedIn(run, r) /\ run[r].home \in QueryTabs
                      => edits'[run[r].home] = Null
  BY <1>1 DEF LossI
<1>5. dialog' # Null /\ run'[dialog'].kind = "query" /\ ~run'[dialog'].agreed =>
        IF run'[dialog'].tab = NoTab THEN \A t \in QueryTabs : edits'[t] = Null ELSE edits'[run'[dialog'].tab] = Null
  BY <1>1, <1>2, Distinct DEF LossI, WaitI
<1> QED
  BY <1>1, <1>2, <1>3, <1>4, <1>5 DEF TypeI

LEMMA ExplainStep ==
  ASSUME IInv, NEW r \in Runs, executeExplain(r)
  PROVE  IInv'
<1>1. Idles(r) /\ UNCHANGED <<editorVars, asking, edits, stops>> /\ TypeI /\ FreshI
  BY DEF executeExplain, IInv
<1>2. PICK session, g : session = EditorSession /\ g = targetFor(store, session, Null)
  OBVIOUS
<1>3. /\ g = [tab |-> g.tab, own |-> g.own] /\ g.own \in BOOLEAN /\ (g.own <=> session # Null)
      /\ g.tab \in (Shown \cap QueryTabs) \cup {NoTab} /\ session \in (Shown \cap QueryTabs) \cup {Null}
      /\ g.tab = NoTab => session = Null /\ Shown \cap QueryTabs = {}
      /\ Shown \cap QueryTabs = {} => g.tab = NoTab
      /\ session # Null => g.tab = session
      /\ g.tab \notin fresh /\ session \notin fresh /\ g.tab \in Keys
      /\ store.viewTabId = Null => g.tab = NoTab
  BY <1>2, EditorTarget
<1>4. ~Flown(run, r) /\ r # dialog /\ r # asking /\ asking \in Runs \cup {Null} /\ dialog \in Runs \cup {Null}
  BY <1>1, WaitingApart
<1>5. asking' \in {asking, Null} \ {r}
  BY <1>1, <1>4
<1>6. CASE Start(r, g, session, "explain", FALSE) /\ UNCHANGED dialog
  <2>1. Start(r, [tab |-> g.tab, own |-> g.own], session, "explain", FALSE)
    BY <1>3, <1>6
  <2>2. Startable(r, g.tab, g.own, session, "explain", FALSE)
    BY <1>3, <1>4 DEF Startable
  <2>3. dialog' \in {dialog, Null} \ {r}
    BY <1>4, <1>6
  <2> QED
    BY <1>1, <1>5, <2>1, <2>2, <2>3, StartStep
<1>7. CASE Wait(r, "confirming", dialog, g, session, "explain", FALSE) /\ dialog' = r
  <2>1. Wait(r, "confirming", dialog, [tab |-> g.tab, own |-> g.own], session, "explain", FALSE)
    BY <1>3, <1>7
  <2>2. Waitable(r, g.tab, g.own, session, "explain", FALSE)
    BY <1>3, <1>4 DEF Waitable
  <2>3. "explain" # "query"
    OBVIOUS
  <2> QED
    BY <1>1, <1>4, <1>5, <1>7, <2>1, <2>2, <2>3, ConfirmStep
<1>8. CASE /\ run' = [run EXCEPT ![r].phase = "done"]
           /\ store' = tabWriter(store, g.tab, [error |-> r])
           /\ UNCHANGED <<book, dialog>>
  <2> DEFINE p == [error |-> r]
  <2>1. Asked /\ run'[r].phase = "done" /\ \A q \in Runs : q # r => run'[q] = run[q]
    BY <1>1, <1>4, <1>8, DeclineRuns
  <2>2. DOMAIN p = {"error"} /\ p["error"] = r
    OBVIOUS
  <2>3. store' = tabWriter(store, g.tab, p)
    BY <1>8
  <2> HIDE DEF p
  <2>4. Partial(p) /\ "isExecuting" \notin DOMAIN p /\ "results" \notin DOMAIN p
    BY <2>2 DEF Partial, Fields
  <2>5. Written(g.tab, p)
    BY <1>3, <2>1, <2>2, <2>3, <2>4 DEF Written, GoodPart, UnnamedPart
  <2>6. QuietI
    BY <2>1, <2>5, QuietWrite
  <2>7. store'.screen.results = store.screen.results
    BY <1>1, <1>3, <2>3, <2>4, WriterRows DEF TypeI
  <2>8. EditI(edits', store', Shown) /\ edits' \in [QueryTabs -> Runs \cup {Null}]
    BY <1>1, <2>1, <2>6, <2>7, QuietEdits
  <2>9. \A q \in {dialog, asking} \cap Runs : run'[q] = run[q]
    BY <1>4, <2>1
  <2>10. \A t \in QueryTabs : edits'[t] \in {edits[t], Null}
    BY <1>1
  <2>11. /\ dialog' \in Runs \cup {Null} /\ asking' \in Runs \cup {Null}
         /\ WaitI(run', dialog', asking', Shown)
         /\ \A q \in Runs : Flies(run, q) /\ run[q].kind = "query" /\ ~run[q].agreed /\ AwaitedIn(run, q) /\ run[q].home \in QueryTabs
                            => edits'[run[q].home] = Null
         /\ dialog' # Null /\ run'[dialog'].kind = "query" /\ ~run'[dialog'].agreed =>
              IF run'[dialog'].tab = NoTab THEN \A t \in QueryTabs : edits'[t] = Null ELSE edits'[run'[dialog'].tab] = Null
    BY <1>1, <1>8, <2>1, <2>6, <2>9, <2>10, SameWaiting
  <2>12. stops' \subseteq [run : Runs, tab : Keys, at : Nat] /\ \A c \in stops' : c.tab \notin fresh
    BY <1>1 DEF TypeI, FreshI
  <2> QED
    BY <2>1, <2>6, <2>8, <2>11, <2>12, QuietStep
<1> QED
  BY <1>2, <1>6, <1>7, <1>8 DEF executeExplain

-----------------------------------------------------------------------------
\* The pane's own runs: the next page, another format of the plan.
LEMMA PaneTarget ==
  ASSUME IInv, NEW p \in Runs, p \in {store.screen.page, store.screen.request}, NEW r \in Runs, Idles(r), NEW kind \in {"page", "explain"},
         NEW g, g = ShownTarget(run[p].session)
  PROVE  g = [tab |-> g.tab, own |-> g.own] /\ Startable(r, g.tab, g.own, run[p].session, kind, FALSE)
<1>0. TypeI /\ StripI /\ FreshI /\ NoTabI(run, store) /\ run \in [Runs -> RunType]
  BY DEF IInv, TypeI
<1>1. /\ g = [tab |-> g.tab, own |-> g.own] /\ g.own = TRUE
      /\ g.tab = IF store.viewTabId # Null THEN store.viewTabId ELSE tabKeyFor(store, run[p].session)
  BY DEF ShownTarget
<1>2. run[p].session \in QueryTabs \cup {Null} /\ run[p].session \notin fresh
  BY <1>0, RunTypes DEF FreshI, Untouched
<1>3. store.viewTabId = Null => run[p].session = Null /\ g.tab = NoTab
  BY <1>0, <1>1 DEF NoTabI, Unnamed, StripI, KeptI, tabKeyFor
<1>4. store.viewTabId # Null => g.tab \in Shown /\ g.tab \in Tabs
  BY <1>0, <1>1 DEF StripI, KeptI
<1>5. ~Flown(run, r)
  BY WaitingApart
<1>6. g.tab \in Keys /\ g.tab \notin fresh /\ (g.tab = NoTab => store.viewTabId = Null)
  BY <1>0, <1>3, <1>4, Distinct DEF FreshI, TypeI
<1> QED
  BY <1>1, <1>2, <1>3, <1>5, <1>6 DEF Startable

LEMMA PageStep ==
  ASSUME IInv, NEW r \in Runs, goToPage(r)
  PROVE  IInv'
<1>1. PICK p : p = store.screen.page
  OBVIOUS
<1>2. Idles(r) /\ p # Null /\ UNCHANGED <<editorVars, dialog, asking, edits, stops>> /\ TypeI
      /\ Start(r, ShownTarget(run[p].session), run[p].session, "page", FALSE)
  BY <1>1 DEF goToPage, IInv
<1>3. p \in Runs
  BY <1>1, <1>2, StoreIs, SliceTypes DEF TypeI
<1>4. PICK g : g = ShownTarget(run[p].session)
  OBVIOUS
<1>5. g = [tab |-> g.tab, own |-> g.own] /\ Startable(r, g.tab, g.own, run[p].session, "page", FALSE)
  BY <1>1, <1>2, <1>3, <1>4, PaneTarget
<1>6. Start(r, [tab |-> g.tab, own |-> g.own], run[p].session, "page", FALSE)
  BY <1>2, <1>4, <1>5
<1>7. dialog' \in {dialog, Null} \ {r} /\ asking' \in {asking, Null} \ {r}
  BY <1>2, WaitingApart
<1> QED
  BY <1>2, <1>5, <1>6, <1>7, StartStep

LEMMA FormatStep ==
  ASSUME IInv, NEW r \in Runs, setExplainFormat(r)
  PROVE  IInv'
<1>1. PICK p : p = store.screen.request
  OBVIOUS
<1>2. Idles(r) /\ p # Null /\ UNCHANGED <<editorVars, dialog, asking, edits, stops>> /\ TypeI
      /\ Start(r, ShownTarget(run[p].session), run[p].session, "explain", FALSE)
  BY <1>1 DEF setExplainFormat, IInv
<1>3. p \in Runs
  BY <1>1, <1>2, StoreIs, SliceTypes DEF TypeI
<1>4. PICK g : g = ShownTarget(run[p].session)
  OBVIOUS
<1>5. g = [tab |-> g.tab, own |-> g.own] /\ Startable(r, g.tab, g.own, run[p].session, "explain", FALSE)
  BY <1>1, <1>2, <1>3, <1>4, PaneTarget
<1>6. Start(r, [tab |-> g.tab, own |-> g.own], run[p].session, "explain", FALSE)
  BY <1>2, <1>4, <1>5
<1>7. dialog' \in {dialog, Null} \ {r} /\ asking' \in {asking, Null} \ {r}
  BY <1>2, WaitingApart
<1> QED
  BY <1>2, <1>5, <1>6, <1>7, StartStep

\* What the grid drops of the edits.
LEMMA Follows ==
  ASSUME TypeI, EditI(edits, store, Shown), GridFollows(store')
  PROVE  /\ edits' \in [QueryTabs -> Runs \cup {Null}]
         /\ \A t \in QueryTabs : edits'[t] \in {edits[t], Null}
         /\ EditI(edits', store', Shown)
<1>1. edits' = [t \in QueryTabs |-> IF store'.viewTabId = t /\ store'.screen.results # edits[t] THEN Null ELSE edits[t]]
  BY DEF GridFollows
<1>2. edits \in [QueryTabs -> Runs \cup {Null}]
  BY DEF TypeI
<1>3. \A t \in QueryTabs : edits'[t] # Null => edits'[t] = edits[t]
  BY <1>1
<1>4. \A t \in QueryTabs : store'.viewTabId = t /\ edits'[t] # Null => edits'[t] = store'.screen.results
  BY <1>1
<1> QED
  BY <1>1, <1>2, <1>3, <1>4 DEF EditI

\* No run starts, ends or waits.
LEMMA StillRuns ==
  ASSUME IInv, UNCHANGED <<run, book, editorVars>>
  PROVE  Asked
  BY DEF Asked, IInv, TypeI

LEMMA CancelAnsweredStep ==
  ASSUME IInv, CancelAnswered
  PROVE  IInv'
<1>0. TypeI /\ FreshI /\ EditI(edits, store, Shown)
  BY DEF IInv
<1>1. PICK c \in stops : /\ stops' = stops \ {c}
                         /\ \/ UNCHANGED store
                            \/ store' = tabWriter(store, c.tab, [error |-> Unconfirmed, cancelled |-> Null])
  BY DEF CancelAnswered
<1>2. UNCHANGED <<editorVars, book, run, dialog, asking, edits>>
  BY DEF CancelAnswered
<1>3. Asked
  BY <1>2, StillRuns
<1>4. QuietI /\ store'.screen.results = store.screen.results
  <2>1. CASE UNCHANGED store
    BY <1>3, <2>1, QuietSame
  <2>2. CASE store' = tabWriter(store, c.tab, [error |-> Unconfirmed, cancelled |-> Null])
    <3> DEFINE p == [error |-> Unconfirmed, cancelled |-> Null]
    <3>1. DOMAIN p = {"error", "cancelled"} /\ p["error"] = Unconfirmed /\ p["cancelled"] = Null
      OBVIOUS
    <3>2. store' = tabWriter(store, c.tab, p)
      BY <2>2
    <3> HIDE DEF p
    <3>3. Partial(p) /\ "isExecuting" \notin DOMAIN p /\ "results" \notin DOMAIN p
      BY <3>1 DEF Partial, Fields
    <3>4. c.tab \in Keys \ fresh
      BY <1>0 DEF TypeI, FreshI
    <3>5. Written(c.tab, p)
      BY <3>1, <3>2, <3>3, <3>4, Distinct DEF Written, GoodPart, UnnamedPart
    <3>6. store'.screen.results = store.screen.results
      BY <1>0, <3>2, <3>3, <3>4, WriterRows DEF TypeI
    <3> QED
      BY <1>3, <3>5, <3>6, QuietWrite
  <2> QED
    BY <1>1, <2>1, <2>2
<1>5. EditI(edits', store', Shown) /\ edits' \in [QueryTabs -> Runs \cup {Null}]
  BY <1>2, <1>3, <1>4, QuietEdits
<1>6. /\ dialog' \in Runs \cup {Null} /\ asking' \in Runs \cup {Null}
      /\ WaitI(run', dialog', asking', Shown)
      /\ \A r \in Runs : Flies(run, r) /\ run[r].kind = "query" /\ ~run[r].agreed /\ AwaitedIn(run, r) /\ run[r].home \in QueryTabs
                         => edits'[run[r].home] = Null
      /\ dialog' # Null /\ run'[dialog'].kind = "query" /\ ~run'[dialog'].agreed =>
           IF run'[dialog'].tab = NoTab THEN \A t \in QueryTabs : edits'[t] = Null ELSE edits'[run'[dialog'].tab] = Null
  BY <1>2, <1>3, <1>4, SameWaiting
<1>7. stops' \subseteq [run : Runs, tab : Keys, at : Nat] /\ \A x \in stops' : x.tab \notin fresh
  BY <1>0, <1>1 DEF TypeI, FreshI
<1> QED
  BY <1>3, <1>4, <1>5, <1>6, <1>7, QuietStep

LEMMA DropStep ==
  ASSUME IInv, dropForeignResults
  PROVE  IInv'
<1>0. TypeI /\ StripI /\ FreshI /\ EditI(edits, store, Shown) /\ store \in StoreType
  BY DEF IInv, TypeI
<1>1. UNCHANGED <<editorVars, book, run, dialog, asking, stops>> /\ GridFollows(store')
  BY DEF dropForeignResults
<1> DEFINE a == [results |-> Null, error |-> Null, cancelled |-> Null, page |-> Null]
           c == [plan |-> Null, request |-> Null]
<1>2. PICK p : (p = a \/ p = c) /\ store' = [store EXCEPT !.screen = Patch(@, p)]
  BY DEF dropForeignResults
<1>3. /\ DOMAIN a = {"results", "error", "cancelled", "page"} /\ \A x \in DOMAIN a : a[x] = Null
      /\ DOMAIN c = {"plan", "request"} /\ \A x \in DOMAIN c : c[x] = Null
  OBVIOUS
<1> HIDE DEF a, c
<1>4. DOMAIN p \subseteq {"results", "error", "cancelled", "page", "plan", "request"} /\ \A x \in DOMAIN p : p[x] = Null
  BY <1>2, <1>3
<1>5. PICK t : t = IF store.viewTabId = Null THEN NoTab ELSE store.viewTabId
  OBVIOUS
<1>6. store' = tabWriter(store, t, p)
  BY <1>2, <1>5, ScreenWriter
<1>7. t \in Keys \ fresh
  BY <1>0, <1>5, Distinct DEF StripI, KeptI, FreshI, TypeI
<1>8. Written(t, p)
  BY <1>4, <1>6, <1>7, Distinct DEF Written, Partial, Fields, GoodPart, UnnamedPart
<1>9. Asked
  BY <1>1, StillRuns
<1>10. QuietI
  BY <1>8, <1>9, QuietWrite
<1>11. /\ edits' \in [QueryTabs -> Runs \cup {Null}]
       /\ \A u \in QueryTabs : edits'[u] \in {edits[u], Null}
       /\ EditI(edits', store', Shown)
  BY <1>0, <1>1, Follows
<1>12. /\ dialog' \in Runs \cup {Null} /\ asking' \in Runs \cup {Null}
       /\ WaitI(run', dialog', asking', Shown)
       /\ \A r \in Runs : Flies(run, r) /\ run[r].kind = "query" /\ ~run[r].agreed /\ AwaitedIn(run, r) /\ run[r].home \in QueryTabs
                          => edits'[run[r].home] = Null
       /\ dialog' # Null /\ run'[dialog'].kind = "query" /\ ~run'[dialog'].agreed =>
            IF run'[dialog'].tab = NoTab THEN \A u \in QueryTabs : edits'[u] = Null ELSE edits'[run'[dialog'].tab] = Null
  BY <1>1, <1>9, <1>10, <1>11, SameWaiting
<1>13. stops' \subseteq [run : Runs, tab : Keys, at : Nat] /\ \A x \in stops' : x.tab \notin fresh
  BY <1>0, <1>1 DEF TypeI, FreshI
<1> QED
  BY <1>9, <1>10, <1>11, <1>12, <1>13, QuietStep

LEMMA EditStep ==
  ASSUME IInv, EditGrid
  PROVE  IInv'
<1> DEFINE v == store.viewTabId
           L == Shown \cup {NoTab}
<1>0. /\ TypeI /\ StripI /\ FreshI /\ EditI(edits, store, Shown) /\ LossI(run, dialog, edits) /\ store \in StoreType
      /\ CoreI(run, book, store, L) /\ WaitI(run, dialog, asking, Shown) /\ run \in [Runs -> RunType] /\ book \in BookType
      /\ edits \in [QueryTabs -> Runs \cup {Null}]
  BY DEF IInv, TypeI
<1>1. /\ v \in QueryTabs /\ store.screen.results # Null /\ ~store.screen.isExecuting /\ dialog = Null /\ asking = Null
      /\ edits' = [edits EXCEPT ![v] = store.screen.results]
      /\ UNCHANGED <<editorVars, store, book, run, dialog, asking, stops>>
  BY DEF EditGrid, Modal
<1>2. Asked
  BY <1>1, StillRuns
<1>3. QuietI
  BY <1>1, <1>2, QuietSame
<1>4. store.screen.results \in Runs /\ v \in Shown /\ v \in L /\ v # Null
  BY <1>0, <1>1, StoreIs, SliceTypes, Distinct DEF StripI, KeptI
<1>5. edits' \in [QueryTabs -> Runs \cup {Null}] /\ edits'[v] = store.screen.results /\ \A t \in QueryTabs : t # v => edits'[t] = edits[t]
  BY <1>0, <1>1, <1>4
<1>6. EditI(edits', store', Shown)
  BY <1>0, <1>1, <1>4, <1>5 DEF EditI
<1>7. ASSUME NEW r \in Runs, Flies(run, r), run[r].kind = "query", ~run[r].agreed, AwaitedIn(run, r), run[r].home \in QueryTabs
      PROVE  edits'[run[r].home] = Null
  <2>1. CASE run[r].home = v
    <3>1. Typed(run, book)
      BY <1>0, TypedIs
    <3>2. Busy(run, book, v)
      <4>1. run[r].home \in L
        BY <1>4, <2>1
      <4> HIDE DEF L
      <4> QED
        BY <1>0, <1>7, <2>1, <3>1, <4>1, AwaitedLists
    <3>3. Spin(store, v)
      BY <1>0, <1>4, <3>2 DEF CoreI, SpinI
    <3> QED
      BY <1>1, <1>4, <3>3 DEF Spin, Pane, SliceOf
  <2>2. CASE run[r].home # v
    BY <1>0, <1>5, <1>7, <2>2 DEF LossI
  <2> QED
    BY <2>1, <2>2
<1>8. /\ dialog' = Null /\ asking' = Null /\ dialog' \in Runs \cup {Null} /\ asking' \in Runs \cup {Null}
      /\ WaitI(run', dialog', asking', Shown)
  BY <1>0, <1>1 DEF WaitI
<1>9. stops' \subseteq [run : Runs, tab : Keys, at : Nat] /\ \A x \in stops' : x.tab \notin fresh
  BY <1>0, <1>1 DEF TypeI, FreshI
<1> QED
  BY <1>2, <1>3, <1>5, <1>6, <1>7, <1>8, <1>9, QuietStep

\* One run in flight ends, or is cancelled.
Touched(r) ==
  /\ run' \in [Runs -> RunType] /\ book' \in BookType /\ book'.lastStartedTab = book.lastStartedTab
  /\ \A q \in Runs : q # r => run'[q] = run[q]
  /\ run'[r].phase \in {"flying", "done"} /\ run'[r].tab = run[r].tab /\ run'[r].own = run[r].own
  /\ run'[r].home = run[r].home /\ run'[r].seq = run[r].seq /\ run'[r].session = run[r].session
  /\ run'[r].kind = run[r].kind /\ run'[r].agreed = run[r].agreed /\ run'[r].orphaned = run[r].orphaned
  /\ run[r].cancelled => run'[r].cancelled
  /\ \A k : Generation(book', k) \in {0, Generation(book, k)} \/ k = run[r].key
  /\ \A k : At(book', k) \in {Null, At(book, k)} /\ LatestStart(book', k) = LatestStart(book, k)

LEMMA TouchStep ==
  ASSUME IInv, NEW r \in Runs, Flies(run, r), Touched(r), UNCHANGED <<editorVars, dialog, asking>>, GridFollows(store'),
         CoreI(run', book', store', Shown \cup {NoTab}),
         stops' \subseteq [run : Runs, tab : Keys, at : Nat], \A c \in stops' : c.tab \notin fresh,
         \/ store' = store
         \/ \E p : /\ Partial(p) /\ store' = tabWriter(store, run[r].tab, p)
                   /\ GoodPart(run', p) /\ (run[r].tab = NoTab => UnnamedPart(run', p))
  PROVE  IInv'
<1> DEFINE t == run[r].tab
<1>0. /\ TypeI /\ StripI /\ FreshI /\ CoreI(run, book, store, Shown \cup {NoTab}) /\ WaitI(run, dialog, asking, Shown)
      /\ EmptyI(run, book, store) /\ ShowI(run, store) /\ NoTabI(run, store) /\ EditI(edits, store, Shown) /\ LossI(run, dialog, edits)
      /\ store \in StoreType /\ run \in [Runs -> RunType]
  BY DEF IInv, TypeI
<1>1. Shown' = Shown /\ active' = active /\ fresh' = fresh /\ tabs' = tabs
  BY DEF Shown, editorVars
<1>2. t \in Keys /\ t \notin fresh
  BY <1>0, RunTypes DEF FreshI, Untouched
<1>3. store.viewTabId = Null => t = NoTab
  BY <1>0 DEF EmptyI
<1>4. Kept(run, run')
  BY DEF Kept, Touched, Flown, Flies
<1>5. /\ StripI' /\ store' \in StoreType /\ store'.viewTabId = store.viewTabId
      /\ (store.viewTabId = Null => store'.parked = store.parked)
      /\ DOMAIN store'.parked \subseteq DOMAIN store.parked \cup {t}
      /\ ShowI(run', store') /\ NoTabI(run', store')
  <2>1. CASE store' = store
    <3>1. ShowI(run', store) /\ NoTabI(run', store)
      BY <1>0, <1>4, StoreKept
    <3> QED
      BY <1>0, <1>1, <2>1, <3>1 DEF StripI
  <2>2. CASE store' # store
    <3>1. PICK p : /\ Partial(p) /\ store' = tabWriter(store, t, p) /\ GoodPart(run', p) /\ (t = NoTab => UnnamedPart(run', p))
      BY <2>2
    <3> HIDE DEF t
    <3>2. StripI' /\ store' \in StoreType /\ store'.viewTabId = store.viewTabId
          /\ (store.viewTabId = Null => store'.parked = store.parked)
          /\ DOMAIN store'.parked \subseteq DOMAIN store.parked \cup {t}
      BY <1>0, <1>2, <3>1, WriterStore
    <3>3. ShowI(run', store') /\ NoTabI(run', store')
      BY <1>0, <1>2, <1>3, <1>4, <3>1, WriterGood
    <3> QED
      BY <3>2, <3>3
  <2> QED
    BY <2>1, <2>2
<1>6. edits' \in [QueryTabs -> Runs \cup {Null}] /\ (\A u \in QueryTabs : edits'[u] \in {edits[u], Null})
      /\ EditI(edits', store', Shown)
  BY <1>0, Follows
<1>7. TypeI'
  BY <1>0, <1>1, <1>5, <1>6 DEF TypeI, Touched
<1>8. FreshI'
  <2>1. ASSUME NEW u \in fresh PROVE u \notin Shown' /\ u \notin DOMAIN store'.parked /\ Untouched(run', book', u)
    <3>1. u # t /\ u \notin Runs /\ Untouched(run, book, u) /\ u \notin Shown /\ u \notin DOMAIN store.parked
      BY <1>0, <1>2, Distinct DEF FreshI, TypeI
    <3>2. u # run[r].key
      BY <1>0, <3>1 DEF CoreI, RunI, FlyingI
    <3>3. Untouched(run', book', u)
      BY <3>1, <3>2 DEF Untouched, Touched
    <3> QED
      BY <1>1, <1>5, <3>1, <3>3
  <2> QED
    BY <1>1, <2>1 DEF FreshI
<1>9. WaitI(run', dialog', asking', Shown') /\ (dialog # Null => run'[dialog] = run[dialog])
  <2>1. /\ dialog # Null => run'[dialog] = run[dialog]
        /\ asking # Null => run'[asking] = run[asking]
    BY <1>0 DEF Touched, WaitI, TypeI, Flies
  <2> QED
    BY <1>0, <1>1, <2>1 DEF WaitI
<1>10. EmptyI(run', book', store')
  BY <1>0, <1>5 DEF EmptyI, Touched, Flies
<1>11. LossI(run', dialog', edits')
  <2>1. \A q \in Runs : AwaitedIn(run', q) => AwaitedIn(run, q)
    BY DEF AwaitedIn, Touched
  <2>2. \A q \in Runs : Flies(run', q) => Flies(run, q) /\ run'[q].kind = run[q].kind /\ run'[q].agreed = run[q].agreed
                                          /\ run'[q].home = run[q].home
    BY DEF Touched, Flies
  <2>3. ASSUME dialog # Null, run[dialog].kind = "query", ~run[dialog].agreed
        PROVE  IF run[dialog].tab = NoTab THEN \A u \in QueryTabs : edits'[u] = Null ELSE edits'[run[dialog].tab] = Null
    BY <1>0, <1>6, <2>3, Distinct DEF LossI, WaitI
  <2>4. \A q \in Runs : /\ Flies(run', q) /\ run'[q].kind = "query" /\ ~run'[q].agreed /\ AwaitedIn(run', q)
                        /\ run'[q].home \in QueryTabs
                        => edits'[run'[q].home] = Null
    BY <1>0, <1>6, <2>1, <2>2 DEF LossI
  <2> QED
    BY <1>9, <2>3, <2>4 DEF LossI
<1> QED
  BY <1>1, <1>5, <1>6, <1>7, <1>8, <1>9, <1>10, <1>11 DEF IInv

-----------------------------------------------------------------------------
LEMMA ListedAt ==
  ASSUME NEW b \in BookType
  PROVE  \A q : q \in Listed(b) <=> q # Null /\ \E k \in Keys \cup Runs : At(b, k) = q
<1>1. /\ b.activeExecutions \in [DOMAIN b.activeExecutions -> Runs] /\ DOMAIN b.activeExecutions \subseteq Keys \cup Runs
      /\ Null \notin Runs
  BY BookIs, Distinct
<1> QED
  BY <1>1 DEF Listed, Range, At

\* Apart from the run that ended.
LEMMA LandBusy ==
  ASSUME NEW rs, NEW b \in BookType, NEW rs2, NEW b2 \in BookType, NEW L, NEW r \in Runs, NEW t, Typed(rs, b),
         Landed(rs, b, rs2, b2, r), ListI(rs, b, L)
  PROVE  /\ tabBusy(b, rs, t, {r}) <=> Busy(rs2, b2, t)
         /\ tabBusy(b2, rs, t, {}) <=> Busy(rs2, b2, t)
         /\ Busy(rs2, b2, t) => Busy(rs, b, t)
<1>0. r # Null
  BY Distinct
<1>1. \A k : At(b2, k) # Null <=> At(b, k) # Null /\ At(b, k) # r
  BY <1>0 DEF Landed, ListI, ListedI
<1>2. \A k : At(b2, k) # Null => At(b2, k) = At(b, k) /\ rs2[At(b, k)] = rs[At(b, k)] /\ ~rs[At(b, k)].cancelled
  BY <1>1 DEF Landed, ListI, ListedI, Typed
<1>3. \A k : At(b, k) # Null => ~rs[At(b, k)].cancelled
  BY DEF ListI, ListedI
<1>4. Busy(rs2, b2, t) <=> \E k \in Keys \cup Runs : At(b, k) # Null /\ At(b, k) # r /\ rs[At(b, k)].tab = t
  BY <1>1, <1>2 DEF Busy
<1>5. tabBusy(b, rs, t, {r}) <=> \E k \in Keys \cup Runs : At(b, k) # Null /\ At(b, k) # r /\ rs[At(b, k)].tab = t
  BY <1>3, ListedAt DEF tabBusy
<1>6. tabBusy(b2, rs, t, {}) <=> \E k \in Keys \cup Runs : At(b, k) # Null /\ At(b, k) # r /\ rs[At(b, k)].tab = t
  BY <1>1, <1>2, ListedAt DEF tabBusy
<1> QED
  BY <1>4, <1>5, <1>6 DEF Busy

\* What a current run's answer writes.
LEMMA AnswerSliceIs ==
  ASSUME NEW r \in Runs, NEW p \in AnswerSlices(r)
  PROVE  /\ Partial(p) /\ "isExecuting" \in DOMAIN p
         /\ p["isExecuting"] <=> tabBusy(book, run, run[r].tab, {r})
         /\ \A x \in DOMAIN p \cap {"results", "plan", "error", "page"} : p[x] \in {r, Null}
         /\ "request" \notin DOMAIN p
         /\ \E x \in DOMAIN p \cap {"results", "plan", "error"} : p[x] = r
         /\ run[r].kind = "explain" => "results" \notin DOMAIN p
<1> DEFINE busy == tabBusy(book, run, run[r].tab, {r})
<1>1. busy \in BOOLEAN
  BY DEF tabBusy
<1>2. PICK e \in BOOLEAN : e <=> busy
  OBVIOUS
<1>3. e = busy
  BY <1>1, <1>2
<1>4. IF run[r].kind = "explain"
      THEN p \in {[plan |-> r, isExecuting |-> e], [error |-> r, isExecuting |-> e]}
      ELSE p \in {[results |-> r, page |-> x, isExecuting |-> e] : x \in {r, Null}}
                 \cup {[results |-> x, page |-> Null, error |-> r, isExecuting |-> e] :
                         x \in {y \in {r, Null} : ~run[r].cancelled}}
  BY <1>3 DEF AnswerSlices
<1> HIDE DEF busy
<1>5. CASE run[r].kind = "explain"
  <2>1. \/ p = [plan |-> r, isExecuting |-> e] \/ p = [error |-> r, isExecuting |-> e]
    BY <1>4, <1>5
  <2>2. \/ DOMAIN p = {"plan", "isExecuting"} /\ p["plan"] = r /\ p["isExecuting"] = e
        \/ DOMAIN p = {"error", "isExecuting"} /\ p["error"] = r /\ p["isExecuting"] = e
    BY <2>1
  <2> QED
    BY <1>2, <2>2 DEF Partial, Fields, busy
<1>6. CASE run[r].kind # "explain"
  <2>1. \/ \E x \in {r, Null} : p = [results |-> r, page |-> x, isExecuting |-> e]
        \/ \E x \in {r, Null} : p = [results |-> x, page |-> Null, error |-> r, isExecuting |-> e]
    BY <1>4, <1>6
  <2>2. \/ /\ DOMAIN p = {"results", "page", "isExecuting"} /\ p["results"] = r /\ p["page"] \in {r, Null}
           /\ p["isExecuting"] = e
        \/ /\ DOMAIN p = {"results", "page", "error", "isExecuting"} /\ p["results"] \in {r, Null} /\ p["page"] = Null
           /\ p["error"] = r /\ p["isExecuting"] = e
    BY <2>1
  <2> QED
    BY <1>2, <1>6, <2>2 DEF Partial, Fields, busy
<1> QED
  BY <1>5, <1>6

LEMMA AnswerLands ==
  ASSUME IInv, NEW r \in Runs, Answer(r)
  PROVE  /\ Flies(run, r) /\ Landed(run, book, run', book', r) /\ Touched(r)
         /\ Typed(run, book) /\ Typed(run', book') /\ book' = Ended(r)
<1>0. run \in [Runs -> RunType] /\ book \in BookType
  BY DEF IInv, TypeI
<1>1. run[r].phase = "flying" /\ run' = [run EXCEPT ![r].phase = "done"] /\ book' = Ended(r)
  BY DEF Answer
<1>2. book' = EndBook(run, book, r)
  BY <1>1 DEF Ended, EndBook
<1> DEFINE e == [run[r] EXCEPT !.phase = "done"]
<1>3. /\ e \in RunType /\ e.phase = "done" /\ e.tab = run[r].tab /\ e.own = run[r].own /\ e.key = run[r].key
      /\ e.home = run[r].home /\ e.seq = run[r].seq /\ e.session = run[r].session
      /\ e.cancelled = run[r].cancelled /\ e.kind = run[r].kind /\ e.agreed = run[r].agreed /\ e.orphaned = run[r].orphaned
  BY <1>0 DEF RunType, Phases
<1>4. run' = [run EXCEPT ![r] = e]
  BY <1>1
<1> HIDE DEF e
<1>5. run' \in [Runs -> RunType] /\ run'[r] = e /\ \A q \in Runs : q # r => run'[q] = run[q]
  BY <1>0, <1>3, <1>4
<1>6. /\ book' \in BookType /\ book'.runCount = book.runCount /\ book'.lastStartedTab = book.lastStartedTab
      /\ \A k : Generation(book', k) = IF ~run[r].own /\ k = run[r].key THEN 0 ELSE Generation(book, k)
      /\ \A k : At(book', k) = IF k = run[r].key /\ At(book, k) = r THEN Null ELSE At(book, k)
      /\ \A k : LatestStart(book', k) = LatestStart(book, k)
  BY <1>0, <1>2, EndBookIs
<1>7. Landed(run, book, run', book', r)
  BY <1>3, <1>5, <1>6 DEF Landed
<1>8. Touched(r)
  BY <1>3, <1>5, <1>6 DEF Touched
<1>9. Typed(run, book) /\ Typed(run', book')
  BY <1>0, <1>5, <1>6, TypedIs
<1> QED
  BY <1>1, <1>7, <1>8, <1>9 DEF Flies

\* What an answer writes, whoever waits for it.
LEMMA AnswerWrites ==
  ASSUME IInv, NEW r \in Runs, Answer(r)
  PROVE  LET t == run[r].tab IN
         \/ /\ isCurrent(book, run, r)
            /\ \E p \in AnswerSlices(r) :
                 store' = tabWriter(store, t, p) /\ Partial(p) /\ "isExecuting" \in DOMAIN p /\ (p["isExecuting"] <=> Busy(run', book', t))
         \/ /\ ~isCurrent(book, run, r) /\ ~run[r].orphaned /\ ~Busy(run', book', t)
            /\ store' = tabWriter(store, t, [isExecuting |-> FALSE])
         \/ /\ ~isCurrent(book, run, r) /\ (run[r].orphaned \/ Busy(run', book', t)) /\ store' = store
<1> DEFINE t == run[r].tab
           L == Shown \cup {NoTab}
<1>0. ListI(run, book, L) /\ book \in BookType
  BY DEF IInv, TypeI, CoreI
<1>1. /\ Flies(run, r) /\ Landed(run, book, run', book', r) /\ Touched(r) /\ Typed(run, book) /\ book' = Ended(r)
  BY AnswerLands
<1>2. book' \in BookType
  BY <1>1 DEF Touched
<1>3. /\ tabBusy(book, run, t, {r}) <=> Busy(run', book', t)
      /\ tabBusy(book', run, t, {}) <=> Busy(run', book', t)
  <2> HIDE DEF t, L
  <2> QED
    BY <1>0, <1>1, <1>2, LandBusy
<1>4. CASE isCurrent(book, run, r)
  <2>1. PICK p \in AnswerSlices(r) : store' = tabWriter(store, t, p)
    BY <1>4 DEF Answer
  <2>2. Partial(p) /\ "isExecuting" \in DOMAIN p /\ (p["isExecuting"] <=> Busy(run', book', t))
    BY <1>3, AnswerSliceIs
  <2> QED
    BY <1>4, <2>1, <2>2
<1>5. CASE ~isCurrent(book, run, r)
  <2>1. store' = IF ~run[r].orphaned /\ ~tabBusy(book', run, t, {}) THEN tabWriter(store, t, [isExecuting |-> FALSE]) ELSE store
    BY <1>1, <1>5 DEF Answer
  <2> QED
    BY <1>3, <1>5, <2>1
<1> QED
  BY <1>4, <1>5

LEMMA StopPart ==
  LET p == [isExecuting |-> FALSE] IN
  DOMAIN p = {"isExecuting"} /\ Partial(p) /\ ~p["isExecuting"]
<1> DEFINE p == [isExecuting |-> FALSE]
<1>1. DOMAIN p = {"isExecuting"} /\ p["isExecuting"] = FALSE
  OBVIOUS
<1> HIDE DEF p
<1>2. Partial(p)
  BY <1>1 DEF Partial, Fields
<1> QED
  BY <1>1, <1>2 DEF p

LEMMA AnswerStore ==
  ASSUME IInv, NEW r \in Runs, Answer(r)
  PROVE  LET t == run[r].tab IN
         \/ \E p : /\ Partial(p) /\ store' = tabWriter(store, t, p)
                   /\ GoodPart(run', p) /\ (t = NoTab => UnnamedPart(run', p))
                   /\ "isExecuting" \in DOMAIN p /\ (p["isExecuting"] <=> Busy(run', book', t))
         \/ (run[r].orphaned \/ Busy(run', book', t)) /\ store' = store
<1> DEFINE t == run[r].tab
<1>0. CoreI(run, book, store, Shown \cup {NoTab})
  BY DEF IInv
<1>1. Landed(run, book, run', book', r)
  BY AnswerLands
<1>2. run'[r].phase = "done" /\ (t = NoTab => run'[r].session = Null)
  BY <1>0, <1>1 DEF Landed, CoreI, RunI
<1>3. CASE isCurrent(book, run, r)
  <2>1. PICK p \in AnswerSlices(r) : store' = tabWriter(store, t, p) /\ Partial(p) /\ "isExecuting" \in DOMAIN p
                                     /\ (p["isExecuting"] <=> Busy(run', book', t))
    BY <1>3, AnswerWrites
  <2>2. /\ \A x \in DOMAIN p \cap {"results", "plan", "error", "page"} : p[x] \in {r, Null}
        /\ "request" \notin DOMAIN p
    BY AnswerSliceIs
  <2>3. GoodPart(run', p) /\ (t = NoTab => UnnamedPart(run', p))
    BY <1>2, <2>2, Distinct DEF GoodPart, UnnamedPart, Flown
  <2> QED
    BY <2>1, <2>3
<1>4. CASE ~run[r].orphaned /\ ~Busy(run', book', t) /\ store' = tabWriter(store, t, [isExecuting |-> FALSE])
  <2>1. PICK p : p = [isExecuting |-> FALSE]
    OBVIOUS
  <2>2. DOMAIN p = {"isExecuting"} /\ Partial(p) /\ ~p["isExecuting"]
    BY <2>1, StopPart
  <2>3. GoodPart(run', p) /\ UnnamedPart(run', p)
    BY <2>2 DEF GoodPart, UnnamedPart
  <2> QED
    BY <1>4, <2>1, <2>2, <2>3
<1>5. CASE (run[r].orphaned \/ Busy(run', book', t)) /\ store' = store
  BY <1>5
<1> QED
  BY <1>3, <1>4, <1>5, AnswerWrites

LEMMA AnswerStep ==
  ASSUME IInv, NEW r \in Runs, Answer(r)
  PROVE  IInv'
<1> DEFINE t == run[r].tab
           L == Shown \cup {NoTab}
<1>0. /\ TypeI /\ StripI /\ FreshI /\ CoreI(run, book, store, L) /\ EmptyI(run, book, store)
      /\ store \in StoreType /\ book \in BookType /\ run \in [Runs -> RunType]
  BY DEF IInv, TypeI
<1>1. /\ Flies(run, r) /\ Landed(run, book, run', book', r) /\ Touched(r) /\ Typed(run, book) /\ Typed(run', book')
  BY AnswerLands
<1>2. UNCHANGED <<editorVars, dialog, asking, stops>> /\ GridFollows(store')
  BY DEF Answer
<1>3. t \in Keys /\ (store.viewTabId = Null => t = NoTab /\ L = {NoTab})
  BY <1>0, <1>1, RunTypes DEF EmptyI, StripI, KeptI
<1>4. CASE \E p : /\ Partial(p) /\ store' = tabWriter(store, t, p)
                  /\ GoodPart(run', p) /\ (t = NoTab => UnnamedPart(run', p))
                  /\ "isExecuting" \in DOMAIN p /\ (p["isExecuting"] <=> Busy(run', book', t))
  <2>1. PICK p : /\ Partial(p) /\ store' = tabWriter(store, t, p)
                 /\ GoodPart(run', p) /\ (t = NoTab => UnnamedPart(run', p))
                 /\ "isExecuting" \in DOMAIN p /\ (p["isExecuting"] <=> Busy(run', book', t))
    BY <1>4
  <2> HIDE DEF t, L
  <2>2. \A u \in L : Spin(tabWriter(store, t, p), u) <=> (u = t /\ p.isExecuting) \/ (u # t /\ Spin(store, u))
    BY <1>0, <1>3, <2>1, WriterSpin
  <2>3. \A u \in L : Spin(store', u) <=> IF u = t THEN Busy(run', book', u) ELSE Spin(store, u)
    BY <2>1, <2>2
  <2>4. store'.viewTabId = store.viewTabId
    BY <1>0, <1>3, <2>1, WriterIs
  <2>5. CoreI(run', book', store', L)
    <3>1. \A u \in L : Spin(store', u) <=> IF u = run[r].tab THEN Busy(run', book', u) ELSE Spin(store, u)
      BY <2>3 DEF t
    <3> QED
      BY <1>0, <1>1, <2>4, <3>1, LandCore
  <2>6. /\ stops' \subseteq [run : Runs, tab : Keys, at : Nat] /\ \A c \in stops' : c.tab \notin fresh
    BY <1>0, <1>2 DEF TypeI, FreshI
  <2>7. CoreI(run', book', store', Shown \cup {NoTab})
    BY <2>5 DEF L
  <2>8. \E x : /\ Partial(x) /\ store' = tabWriter(store, run[r].tab, x)
               /\ GoodPart(run', x) /\ (run[r].tab = NoTab => UnnamedPart(run', x))
    BY <2>1 DEF t
  <2> QED
    BY <1>1, <1>2, <2>6, <2>7, <2>8, TouchStep
<1>5. CASE (run[r].orphaned \/ Busy(run', book', t)) /\ store' = store
  <2>1. ListI(run, book, L) /\ SpinI(run, book, store, L) /\ (run[r].orphaned => t \notin L)
    BY <1>0, <1>1 DEF CoreI, RunI, FlyingI
  <2>2. book' \in BookType
    BY <1>1 DEF Touched
  <2> HIDE DEF t, L
  <2>3. Busy(run', book', t) => Busy(run, book, t)
    BY <1>0, <1>1, <2>1, <2>2, LandBusy
  <2>4. \A u \in L : Spin(store', u) <=> IF u = t THEN Busy(run', book', u) ELSE Spin(store, u)
    BY <1>5, <2>1, <2>3 DEF SpinI
  <2>5. CoreI(run', book', store', L)
    <3>1. \A u \in L : Spin(store', u) <=> IF u = run[r].tab THEN Busy(run', book', u) ELSE Spin(store, u)
      BY <2>4 DEF t
    <3>2. store'.viewTabId = store.viewTabId
      BY <1>5
    <3> QED
      BY <1>0, <1>1, <3>1, <3>2, LandCore
  <2>6. /\ stops' \subseteq [run : Runs, tab : Keys, at : Nat] /\ \A c \in stops' : c.tab \notin fresh
    BY <1>0, <1>2 DEF TypeI, FreshI
  <2>7. CoreI(run', book', store', Shown \cup {NoTab})
    BY <2>5 DEF L
  <2> QED
    BY <1>1, <1>2, <1>5, <2>6, <2>7, TouchStep
<1> QED
  BY <1>4, <1>5, AnswerStore

\* A busy tab has a run to cancel, and cancel picks one that is listed in it.
LEMMA CancellableIs ==
  ASSUME NEW b \in BookType, NEW rs, NEW L, Typed(rs, b), RunI(rs, b, L), ListI(rs, b, L), NEW t \in Keys, Busy(rs, b, t)
  PROVE  LET r == cancellableIn(b, rs, t) IN r \in Runs /\ Lists(rs, b, r) /\ rs[r].tab = t /\ Flies(rs, r)
<1> DEFINE side == {q \in Listed(b) : rs[q].tab = t /\ ~rs[q].cancelled}
           r == cancellableIn(b, rs, t)
<1>0. Runs \cap Keys = {} /\ Null \notin Runs
  BY Distinct
<1>1. \A k : At(b, k) # Null => At(b, k) \in Runs /\ ListedI(rs, b, L, k, At(b, k)) /\ FlyingI(rs, At(b, k), L) /\ Lists(rs, b, At(b, k))
  BY DEF Typed, ListI, ListedI, RunI, Lists
<1>2. CASE t \in DOMAIN b.activeExecutions
  <2>1. r = At(b, t) /\ r # Null
    BY <1>0, <1>2, BookIs DEF cancellableIn, At
  <2>2. rs[r].key = t /\ Flies(rs, r) /\ Lists(rs, b, r) /\ r \in Runs
    BY <1>1, <2>1 DEF ListedI
  <2>3. rs[r].tab = t
    BY <1>0, <1>1, <2>1, <2>2 DEF FlyingI
  <2> QED
    BY <2>2, <2>3
<1>3. CASE t \notin DOMAIN b.activeExecutions
  <2>1. side # {}
    <3>1. PICK k \in Keys \cup Runs : At(b, k) # Null /\ rs[At(b, k)].tab = t
      BY DEF Busy
    <3>2. At(b, k) \in side
      BY <1>1, <3>1, ListedAt DEF ListedI
    <3> QED
      BY <3>2
  <2>2. \A q \in side : q \in Runs /\ Lists(rs, b, q) /\ rs[q].tab = t /\ Flies(rs, q)
    BY <1>1, ListedAt DEF ListedI
  <2>3. r = CHOOSE q \in side : \A x \in side : rs[x].seq <= rs[q].seq
    BY <1>3, <2>1 DEF cancellableIn
  <2>4. \A q \in side : rs[q].seq \in Nat /\ b.runCount \in Nat /\ rs[q].seq <= b.runCount
    BY <2>2 DEF Typed, RunI
  <2> HIDE DEF side, r
  <2>5. \E q \in side : \A x \in side : rs[x].seq <= rs[q].seq
    <3> DEFINE T == {b.runCount - rs[q].seq : q \in side}
    <3>1. T \in SUBSET Nat /\ T # {}
      BY <2>1, <2>4
    <3>2. PICK n \in T : \A y \in T : n <= y
      BY <3>1, LeastIs
    <3>3. PICK q \in side : n = b.runCount - rs[q].seq
      BY <3>2
    <3>4. ASSUME NEW x \in side PROVE rs[x].seq <= rs[q].seq
      <4>1. b.runCount - rs[x].seq \in T
        OBVIOUS
      <4> QED
        BY <2>4, <3>2, <3>3, <4>1
    <3> QED
      BY <3>4
  <2>6. r \in side
    BY <2>3, <2>5
  <2> QED
    BY <2>2, <2>6 DEF r
<1> QED
  BY <1>2, <1>3

\* What cancel writes of the slice on screen.
HaltPart(r, busy, plan) ==
  LET halted == [isExecuting |-> busy, error |-> Null, cancelled |-> r, results |-> Null, page |-> Null] IN
  IF plan THEN With(halted, "plan", Null) ELSE halted

LEMMA HaltPartIs ==
  ASSUME NEW r \in Runs, NEW busy \in BOOLEAN, NEW plan
  PROVE  LET p == HaltPart(r, busy, plan) IN
         /\ Partial(p) /\ "isExecuting" \in DOMAIN p /\ (p["isExecuting"] <=> busy)
         /\ \A x \in DOMAIN p \cap {"results", "plan", "error", "page"} : p[x] = Null
         /\ "request" \notin DOMAIN p
<1> DEFINE p == HaltPart(r, busy, plan)
           a == [isExecuting |-> busy, error |-> Null, cancelled |-> r, results |-> Null, page |-> Null]
<1>1. /\ DOMAIN a = {"isExecuting", "error", "cancelled", "results", "page"} /\ a["isExecuting"] = busy
      /\ a["error"] = Null /\ a["cancelled"] = r /\ a["results"] = Null /\ a["page"] = Null
  OBVIOUS
<1>2. p = a \/ p = With(a, "plan", Null)
  BY DEF HaltPart
<1> HIDE DEF p, a
<1>3. /\ DOMAIN p \subseteq {"isExecuting", "error", "cancelled", "results", "page", "plan"} /\ "isExecuting" \in DOMAIN p
      /\ p["isExecuting"] = busy /\ p["error"] = Null /\ p["cancelled"] = r /\ p["results"] = Null /\ p["page"] = Null
      /\ "plan" \in DOMAIN p => p["plan"] = Null
  <2>1. CASE p = a
    BY <1>1, <2>1
  <2>2. CASE p = With(a, "plan", Null)
    <3>1. DOMAIN p = DOMAIN a \cup {"plan"} /\ p["plan"] = Null /\ \A x \in DOMAIN a : x # "plan" => p[x] = a[x]
      BY <2>2 DEF With
    <3> QED
      BY <1>1, <3>1
  <2> QED
    BY <1>2, <2>1, <2>2
<1> QED
  BY <1>3 DEF Partial, Fields, p

-----------------------------------------------------------------------------
LEMMA CancelStep ==
  ASSUME IInv, cancelActiveQuery
  PROVE  IInv'
<1> DEFINE v == store.viewTabId
           L == Shown \cup {NoTab}
<1>0. /\ TypeI /\ StripI /\ FreshI /\ CoreI(run, book, store, L) /\ EmptyI(run, book, store)
      /\ RunI(run, book, L) /\ ListI(run, book, L) /\ SpinI(run, book, store, L)
      /\ store \in StoreType /\ book \in BookType /\ run \in [Runs -> RunType]
  BY DEF IInv, TypeI, CoreI
<1>a. Typed(run, book) /\ NoTab # Null /\ NoTab \in L /\ L \subseteq Keys
  BY <1>0, TypedIs, Distinct DEF StripI, KeptI
<1>1. PICK t : t = IF v # Null THEN v ELSE book.lastStartedTab
  OBVIOUS
<1>2. PICK r : r = cancellableIn(book, run, t)
  OBVIOUS
<1>3. store.screen.isExecuting /\ UNCHANGED <<editorVars, dialog, asking>> /\ GridFollows(store')
  BY DEF cancelActiveQuery
<1>4. t = (IF v = Null THEN NoTab ELSE v) /\ t \in L /\ Spin(store, t)
  <2>1. CASE v # Null
    BY <1>0, <1>1, <1>3, <2>1 DEF StripI, KeptI, Spin, Pane, SliceOf
  <2>2. CASE v = Null
    <3>1. Spin(store, NoTab)
      BY <1>3, <2>2 DEF Spin, Pane
    <3>2. PICK k \in Keys \cup Runs : At(book, k) # Null
      BY <1>0, <1>a, <3>1 DEF SpinI, Busy
    <3>3. At(book, k) \in Runs /\ Flies(run, At(book, k))
      BY <1>0, <1>a, <3>2 DEF ListI, ListedI, Typed
    <3>4. book.lastStartedTab = NoTab
      BY <1>0, <2>2, <3>3 DEF EmptyI
    <3> QED
      BY <1>1, <1>a, <2>2, <3>1, <3>4
  <2> QED
    BY <2>1, <2>2
<1>5. Busy(run, book, t) /\ t \in Keys /\ t \notin fresh
  BY <1>0, <1>4, <1>a, Distinct DEF SpinI, FreshI, TypeI
<1>6. r \in Runs /\ Lists(run, book, r) /\ run[r].tab = t /\ Flies(run, r) /\ r # Null
  BY <1>0, <1>2, <1>5, <1>a, CancellableIs, Distinct
<1>7. /\ run' = [run EXCEPT ![r].cancelled = TRUE] /\ book' = CancelBook(run, book, r)
      /\ store' = [store EXCEPT !.screen = Patch(@, HaltPart(r, tabBusy(book', run', t, {}), run[r].kind = "explain"))]
      /\ stops' = stops \cup {[run |-> r, tab |-> t, at |-> LatestStart(book', t)]}
  BY <1>1, <1>2, <1>6 DEF cancelActiveQuery, CancelBook, HaltPart
<1> DEFINE e == [run[r] EXCEPT !.cancelled = TRUE]
<1>8. /\ e \in RunType /\ e.phase = run[r].phase /\ e.tab = run[r].tab /\ e.own = run[r].own /\ e.key = run[r].key
      /\ e.home = run[r].home /\ e.seq = run[r].seq /\ e.session = run[r].session /\ e.generation = run[r].generation
      /\ e.filed = run[r].filed /\ e.cancelled /\ e.kind = run[r].kind /\ e.agreed = run[r].agreed /\ e.orphaned = run[r].orphaned
  <2>1. run[r] \in RunType
    BY <1>0, <1>6
  <2>2. PICK x \in RunType : x = run[r]
    BY <2>1
  <2>3. /\ [x EXCEPT !.cancelled = TRUE] \in RunType /\ x.phase = [x EXCEPT !.cancelled = TRUE].phase
    BY DEF RunType
  <2> QED
    BY <2>2, <2>3 DEF RunType
<1>9. run' = [run EXCEPT ![r] = e]
  BY <1>7
<1> HIDE DEF e
<1>10. run' \in [Runs -> RunType] /\ run'[r] = e /\ \A q \in Runs : q # r => run'[q] = run[q]
  BY <1>0, <1>6, <1>8, <1>9
<1>11. /\ book' \in BookType /\ book'.runCount = book.runCount /\ book'.lastStartedTab = book.lastStartedTab
       /\ \A k : Generation(book', k) = IF k = run[r].key THEN Generation(book, k) + 1 ELSE Generation(book, k)
       /\ \A k : At(book', k) = IF k = run[r].key THEN Null ELSE At(book, k)
       /\ \A k : LatestStart(book', k) = LatestStart(book, k)
  <2>1. PICK b2 : b2 = CancelBook(run, book, r)
    OBVIOUS
  <2>2. /\ b2 \in BookType /\ b2.runCount = book.runCount /\ b2.lastStartedTab = book.lastStartedTab
        /\ \A k : Generation(b2, k) = IF k = run[r].key THEN Generation(book, k) + 1 ELSE Generation(book, k)
        /\ \A k : At(b2, k) = IF k = run[r].key THEN Null ELSE At(book, k)
        /\ \A k : LatestStart(b2, k) = LatestStart(book, k)
    BY <1>0, <1>6, <2>1, CancelBookIs
  <2>3. book' = b2
    BY <1>7, <2>1
  <2> QED
    BY <2>2, <2>3
<1>12. Cancelled(run, book, run', book', r)
  BY <1>8, <1>10, <1>11 DEF Cancelled
<1>13. Touched(r)
  BY <1>6, <1>8, <1>10, <1>11 DEF Touched, Flies
<1>14. Typed(run', book')
  BY <1>10, <1>11, TypedIs
<1>15. tabBusy(book', run', t, {}) <=> Busy(run', book', t)
  <2>1. \A k : At(book', k) # Null => At(book', k) = At(book, k) /\ At(book, k) # r /\ At(book, k) \in Runs
    BY <1>0, <1>11, <1>a DEF ListI, ListedI, Typed
  <2>2. \A k : At(book', k) # Null => ~run'[At(book', k)].cancelled
    BY <1>0, <1>10, <2>1 DEF ListI, ListedI
  <2> QED
    BY <1>11, <2>2, ListedAt DEF tabBusy, Busy
<1>16. PICK busy \in BOOLEAN : busy = tabBusy(book', run', t, {})
  <2>1. tabBusy(book', run', t, {}) \in BOOLEAN
    BY DEF tabBusy
  <2> QED
    BY <2>1
<1>17. PICK p : p = HaltPart(r, busy, run[r].kind = "explain")
  OBVIOUS
<1>18. store' = tabWriter(store, t, p)
  <2>1. store' = [store EXCEPT !.screen = Patch(@, p)]
    BY <1>7, <1>16, <1>17
  <2> QED
    BY <1>4, <2>1, ScreenWriter
<1>19. /\ Partial(p) /\ "isExecuting" \in DOMAIN p /\ (p["isExecuting"] <=> busy)
       /\ \A x \in DOMAIN p \cap {"results", "plan", "error", "page"} : p[x] = Null
       /\ "request" \notin DOMAIN p
  BY <1>6, <1>17, HaltPartIs
<1>20. GoodPart(run', p) /\ UnnamedPart(run', p)
  BY <1>19, Distinct DEF GoodPart, UnnamedPart
<1>21. v = Null => t = NoTab /\ L = {NoTab}
  BY <1>0, <1>4 DEF StripI, KeptI
<1>22. CoreI(run', book', store', L)
  <2> HIDE DEF L
  <2>1. \A u \in L : Spin(tabWriter(store, t, p), u) <=> (u = t /\ p.isExecuting) \/ (u # t /\ Spin(store, u))
    BY <1>0, <1>5, <1>19, <1>21, WriterSpin
  <2>2. \A u \in L : Spin(store', u) <=> IF u = run[r].tab THEN Busy(run', book', u) ELSE Spin(store, u)
    BY <1>6, <1>15, <1>16, <1>18, <1>19, <2>1
  <2>3. store'.viewTabId = store.viewTabId
    BY <1>0, <1>5, <1>18, <1>19, WriterIs
  <2>4. (run[r].tab = NoTab => store.viewTabId = Null) /\ run[r].tab \in L
    BY <1>0, <1>4, <1>6, Distinct DEF StripI, KeptI
  <2> QED
    BY <1>0, <1>6, <1>12, <1>14, <1>a, <2>2, <2>3, <2>4, CancelCore
<1>23. stops' \subseteq [run : Runs, tab : Keys, at : Nat] /\ \A c \in stops' : c.tab \notin fresh
  <2>1. LatestStart(book', t) \in Nat
    BY <1>14 DEF Typed
  <2> QED
    BY <1>0, <1>5, <1>6, <1>7, <2>1 DEF TypeI, FreshI
<1>24. \E x : /\ Partial(x) /\ store' = tabWriter(store, run[r].tab, x)
              /\ GoodPart(run', x) /\ (run[r].tab = NoTab => UnnamedPart(run', x))
  BY <1>6, <1>18, <1>19, <1>20
<1>25. CoreI(run', book', store', Shown \cup {NoTab})
  BY <1>22
<1> QED
  BY <1>3, <1>6, <1>13, <1>23, <1>24, <1>25, TouchStep

\* Switching shows and parks the slices there were, or an empty one.
LEMMA NextSlices ==
  ASSUME NEW s \in StoreType, NEW t \in Tabs \cup {Null}
  PROVE  LET A == AllSlices(s) \cup {EmptySlice}
             p == NextParked(s, t)
         IN /\ NextScreen(s, t) \in A
            /\ \A k \in DOMAIN p : p[k] \in A
            /\ NoTab \in DOMAIN p => \/ p[NoTab] = EmptySlice
                                     \/ NoTab \in DOMAIN s.parked /\ p[NoTab] = s.parked[NoTab]
                                     \/ s.viewTabId = Null /\ p[NoTab] = s.screen
            /\ t = Null => NextScreen(s, t) = EmptySlice \/ (s.viewTabId = Null /\ NextScreen(s, t) = s.screen)
<1> DEFINE A == AllSlices(s) \cup {EmptySlice}
           p == NextParked(s, t)
<1>0. /\ Null \notin QueryTabs /\ Null \notin Keys /\ s.viewTabId \in Tabs \cup {Null} /\ DOMAIN s.parked \subseteq Keys
      /\ NoTab \notin Tabs /\ NoTab # Null
  BY StoreIs, Distinct
<1>1. s.screen \in A /\ EmptySlice \in A /\ \A k : Get(s.parked, k, EmptySlice) \in A
  BY DEF AllSlices, Get
<1>2. Untabbed(s) \in A
  BY <1>1, UntabbedIs DEF AllSlices
<1>3. \A k \in DOMAIN p : p[k] = Get(p, k, EmptySlice)
  BY DEF Get
<1> HIDE DEF A
<1>4. NextScreen(s, t) \in A
  BY <1>1, <1>2 DEF NextScreen
<1>5. t = Null => NextScreen(s, t) = EmptySlice \/ (s.viewTabId = Null /\ NextScreen(s, t) = s.screen)
  BY <1>0 DEF NextScreen, Adopts, Get
<1>6. CASE s.viewTabId = t
  <2>1. p = s.parked
    BY <1>6 DEF NextParked
  <2> QED
    BY <1>1, <1>3, <1>4, <1>5, <2>1 DEF A
<1>7. CASE s.viewTabId = Null /\ t # Null
  <2>1. /\ \A u : u # NoTab => Get(p, u, EmptySlice) = Get(s.parked, u, EmptySlice)
        /\ Get(p, NoTab, EmptySlice) = IF t \in QueryTabs THEN EmptySlice ELSE Untabbed(s)
    BY <1>7, NextParkedIs
  <2> HIDE DEF p
  <2>2. \A k \in DOMAIN p : p[k] \in A
    BY <1>1, <1>2, <1>3, <2>1
  <2>3. NoTab \in DOMAIN p => p[NoTab] = EmptySlice \/ p[NoTab] = Untabbed(s)
    BY <1>3, <2>1
  <2> QED
    BY <1>4, <1>5, <1>7, <2>2, <2>3, UntabbedIs DEF A, p
<1>8. CASE s.viewTabId # Null /\ s.viewTabId # t
  <2>1. \A u : Get(p, u, EmptySlice) = IF u = t \/ (u = NoTab /\ Adopts(s, t)) THEN EmptySlice
                                      ELSE IF u = s.viewTabId THEN s.screen ELSE Get(s.parked, u, EmptySlice)
    BY <1>8, NextParkedIs
  <2> HIDE DEF p
  <2>2. \A k \in DOMAIN p : p[k] \in A
    BY <1>1, <1>3, <2>1
  <2>3. NoTab # s.viewTabId
    BY <1>0
  <2>4. NoTab \in DOMAIN p => p[NoTab] = EmptySlice \/ p[NoTab] = Get(s.parked, NoTab, EmptySlice)
    BY <1>3, <2>1, <2>3
  <2>5. NoTab \in DOMAIN p => p[NoTab] = EmptySlice \/ (NoTab \in DOMAIN s.parked /\ p[NoTab] = s.parked[NoTab])
    BY <2>4 DEF Get
  <2> QED
    BY <1>4, <1>5, <2>2, <2>5 DEF A, p
<1> QED
  BY <1>6, <1>7, <1>8

\* Which tabs are still kept.
LEMMA NextKept ==
  ASSUME NEW s \in StoreType, NEW S, KeptI(s, S), NEW t \in Tabs \cup {Null}
  PROVE  LET p == NextParked(s, t) IN
         /\ S \subseteq DOMAIN p \cup {t}
         /\ DOMAIN p \subseteq DOMAIN s.parked \cup S \cup {NoTab}
<1>0. NoTab \notin Tabs /\ S \subseteq Tabs /\ (s.viewTabId = Null => S = {}) /\ (s.viewTabId # Null => s.viewTabId \in S)
      /\ S \subseteq DOMAIN s.parked \cup {s.viewTabId}
  BY Distinct DEF KeptI
<1>1. CASE s.viewTabId = t
  BY <1>0, <1>1 DEF NextParked
<1>2. CASE s.viewTabId = Null /\ t # Null
  BY <1>0, <1>2, NextParkedIs
<1>3. CASE s.viewTabId # Null /\ s.viewTabId # t
  <2>1. PICK D : D = {t} \cup IF Adopts(s, t) THEN {NoTab} ELSE {}
    OBVIOUS
  <2>2. DOMAIN NextParked(s, t) = (DOMAIN s.parked \cup {s.viewTabId}) \ D
    BY <1>3, <2>1, NextParkedIs
  <2>3. D \subseteq {t, NoTab}
    BY <2>1
  <2> QED
    BY <1>0, <1>3, <2>2, <2>3
<1> QED
  BY <1>1, <1>2, <1>3

-----------------------------------------------------------------------------
\* What a turn of the editor makes of the state, in one place.
TurnIs(ts, t, f) ==
  /\ f \in WorldType
  /\ CoreI(f.rs, f.b, f.s, ToSet(ts) \cup {NoTab})
  /\ Handed(run, f.rs, t) /\ (t \in Shown => SameHomes(run, f.rs))
  /\ \A u \in Tabs : u # t /\ Untouched(run, book, u) => Untouched(f.rs, f.b, u)
  /\ f.s.viewTabId = t /\ f.s.screen = NextScreen(store, t)
  /\ f.s.parked = Without(NextParked(store, t), Tabs \ ToSet(ts))
  /\ f.s.runTabId = LET n == IF t \in QueryTabs THEN t ELSE store.runTabId IN IF n \in ToSet(ts) THEN n ELSE Null

\* The tab the editor's next statement runs in is filled in.
Named(s, ts) ==
  LET query == SelectInSeq(ts, LAMBDA x : x \in QueryTabs) IN
  IF s.runTabId = Null /\ query # 0 THEN [s EXCEPT !.runTabId = ts[query]] ELSE s

LEMMA NamedIs ==
  ASSUME NEW s \in StoreType, NEW ts \in Seq(Tabs), s.runTabId \in ToSet(ts) \cup {Null}
  PROVE  LET n == Named(s, ts) IN
         /\ n \in StoreType /\ n.viewTabId = s.viewTabId /\ n.screen = s.screen /\ n.parked = s.parked
         /\ n.runTabId \in ToSet(ts) \cup {Null}
         /\ ToSet(ts) \cap QueryTabs # {} => n.runTabId # Null
<1> DEFINE query == SelectInSeq(ts, LAMBDA x : x \in QueryTabs)
<1>1. IF ToSet(ts) \cap QueryTabs = {} THEN query = 0 ELSE query # 0 /\ ts[query] \in ToSet(ts) \cap QueryTabs
  BY FirstQuery
<1>2. PICK i : i = query
  OBVIOUS
<1>3. Named(s, ts) = IF s.runTabId = Null /\ i # 0 THEN [s EXCEPT !.runTabId = ts[i]] ELSE s
  BY <1>2 DEF Named
<1>4. IF ToSet(ts) \cap QueryTabs = {} THEN i = 0 ELSE i # 0 /\ ts[i] \in ToSet(ts) \cap QueryTabs
  BY <1>1, <1>2
<1>5. Null \notin QueryTabs
  BY Distinct
<1>6. CASE s.runTabId = Null /\ i # 0
  <2>1. Named(s, ts) = [s EXCEPT !.runTabId = ts[i]] /\ ts[i] \in ToSet(ts) \cap QueryTabs
    BY <1>3, <1>4, <1>6
  <2> QED
    BY <1>5, <2>1 DEF StoreType
<1>7. CASE ~(s.runTabId = Null /\ i # 0)
  BY <1>3, <1>4, <1>7
<1> QED
  BY <1>6, <1>7

\* The world after a turn, and what of it becomes the state.
LEMMA TurnFollows ==
  ASSUME IInv, NEW ts, NEW t, Turned(ts, t)
  PROVE  \E f : /\ TurnIs(ts, t, f)
                /\ tabs' = ts /\ active' = t /\ store' = Named(f.s, ts) /\ book' = f.b /\ run' = f.rs
                /\ edits' = [x \in QueryTabs |->
                               IF x \notin ToSet(ts) \/ (store'.viewTabId = x /\ store'.screen.results # edits[x])
                               THEN Null ELSE edits[x]]
                /\ dialog' = dialog /\ asking' = asking /\ stops' = stops
<1>0. /\ TypeI /\ StripI /\ FreshI /\ EmptyI(run, book, store) /\ CoreI(run, book, store, Shown \cup {NoTab})
  BY DEF IInv
<1>1. World \in WorldType /\ World.s = store /\ World.b = book /\ World.rs = run
  BY <1>0 DEF World, WorldType, TypeI
<1>2. PICK w \in WorldType : w = World /\ w.s = store /\ w.b = book /\ w.rs = run
  BY <1>1
<1>3. ToSet(ts) \subseteq Shown \cup {t} /\ t \in Shown \cup fresh \cup {Null} /\ ts \in Seq(Tabs) /\ Null \notin Tabs
  BY Distinct DEF Turned
<1>4. IF t = Null THEN ToSet(ts) = {} ELSE t \in ToSet(ts)
  BY DEF Turned
<1>5. t = Null => \A q \in Runs : ~Flies(run, q)
  <2>1. DOMAIN run = Runs
    BY <1>0 DEF TypeI
  <2>2. t = Null => Flying(run) = {}
    BY DEF Turned
  <2> QED
    BY <2>1, <2>2 DEF Flying, Flies
<1>6. Shows1(w, Shown, t)
  BY <1>0, <1>2, <1>3, <1>5 DEF Shows1, FreshI, TypeI
<1>7. KeptI(w.s, Shown) /\ CoreI(w.rs, w.b, w.s, Shown \cup {NoTab})
  BY <1>0, <1>2 DEF StripI
<1>8. w.s.viewTabId = Null /\ NoTab \in DOMAIN w.s.parked => ~w.s.parked[NoTab].isExecuting
  BY <1>0, <1>2 DEF EmptyI
<1>9. PICK g : g = forgetTabs(showTab(w, t), ToSet(ts))
  OBVIOUS
<1>10. TurnIs(ts, t, g)
  <2>1. PICK live, S : live = ToSet(ts) /\ S = Shown
    OBVIOUS
  <2>2. /\ KeptI(w.s, S) /\ CoreI(w.rs, w.b, w.s, S \cup {NoTab}) /\ Shows1(w, S, t)
        /\ live \subseteq S \cup {t} /\ IF t = Null THEN live = {} ELSE t \in live
    BY <1>3, <1>4, <1>6, <1>7, <2>1
  <2>3. Followed(w, S, t, live, forgetTabs(showTab(w, t), live))
    BY <1>2, <1>8, <2>2, FollowStep
  <2>4. Followed(w, S, t, live, g)
    BY <1>9, <2>1, <2>3
  <2> QED
    BY <1>2, <2>1, <2>4 DEF TurnIs, Followed
<1>11. g = forgetTabs(showTab(World, t), ToSet(ts))
  BY <1>2, <1>9
<1>12. followEditor(ts, t)
  BY DEF Turned
<1>13. /\ tabs' = ts /\ active' = t /\ store' = Named(g.s, ts) /\ book' = g.b /\ run' = g.rs
       /\ edits' = [x \in QueryTabs |->
                               IF x \notin ToSet(ts) \/ (Named(g.s, ts).viewTabId = x /\ Named(g.s, ts).screen.results # edits[x])
                               THEN Null ELSE edits[x]]
       /\ dialog' = dialog /\ asking' = asking /\ stops' = stops
  BY <1>11, <1>12 DEF followEditor, Named
<1> QED
  BY <1>10, <1>13

-----------------------------------------------------------------------------
LEMMA TurnStep ==
  ASSUME IInv, ~ClosesOverRun, editorTurn
  PROVE  IInv'
<1>0. /\ TypeI /\ StripI /\ FreshI /\ CoreI(run, book, store, Shown \cup {NoTab})
      /\ WaitI(run, dialog, asking, Shown) /\ EmptyI(run, book, store)
      /\ ShowI(run, store) /\ NoTabI(run, store) /\ EditI(edits, store, Shown) /\ LossI(run, dialog, edits)
      /\ RunI(run, book, Shown \cup {NoTab}) /\ ListI(run, book, Shown \cup {NoTab}) /\ SpinI(run, book, store, Shown \cup {NoTab})
  BY DEF IInv, CoreI
<1>a. /\ NoTab \notin Tabs /\ NoTab # Null /\ Null \notin Keys /\ Null \notin Tabs /\ Null \notin Runs /\ Shown \subseteq Tabs
      /\ QueryTabs \subseteq Tabs /\ Null \notin QueryTabs /\ NoTab \notin QueryTabs
  BY <1>0, Distinct DEF StripI, KeptI
<1>b. Typed(run, book)
  BY <1>0, TypedIs DEF TypeI
<1>1. PICK ts, t : Turned(ts, t)
  <2>1. /\ tabs \in Seq(Tabs) /\ fresh \subseteq Tabs /\ fresh \cap Shown = {} /\ (active # Null => active \in Shown)
        /\ active = Null => Shown = {}
    BY <1>0 DEF TypeI, FreshI, StripI, KeptI
  <2> QED
    BY <2>1, Turns
<1>2. PICK f : /\ TurnIs(ts, t, f)
               /\ tabs' = ts /\ active' = t /\ store' = Named(f.s, ts) /\ book' = f.b /\ run' = f.rs
               /\ edits' = [x \in QueryTabs |->
                              IF x \notin ToSet(ts) \/ (store'.viewTabId = x /\ store'.screen.results # edits[x])
                              THEN Null ELSE edits[x]]
               /\ dialog' = dialog /\ asking' = asking /\ stops' = stops
  BY <1>1, TurnFollows
<1>3. /\ ts \in Seq(Tabs) /\ ToSet(ts) \subseteq Shown \cup {t} /\ t \in Shown \cup fresh \cup {Null}
      /\ IF t = Null THEN ToSet(ts) = {} /\ Flying(run) = {} ELSE t \in ToSet(ts)
      /\ ToSet(ts) \cap QueryTabs = {} => Shown \cap QueryTabs = {} \/ ~Modal
      /\ fresh' \subseteq fresh /\ (t \in fresh => t \notin fresh')
  BY <1>1 DEF Turned
<1>4. PICK live : live = ToSet(ts) /\ live = Shown'
  BY <1>2 DEF Shown
<1>5. /\ f.s \in StoreType /\ f.b \in BookType /\ f.rs \in [Runs -> RunType] /\ f.s.runTabId \in live \cup {Null}
  BY <1>2, <1>4 DEF TurnIs, WorldType
<1>6. /\ store' \in StoreType /\ store'.viewTabId = t /\ store'.screen = NextScreen(store, t)
      /\ store'.parked = Without(NextParked(store, t), Tabs \ live)
      /\ store'.runTabId \in live \cup {Null} /\ (live \cap QueryTabs # {} => store'.runTabId # Null)
      /\ store'.screen = f.s.screen /\ store'.parked = f.s.parked /\ store'.viewTabId = f.s.viewTabId
  <2>1. PICK n : n = Named(f.s, ts)
    OBVIOUS
  <2>2. /\ n \in StoreType /\ n.viewTabId = f.s.viewTabId /\ n.screen = f.s.screen /\ n.parked = f.s.parked
        /\ n.runTabId \in ToSet(ts) \cup {Null} /\ (ToSet(ts) \cap QueryTabs # {} => n.runTabId # Null)
    BY <1>3, <1>4, <1>5, <2>1, NamedIs
  <2> QED
    BY <1>2, <1>4, <2>1, <2>2 DEF TurnIs
<1>7. Handed(run, run', t) /\ (t \in Shown => SameHomes(run, run'))
  BY <1>2 DEF TurnIs
<1>8. \A u \in Tabs : u # t /\ Untouched(run, book, u) => Untouched(run', book', u)
  BY <1>2 DEF TurnIs
<1>9. t \in Tabs \cup {Null}
  BY <1>0, <1>3, <1>a DEF TypeI
<1>10. live \subseteq Tabs /\ live \subseteq Shown \cup {t} /\ (t = Null => live = {}) /\ (t # Null => t \in live)
  BY <1>3, <1>4, <1>9, <1>a
<1>11. Kept(run, run')
  BY <1>7 DEF Handed, Kept, Flown
<1>12. TypeI'
  <2>1. edits' \in [QueryTabs -> Runs \cup {Null}]
    BY <1>0, <1>2 DEF TypeI
  <2>2. tabs' \in Seq(Tabs) /\ active' \in Tabs \cup {Null} /\ fresh' \subseteq Tabs
    BY <1>0, <1>2, <1>3, <1>9 DEF TypeI
  <2> QED
    BY <1>0, <1>2, <1>5, <1>6, <2>1, <2>2 DEF TypeI
<1>13. DOMAIN store'.parked = DOMAIN NextParked(store, t) \ (Tabs \ live)
        /\ \A k \in DOMAIN store'.parked : store'.parked[k] = NextParked(store, t)[k]
  BY <1>6 DEF Without, Restrict
<1>14. /\ Shown \subseteq DOMAIN NextParked(store, t) \cup {t}
       /\ DOMAIN NextParked(store, t) \subseteq DOMAIN store.parked \cup Shown \cup {NoTab}
  <2>1. store \in StoreType /\ KeptI(store, Shown)
    BY <1>0 DEF TypeI, StripI
  <2> QED
    BY <1>9, <2>1, NextKept
<1>15. KeptI(store', Shown')
  BY <1>4, <1>6, <1>10, <1>13, <1>14 DEF KeptI
<1>16. StripI'
  BY <1>2, <1>4, <1>6, <1>15 DEF StripI
<1>17. FreshI'
  <2>1. ASSUME NEW u \in fresh' PROVE u \notin live /\ u \notin DOMAIN store'.parked /\ Untouched(run', book', u)
    <3>1. u \in fresh /\ u # t /\ u \in Tabs /\ u # NoTab
      BY <1>0, <1>3, <1>a, <2>1 DEF TypeI
    <3>2. u \notin Shown /\ u \notin DOMAIN store.parked /\ Untouched(run, book, u)
      BY <1>0, <3>1 DEF FreshI
    <3> QED
      BY <1>8, <1>10, <1>13, <1>14, <3>1, <3>2
  <2>2. \A c \in stops' : c.tab \notin fresh'
    BY <1>0, <1>2, <1>3 DEF FreshI
  <2> QED
    BY <1>4, <2>1, <2>2 DEF FreshI
<1>18. CoreI(run', book', store', Shown' \cup {NoTab})
  <2>1. CoreI(run', book', f.s, live \cup {NoTab})
    BY <1>2, <1>4 DEF TurnIs
  <2>2. \A u : Spin(store', u) <=> Spin(f.s, u)
    BY <1>6 DEF Spin, Pane, SliceOf
  <2>3. SpinI(run', book', store', live \cup {NoTab})
    BY <2>1, <2>2 DEF CoreI, SpinI
  <2> QED
    BY <1>4, <1>6, <2>1, <2>3 DEF CoreI
<1>19. WaitI(run', dialog', asking', Shown')
  <2>1. \A q \in Runs : /\ run'[q].phase = run[q].phase /\ run'[q].session = run[q].session /\ run'[q].kind = run[q].kind
                        /\ run'[q].own = run[q].own /\ (run[q].phase # "flying" => run'[q].tab = run[q].tab)
    BY <1>7 DEF Handed, Flies
  <2>2. dialog \in Runs \cup {Null} /\ asking \in Runs \cup {Null}
    BY <1>0 DEF TypeI
  <2>3. live \cap QueryTabs = {} => Shown \cap QueryTabs = {} \/ (dialog = Null /\ asking = Null)
    BY <1>3, <1>4 DEF Modal
  <2> QED
    BY <1>0, <1>2, <1>4, <2>1, <2>2, <2>3 DEF WaitI
<1>20. EmptyI(run', book', store')
  <2> SUFFICES ASSUME t = Null PROVE EmptyI(run', book', store')
    BY <1>6 DEF EmptyI
  <2>1. \A r \in Runs : ~Flies(run, r) /\ ~Flies(run', r)
    <3>1. DOMAIN run = Runs
      BY <1>0 DEF TypeI
    <3> QED
      BY <1>3, <1>7, <3>1 DEF Flying, Flies, Handed
  <2>2. NoTab \in DOMAIN store.parked => ~store.parked[NoTab].isExecuting
    <3>1. CASE store.viewTabId = Null
      BY <1>0, <3>1 DEF EmptyI
    <3>2. CASE store.viewTabId # Null
      <4>1. ~Busy(run, book, NoTab)
        BY <1>0, <1>b, <2>1 DEF Busy, ListI, ListedI, Typed
      <4>2. ~Spin(store, NoTab)
        BY <1>0, <4>1 DEF SpinI
      <4>3. store.viewTabId # NoTab
        BY <1>0, <1>a DEF StripI, KeptI
      <4> QED
        BY <3>2, <4>2, <4>3 DEF Spin, Pane, SliceOf
    <3> QED
      BY <3>1, <3>2
  <2>3. NoTab \in DOMAIN NextParked(store, t) => ~NextParked(store, t)[NoTab].isExecuting
    <3>1. CASE store.viewTabId = Null
      <4>1. NextParked(store, t) = store.parked
        BY <3>1 DEF NextParked
      <4> QED
        BY <2>2, <4>1
    <3>2. CASE store.viewTabId # Null
      <4>1. store \in StoreType
        BY <1>0 DEF TypeI
      <4>2. NoTab \in DOMAIN NextParked(store, t) =>
              NextParked(store, t)[NoTab] = EmptySlice
              \/ (NoTab \in DOMAIN store.parked /\ NextParked(store, t)[NoTab] = store.parked[NoTab])
        BY <1>9, <3>2, <4>1, NextSlices
      <4> QED
        BY <2>2, <4>2, EmptyIs
    <3> QED
      BY <3>1, <3>2
  <2> QED
    BY <1>13, <2>1, <2>3 DEF EmptyI
<1>21. ShowI(run', store') /\ NoTabI(run', store')
  <2> DEFINE A == AllSlices(store) \cup {EmptySlice}
  <2>0. store \in StoreType
    BY <1>0 DEF TypeI
  <2>1. PICK p : p = NextParked(store, t)
    OBVIOUS
  <2>2. /\ store'.screen \in A /\ \A k \in DOMAIN p : p[k] \in A
        /\ NoTab \in DOMAIN p => \/ p[NoTab] = EmptySlice
                                 \/ NoTab \in DOMAIN store.parked /\ p[NoTab] = store.parked[NoTab]
                                 \/ store.viewTabId = Null /\ p[NoTab] = store.screen
        /\ t = Null => store'.screen = EmptySlice \/ (store.viewTabId = Null /\ store'.screen = store.screen)
    <3>1. PICK s \in StoreType : s = store
      BY <2>0
    <3>2. PICK u \in Tabs \cup {Null} : u = t
      BY <1>9
    <3>3. p = NextParked(s, u) /\ store'.screen = NextScreen(s, u)
      BY <1>6, <2>1, <3>1, <3>2
    <3>4. /\ NextScreen(s, u) \in AllSlices(s) \cup {EmptySlice} /\ \A k \in DOMAIN p : p[k] \in AllSlices(s) \cup {EmptySlice}
          /\ NoTab \in DOMAIN p => \/ p[NoTab] = EmptySlice
                                   \/ NoTab \in DOMAIN s.parked /\ p[NoTab] = s.parked[NoTab]
                                   \/ s.viewTabId = Null /\ p[NoTab] = s.screen
          /\ u = Null => NextScreen(s, u) = EmptySlice \/ (s.viewTabId = Null /\ NextScreen(s, u) = s.screen)
      BY <3>3, NextSlices
    <3> QED
      BY <3>1, <3>2, <3>3, <3>4
  <2>3. DOMAIN store'.parked \subseteq DOMAIN p /\ \A k \in DOMAIN store'.parked : store'.parked[k] = p[k]
    BY <1>13, <2>1
  <2>4. \A x \in A : GoodSlice(run', x)
    BY <1>0, <1>11, SliceKept, EmptyGood DEF ShowI
  <2>5. \A x \in AllSlices(store') : x \in A
    BY <2>2, <2>3 DEF AllSlices
  <2>6. ShowI(run', store')
    BY <2>4, <2>5 DEF ShowI
  <2>7. Unnamed(run', EmptySlice)
    BY EmptyGood
  <2>8. store.screen \in AllSlices(store) /\ (NoTab \in DOMAIN store.parked => store.parked[NoTab] \in AllSlices(store))
    BY DEF AllSlices
  <2>9. /\ store.viewTabId = Null => Unnamed(run', store.screen)
        /\ NoTab \in DOMAIN store.parked => Unnamed(run', store.parked[NoTab])
    BY <1>0, <1>11, <2>8, SliceKept DEF NoTabI, ShowI
  <2>10. NoTabI(run', store')
    BY <1>6, <2>2, <2>3, <2>7, <2>9 DEF NoTabI
  <2> QED
    BY <2>6, <2>10
<1>22. EditI(edits', store', Shown')
  BY <1>2, <1>4, <1>6 DEF EditI
<1>23. LossI(run', dialog', edits')
  <2>1. \A u \in QueryTabs : edits[u] = Null => edits'[u] = Null
    BY <1>2
  <2>2. ASSUME NEW r \in Runs, Flies(run', r), run'[r].kind = "query", ~run'[r].agreed, AwaitedIn(run', r),
               run'[r].home \in QueryTabs
        PROVE  edits'[run'[r].home] = Null
    <3>1. Flies(run, r) /\ run[r].kind = "query" /\ ~run[r].agreed
      BY <1>7, <2>2 DEF Handed, Flies
    <3>2. AwaitedIn(run, r)
      BY <1>7, <2>2 DEF Handed, AwaitedIn
    <3>3. CASE run'[r].home = run[r].home
      BY <1>0, <2>1, <2>2, <3>1, <3>2, <3>3 DEF LossI
    <3>4. CASE run'[r].home # run[r].home
      <4>1. run'[r].home = t /\ t \notin Shown
        BY <1>7, <3>4 DEF Handed, SameHomes
      <4>2. edits[t] = Null
        BY <1>0, <2>2, <4>1 DEF EditI
      <4> QED
        BY <2>1, <2>2, <4>1, <4>2
    <3> QED
      BY <3>3, <3>4
  <2>3. ASSUME dialog' # Null, run'[dialog'].kind = "query", ~run'[dialog'].agreed
        PROVE  IF run'[dialog'].tab = NoTab THEN \A u \in QueryTabs : edits'[u] = Null ELSE edits'[run'[dialog'].tab] = Null
    <3>1. dialog \in Runs /\ dialog' = dialog /\ run[dialog].phase = "confirming" /\ run[dialog].tab \in QueryTabs \cup {NoTab}
      BY <1>0, <1>2, <2>3 DEF TypeI, WaitI
    <3>2. run'[dialog].tab = run[dialog].tab /\ run[dialog].kind = "query" /\ ~run[dialog].agreed
      <4>1. run'[dialog].kind = "query" /\ ~run'[dialog].agreed
        BY <2>3, <3>1
      <4>2. /\ run'[dialog].kind = run[dialog].kind /\ run'[dialog].agreed = run[dialog].agreed
            /\ run'[dialog].tab = run[dialog].tab \/ run[dialog].phase = "flying"
        BY <1>7, <3>1 DEF Handed, Flies
      <4> QED
        BY <3>1, <4>1, <4>2
    <3>3. IF run[dialog].tab = NoTab THEN \A u \in QueryTabs : edits[u] = Null ELSE edits[run[dialog].tab] = Null
      BY <1>0, <1>a, <3>1, <3>2 DEF LossI
    <3> QED
      BY <2>1, <3>1, <3>2, <3>3
  <2> QED
    BY <2>2, <2>3 DEF LossI
<1> QED
  BY <1>12, <1>16, <1>17, <1>18, <1>19, <1>20, <1>21, <1>22, <1>23 DEF IInv

LEMMA CancelDialogStep ==
  ASSUME IInv, cancelExecution
  PROVE  IInv'
<1>1. /\ dialog # Null /\ dialog' = Null /\ run' = [run EXCEPT ![dialog].phase = "done"]
      /\ UNCHANGED <<editorVars, store, book, asking, edits, stops>>
  BY DEF cancelExecution
<1>2. PICK r : r = dialog
  OBVIOUS
<1>3. r # asking
  BY <1>1, <1>2, WaitingApart
<1>4. run' = [run EXCEPT ![r].phase = "done"]
  BY <1>1, <1>2
<1>5. dialog' = (IF r = dialog THEN Null ELSE dialog) /\ asking' = IF r = asking THEN Null ELSE asking
  BY <1>1, <1>2, <1>3
<1>6. r \in {dialog, asking} /\ r # Null
  BY <1>1, <1>2
<1> HIDE <1>2
<1> QED
  BY <1>1, <1>4, <1>5, <1>6, DeclineStep

LEMMA Initial == Init => IInv
<1> SUFFICES ASSUME Init PROVE IInv
  OBVIOUS
<1>0. /\ FirstTab \in QueryTabs /\ QueryTabs \subseteq Tabs /\ NoTab \notin Tabs /\ Null \notin Tabs /\ NoTab # Null
      /\ NoTab \in Keys /\ Null \notin Runs /\ Null \notin QueryTabs /\ Tabs \subseteq Keys
  BY Distinct, TabsAssumption
<1>1. /\ tabs = <<FirstTab>> /\ active = FirstTab /\ fresh = Tabs \ {FirstTab}
      /\ store = [viewTabId |-> FirstTab, runTabId |-> FirstTab, screen |-> EmptySlice, parked |-> << >>]
      /\ book = [generations |-> << >>, activeExecutions |-> << >>, latestStart |-> << >>,
                 runCount |-> 0, lastStartedTab |-> NoTab]
      /\ run = [r \in Runs |-> Idle]
      /\ dialog = Null /\ asking = Null /\ edits = [t \in QueryTabs |-> Null] /\ stops = {}
  BY DEF Init
<1>2. Shown = {FirstTab}
  BY <1>1 DEF Shown, ToSet
<1>3. PICK e : e = << >>
  OBVIOUS
<1>4. DOMAIN e = {} /\ \A K, V : e \in Maps(K, V)
  <2>1. DOMAIN e = {} /\ \A V : e \in [{} -> V]
    BY <1>3
  <2> QED
    BY <2>1 DEF Maps
<1>5. /\ store.viewTabId = FirstTab /\ store.runTabId = FirstTab /\ store.screen = EmptySlice /\ store.parked = e
      /\ book.generations = e /\ book.activeExecutions = e /\ book.latestStart = e /\ book.runCount = 0
      /\ book.lastStartedTab = NoTab
  BY <1>1, <1>3
<1>6. store \in StoreType /\ book \in BookType
  <2>1. store \in StoreType
    BY <1>0, <1>1, <1>3, <1>4, EmptyIs DEF StoreType
  <2>2. book \in BookType
    BY <1>0, <1>1, <1>3, <1>4 DEF BookType
  <2> QED
    BY <2>1, <2>2
<1>7. \A k : Generation(book, k) = 0 /\ At(book, k) = Null /\ LatestStart(book, k) = 0
  BY <1>4, <1>5 DEF Generation, At, LatestStart
<1>8. \A r \in Runs : /\ run[r].phase = "idle" /\ run[r].tab = NoTab /\ run[r].home = NoTab /\ run[r].session = Null
                      /\ run[r].seq = 0
  BY <1>1 DEF Idle
<1>9. run \in [Runs -> RunType]
  <2>1. Idle \in RunType
    BY <1>0 DEF Idle, RunType, Phases
  <2> QED
    BY <1>1, <2>1
<1>10. TypeI
  <2>1. tabs \in Seq(Tabs)
    BY <1>0, <1>1
  <2> QED
    BY <1>0, <1>1, <1>6, <1>9, <2>1 DEF TypeI
<1>11. StripI
  BY <1>0, <1>1, <1>2, <1>5 DEF StripI, KeptI
<1>12. FreshI
  <2>1. \A t \in Tabs : Untouched(run, book, t)
    BY <1>0, <1>7, <1>8 DEF Untouched
  <2> QED
    BY <1>1, <1>2, <1>4, <1>5, <2>1 DEF FreshI
<1>13. CoreI(run, book, store, Shown \cup {NoTab})
  <2>1. \A r \in Runs : ~Flies(run, r) /\ ~Flown(run, r)
    BY <1>8 DEF Flies, Flown
  <2>2. \A t : ~Busy(run, book, t)
    BY <1>7 DEF Busy
  <2>3. \A t : ~Spin(store, t)
    <3>1. \A t : Pane(store, t) = EmptySlice
      BY <1>0, <1>4, <1>5 DEF Pane, SliceOf
    <3> QED
      BY <3>1, EmptyIs DEF Spin
  <2>4. RunI(run, book, Shown \cup {NoTab})
    BY <1>5, <1>8, <2>1 DEF RunI
  <2>5. ListI(run, book, Shown \cup {NoTab})
    BY <1>7 DEF ListI
  <2>6. GenI(run, book, Shown \cup {NoTab}, store.viewTabId)
    BY <2>1 DEF GenI
  <2>7. OrderI(run, book, Shown \cup {NoTab})
    BY <1>7, <1>8 DEF OrderI
  <2>8. SpinI(run, book, store, Shown \cup {NoTab})
    BY <2>2, <2>3 DEF SpinI
  <2> QED
    BY <2>4, <2>5, <2>6, <2>7, <2>8 DEF CoreI
<1>14. WaitI(run, dialog, asking, Shown)
  BY <1>1 DEF WaitI
<1>15. EmptyI(run, book, store)
  BY <1>0, <1>5 DEF EmptyI
<1>16. ShowI(run, store) /\ NoTabI(run, store)
  <2>1. AllSlices(store) = {EmptySlice}
    BY <1>4, <1>5 DEF AllSlices
  <2> QED
    BY <1>0, <1>4, <1>5, <2>1, EmptyGood DEF ShowI, NoTabI
<1>17. EditI(edits, store, Shown)
  BY <1>1 DEF EditI
<1>18. LossI(run, dialog, edits)
  BY <1>1 DEF LossI
<1> QED
  BY <1>10, <1>11, <1>12, <1>13, <1>14, <1>15, <1>16, <1>17, <1>18 DEF IInv

LEMMA Stays == IInv /\ UNCHANGED vars => IInv'
BY DEF vars, IInv, TypeI, StripI, FreshI, Shown

\* The inductive invariant is one.
LEMMA Steps ==
  ASSUME IInv, ~ClosesOverRun, [Next]_vars
  PROVE  IInv'
<1>1. CASE editorTurn
  BY <1>1, TurnStep
<1>2. ASSUME NEW r \in Runs, executeQuery(r) \/ executeExplain(r) \/ goToPage(r) \/ setExplainFormat(r) \/ Answer(r)
      PROVE  IInv'
  BY <1>2, QueryStep, ExplainStep, PageStep, FormatStep, AnswerStep
<1>3. CASE answer \/ confirmExecution \/ cancelExecution
  BY <1>3, AnswerPrompt, ConfirmedStep, CancelDialogStep
<1>4. CASE cancelActiveQuery \/ CancelAnswered
  BY <1>4, CancelStep, CancelAnsweredStep
<1>5. CASE EditGrid \/ dropForeignResults
  BY <1>5, EditStep, DropStep
<1>6. CASE UNCHANGED vars
  BY <1>6, Stays
<1> QED
  BY <1>1, <1>2, <1>3, <1>4, <1>5, <1>6 DEF Next, editorTurn

LEMMA Invariance == ASSUME ~ClosesOverRun PROVE Spec => []IInv
<1>1. IInv /\ [Next]_vars => IInv'
  BY Steps
<1> QED
  BY <1>1, Initial, PTL DEF Spec

\* What the invariant says of a state, in the terms the properties use.
LEMMA Facts ==
  ASSUME IInv
  PROVE  /\ TypeI /\ Live = Shown \cup {NoTab} /\ Typed(run, book) /\ CoreI(run, book, store, Live)
         /\ ListI(run, book, Live) /\ GenI(run, book, Live, store.viewTabId) /\ OrderI(run, book, Live)
         /\ SpinI(run, book, store, Live) /\ RunI(run, book, Live)
         /\ store \in StoreType /\ book \in BookType /\ run \in [Runs -> RunType]
         /\ \A r : r \in Flying(run) <=> r \in Runs /\ Flies(run, r)
         /\ store.viewTabId = Null => Live = {NoTab}
         /\ store.viewTabId # Null => store.viewTabId \in Live
<1>1. TypeI /\ StripI /\ CoreI(run, book, store, Shown \cup {NoTab})
  BY DEF IInv
<1>2. Live = Shown \cup {NoTab}
  BY DEF Live, Shown
<1>3. store \in StoreType /\ book \in BookType /\ run \in [Runs -> RunType]
  BY <1>1 DEF TypeI
<1>4. \A r : r \in Flying(run) <=> r \in Runs /\ Flies(run, r)
  BY <1>3 DEF Flying, Flies
<1> QED
  BY <1>1, <1>2, <1>3, <1>4, TypedIs DEF CoreI, StripI, KeptI

\* What a tab's slot is, of any store.
SlotOf(s, t) == IF s.viewTabId = Null /\ t = NoTab THEN Untabbed(s) ELSE SliceOf(s, t)

LEMMA SlotIs ==
  ASSUME NEW s \in StoreType, NEW t, s.viewTabId = Null => t = NoTab
  PROVE  /\ s.viewTabId # Null => SlotOf(s, t) = Pane(s, t)
         /\ s.viewTabId = Null => \/ SlotOf(s, t) = Pane(s, t)
                                  \/ Pane(s, t) = EmptySlice /\ NoTab \in DOMAIN s.parked /\ SlotOf(s, t) = s.parked[NoTab]
         /\ SlotOf(s, t) \in AllSlices(s) \cup {EmptySlice}
<1>1. s.viewTabId # Null => SlotOf(s, t) = Pane(s, t)
  BY DEF SlotOf, Pane
<1>2. s.viewTabId = Null => SlotOf(s, t) = Untabbed(s) /\ Pane(s, t) = s.screen
  BY DEF SlotOf, Pane
<1>3. SliceOf(s, t) \in AllSlices(s) \cup {EmptySlice}
  BY DEF SliceOf, AllSlices
<1>4. Untabbed(s) \in AllSlices(s)
  BY UntabbedIs DEF AllSlices
<1>5. SlotOf(s, t) \in AllSlices(s) \cup {EmptySlice}
  BY <1>3, <1>4 DEF SlotOf
<1> QED
  BY <1>1, <1>2, <1>5, UntabbedIs

LEMMA SlotSpins ==
  ASSUME IInv, NEW t \in Live
  PROVE  Slot(t).isExecuting <=> Busy(run, book, t)
<1>1. /\ store \in StoreType /\ SpinI(run, book, store, Live) /\ (store.viewTabId = Null => Live = {NoTab})
      /\ EmptyI(run, book, store)
  BY Facts DEF IInv
<1>2. Slot(t).isExecuting <=> Pane(store, t).isExecuting
  <2>1. Slot(t) = SlotOf(store, t)
    BY DEF Slot, SlotOf
  <2> QED
    BY <1>1, <2>1, SlotIs, EmptyIs DEF EmptyI
<1> QED
  BY <1>1, <1>2 DEF SpinI, Spin

\* A current run of an open tab is listed.
LEMMA CurrentLists ==
  ASSUME IInv, NEW r \in Runs, Flies(run, r), isCurrent(book, run, r), run[r].tab \in Live
  PROVE  Lists(run, book, r) /\ ListedI(run, book, Live, run[r].key, r) /\ Busy(run, book, run[r].tab)
<1>1. /\ SideI(run, book, r) /\ OwnI(run, book, Live, store.viewTabId, r) /\ FlyingI(run, r, Live)
      /\ Typed(run, book) /\ ListI(run, book, Live) /\ run[r].own \in BOOLEAN
  BY Facts DEF GenI, RunI, Typed
<1>2. Lists(run, book, r)
  <2>1. CASE run[r].own
    BY <1>1, <2>1 DEF OwnI, FlyingI, isCurrent
  <2>2. CASE ~run[r].own
    BY <1>1, <2>2 DEF SideI, FlyingI, isCurrent
  <2> QED
    BY <2>1, <2>2
<1>3. At(book, run[r].key) = r /\ r # Null /\ run[r].key \in Keys \cup Runs
  BY <1>1, <1>2, Distinct DEF Lists, Typed
<1>4. ListedI(run, book, Live, run[r].key, r)
  BY <1>1, <1>3 DEF ListI
<1> QED
  BY <1>2, <1>3, <1>4 DEF Busy

\* A run is waited for exactly while it is current, where its tab is open.
LEMMA AwaitedIs ==
  ASSUME IInv, NEW r \in Runs, Flies(run, r)
  PROVE  /\ Awaited(r) /\ run[r].home \in Live => isCurrent(book, run, r) /\ run[r].tab = run[r].home
         /\ isCurrent(book, run, r) /\ run[r].tab \in Live => Awaited(r) /\ run[r].home = run[r].tab
<1>0. /\ Typed(run, book) /\ CoreI(run, book, store, Live) /\ OrderI(run, book, Live) /\ FlyingI(run, r, Live)
  BY Facts DEF RunI
<1>1. Awaited(r) <=> AwaitedIn(run, r)
  BY DEF Awaited, AwaitedIn
<1>2. ASSUME AwaitedIn(run, r), run[r].home \in Live
      PROVE  isCurrent(book, run, r) /\ run[r].tab = run[r].home
  <2>1. ListedI(run, book, Live, run[r].key, r) /\ run[r].tab = run[r].home
    BY <1>0, <1>2, AwaitedLists
  <2>2. Generation(book, run[r].key) = run[r].generation
    BY <1>2, <2>1 DEF ListedI
  <2>3. ASSUME ~run[r].own PROVE LatestStart(book, run[r].tab) = run[r].seq
    <3>1. run[r].seq <= LatestStart(book, run[r].home) /\ run[r].seq > 0 /\ run[r].seq \in Nat
          /\ LatestStart(book, run[r].home) \in Nat
      BY <1>0, <1>2 DEF OrderI, FlyingI, Typed
    <3>2. PICK q \in Runs : run[q].home = run[r].home /\ run[q].seq = LatestStart(book, run[r].home)
      BY <1>0, <1>2, <3>1 DEF OrderI
    <3>3. ~(run[q].seq > run[r].seq)
      BY <1>2, <2>3, <3>2 DEF AwaitedIn
    <3> QED
      BY <2>1, <3>1, <3>2, <3>3
  <2> QED
    BY <1>2, <2>1, <2>2, <2>3 DEF isCurrent, AwaitedIn
<1>3. ASSUME isCurrent(book, run, r), run[r].tab \in Live
      PROVE  AwaitedIn(run, r) /\ run[r].home = run[r].tab
  <2>1. ListedI(run, book, Live, run[r].key, r)
    BY <1>3, CurrentLists
  <2>2. ~run[r].cancelled /\ ~run[r].orphaned /\ run[r].home = run[r].tab
    BY <1>3, <2>1 DEF ListedI, isCurrent
  <2>3. ASSUME NEW q \in Runs, run[q].seq > run[r].seq, run[q].home = run[r].home PROVE run[r].own /\ ~run[q].own
    <3>0. run[q].seq \in Nat /\ run[r].seq \in Nat /\ LatestStart(book, run[r].tab) \in Nat
      BY <1>0 DEF Typed
    <3>1. CASE run[r].own
      BY <1>3, <2>1, <2>3, <3>0, <3>1 DEF ListedI
    <3>2. CASE ~run[r].own
      <4>1. LatestStart(book, run[r].tab) = run[r].seq
        BY <1>3, <3>2 DEF isCurrent
      <4>2. run[q].seq > 0 /\ run[q].home = run[r].tab
        BY <2>2, <2>3, <3>0
      <4>3. run[q].seq <= LatestStart(book, run[r].tab)
        BY <1>0, <1>3, <4>2 DEF OrderI
      <4> QED
        BY <2>3, <3>0, <4>1, <4>3
    <3> QED
      BY <3>1, <3>2
  <2> QED
    BY <2>2, <2>3 DEF AwaitedIn
<1> QED
  BY <1>1, <1>2, <1>3

-----------------------------------------------------------------------------
\* The spinner of a slot says that something it waits for runs.
LEMMA Spinners == IInv => SpinnerMeansRunning /\ AwaitedRunSpins
<1> SUFFICES ASSUME IInv PROVE SpinnerMeansRunning /\ AwaitedRunSpins
  OBVIOUS
<1>0. Typed(run, book) /\ ListI(run, book, Live) /\ \A r : r \in Flying(run) <=> r \in Runs /\ Flies(run, r)
  BY Facts
<1>1. ASSUME NEW t \in Live, Slot(t).isExecuting
      PROVE  \E r \in Flying(run) : run[r].tab = t /\ ~run[r].cancelled
  <2>1. PICK k \in Keys \cup Runs : At(book, k) # Null /\ run[At(book, k)].tab = t
    BY <1>1, SlotSpins DEF Busy
  <2>2. At(book, k) \in Runs /\ Flies(run, At(book, k)) /\ ~run[At(book, k)].cancelled
    BY <1>0, <2>1 DEF ListI, ListedI, Typed
  <2> QED
    BY <1>0, <2>1, <2>2
<1>2. ASSUME NEW r \in Flying(run), isCurrent(book, run, r), run[r].tab \in Live
      PROVE  Slot(run[r].tab).isExecuting
  BY <1>0, <1>2, CurrentLists, SlotSpins
<1> QED
  BY <1>1, <1>2 DEF SpinnerMeansRunning, AwaitedRunSpins

LEMMA Types == IInv => TypeOK
<1> SUFFICES ASSUME IInv PROVE TypeOK
  OBVIOUS
<1>0. /\ TypeI /\ Typed(run, book) /\ ListI(run, book, Live) /\ \A r : r \in Flying(run) <=> r \in Runs /\ Flies(run, r)
      /\ store \in StoreType /\ book \in BookType /\ run \in [Runs -> RunType]
  BY Facts
<1>1. store.viewTabId = active
  BY DEF IInv, StripI
<1>2. /\ store.runTabId \in QueryTabs \cup {Null} /\ store.screen \in Slices
      /\ DOMAIN store.parked \subseteq Keys /\ Range(store.parked) \subseteq Slices
  BY <1>0, StoreIs DEF Range
<1>3. /\ DOMAIN book.generations \subseteq Keys \cup Runs /\ Range(book.generations) \subseteq Nat
      /\ DOMAIN book.activeExecutions \subseteq Keys \cup Runs
  BY <1>0, BookIs DEF Range
<1>4. Listed(book) \subseteq Flying(run)
  BY <1>0, ListedAt DEF ListI, ListedI, Typed
<1>5. \A r \in Runs : run[r].phase \in Phases /\ run[r].tab \in Keys
  BY <1>0, RunTypes
<1> QED
  BY <1>0, <1>1, <1>2, <1>3, <1>4, <1>5 DEF TypeOK, TypeI

\* A step that ends no run in flight.
EndsNone == \A r \in Runs : Flies(run, r) => run'[r].phase # "done"

LEMMA NotFlying ==
  ASSUME IInv
  PROVE  /\ run \in [Runs -> RunType] /\ dialog \in Runs \cup {Null} /\ asking \in Runs \cup {Null} /\ Null \notin Runs
         /\ \A q \in {dialog, asking} \cap Runs : ~Flies(run, q)
<1>1. TypeI /\ WaitI(run, dialog, asking, Shown)
  BY DEF IInv
<1>2. Null \notin Runs
  BY Distinct
<1> QED
  BY <1>1, <1>2 DEF TypeI, WaitI, Flies

LEMMA StartEndsNone ==
  ASSUME IInv, NEW q \in Runs, ~Flies(run, q), NEW g, NEW session, NEW kind, NEW agreed, Start(q, g, session, kind, agreed)
  PROVE  EndsNone
<1>1. run \in [Runs -> RunType]
  BY NotFlying
<1>2. \A x \in Runs : x # q => run'[x] = run[x]
  BY <1>1 DEF Start
<1> QED
  BY <1>2 DEF EndsNone, Flies

LEMMA WaitEndsNone ==
  ASSUME IInv, NEW q \in Runs, ~Flies(run, q), NEW old \in {dialog, asking}, NEW phase, NEW g, NEW session, NEW kind, NEW agreed,
         Wait(q, phase, old, g, session, kind, agreed)
  PROVE  EndsNone
<1>1. \A x \in Runs : x # q /\ x # old => run'[x] = run[x]
  BY DEF Wait
<1>2. old \in Runs => ~Flies(run, old)
  BY NotFlying
<1> QED
  BY <1>1, <1>2 DEF EndsNone, Flies

LEMMA DoneEndsNone ==
  ASSUME IInv, NEW q \in Runs, ~Flies(run, q), run' = [run EXCEPT ![q].phase = "done"]
  PROVE  EndsNone
<1>1. run \in [Runs -> RunType]
  BY NotFlying
<1>2. \A x \in Runs : x # q => run'[x] = run[x]
  BY <1>1
<1> QED
  BY <1>2 DEF EndsNone, Flies

LEMMA GateEndsNone ==
  ASSUME IInv, NEW q \in Runs, ~Flies(run, q), NEW g, NEW session, NEW agreed, Gate(q, g, session, agreed)
  PROVE  EndsNone
<1>1. CASE Start(q, g, session, "query", agreed)
  BY <1>1, StartEndsNone
<1>2. CASE Wait(q, "confirming", dialog, g, session, "query", agreed)
  BY <1>2, WaitEndsNone
<1> QED
  BY <1>1, <1>2 DEF Gate

LEMMA TurnEndsNone ==
  ASSUME IInv, ~ClosesOverRun, editorTurn
  PROVE  EndsNone
<1>0. TypeI /\ StripI /\ FreshI
  BY DEF IInv
<1>1. PICK ts, t : Turned(ts, t)
  <2>1. /\ tabs \in Seq(Tabs) /\ fresh \subseteq Tabs /\ fresh \cap Shown = {} /\ (active # Null => active \in Shown)
        /\ active = Null => Shown = {}
    BY <1>0 DEF TypeI, FreshI, StripI, KeptI
  <2> QED
    BY <2>1, Turns
<1>2. PICK f : TurnIs(ts, t, f) /\ run' = f.rs
  BY <1>1, TurnFollows
<1> QED
  BY <1>2 DEF TurnIs, Handed, EndsNone, Flies

\* Only an answer ends a run that is in flight.
LEMMA OnlyAnswers ==
  ASSUME IInv, ~ClosesOverRun, [Next]_vars, NEW r \in Runs, Flies(run, r), run'[r].phase = "done"
  PROVE  Answer(r)
<1>0. /\ run \in [Runs -> RunType] /\ dialog \in Runs \cup {Null} /\ asking \in Runs \cup {Null} /\ Null \notin Runs
      /\ \A q \in {dialog, asking} \cap Runs : ~Flies(run, q)
  BY NotFlying
<1>1. ~EndsNone
  BY DEF EndsNone
<1>2. ~editorTurn
  BY <1>1, TurnEndsNone
<1>3. ASSUME NEW q \in Runs, executeQuery(q) PROVE FALSE
  <2>1. ~Flies(run, q)
    BY <1>3 DEF executeQuery, Idles, Flies
  <2>2. PICK g, session : \/ Wait(q, "asking", asking, g, session, "query", FALSE)
                          \/ Gate(q, g, session, FALSE)
    BY <1>3 DEF executeQuery
  <2> QED
    BY <1>1, <2>1, <2>2, WaitEndsNone, GateEndsNone
<1>4. ASSUME NEW q \in Runs, executeExplain(q) PROVE FALSE
  <2>1. ~Flies(run, q)
    BY <1>4 DEF executeExplain, Idles, Flies
  <2>2. PICK g, session : \/ Start(q, g, session, "explain", FALSE)
                          \/ Wait(q, "confirming", dialog, g, session, "explain", FALSE)
                          \/ run' = [run EXCEPT ![q].phase = "done"]
    BY <1>4 DEF executeExplain
  <2> QED
    BY <1>1, <2>1, <2>2, StartEndsNone, WaitEndsNone, DoneEndsNone
<1>5. ASSUME NEW q \in Runs, goToPage(q) \/ setExplainFormat(q) PROVE FALSE
  <2>1. ~Flies(run, q)
    BY <1>5 DEF goToPage, setExplainFormat, Idles, Flies
  <2>2. PICK g, session, kind : Start(q, g, session, kind, FALSE)
    BY <1>5 DEF goToPage, setExplainFormat
  <2> QED
    BY <1>1, <2>1, <2>2, StartEndsNone
<1>6. ASSUME answer PROVE FALSE
  <2>1. asking \in Runs /\ ~Flies(run, asking)
    BY <1>0, <1>6 DEF answer
  <2>2. PICK g, session : Gate(asking, g, session, TRUE) \/ run' = [run EXCEPT ![asking].phase = "done"]
    BY <1>6 DEF answer
  <2> QED
    BY <1>1, <2>1, <2>2, GateEndsNone, DoneEndsNone
<1>7. ASSUME confirmExecution PROVE FALSE
  <2>1. dialog \in Runs /\ ~Flies(run, dialog)
    BY <1>0, <1>7 DEF confirmExecution
  <2>2. PICK g, session, kind, agreed : Start(dialog, g, session, kind, agreed)
    BY <1>7 DEF confirmExecution
  <2> QED
    BY <1>1, <2>1, <2>2, StartEndsNone
<1>8. ASSUME cancelExecution PROVE FALSE
  <2>1. dialog \in Runs /\ ~Flies(run, dialog) /\ run' = [run EXCEPT ![dialog].phase = "done"]
    BY <1>0, <1>8 DEF cancelExecution
  <2> QED
    BY <1>1, <2>1, DoneEndsNone
<1>9. ASSUME cancelActiveQuery PROVE FALSE
  <2>1. PICK q : run' = IF q = Null THEN run ELSE [run EXCEPT ![q].cancelled = TRUE]
    BY <1>9 DEF cancelActiveQuery
  <2>2. run'[r].phase = run[r].phase
    <3>1. CASE q = Null \/ q # r
      BY <1>0, <2>1, <3>1
    <3>2. CASE q # Null /\ q = r
      <4>1. run[r] \in RunType
        BY <1>0
      <4>2. run'[r] = [run[r] EXCEPT !.cancelled = TRUE]
        BY <1>0, <2>1, <3>2
      <4> QED
        BY <4>1, <4>2 DEF RunType
    <3> QED
      BY <3>1, <3>2
  <2> QED
    BY <2>2 DEF Flies
<1>10. ASSUME CancelAnswered \/ EditGrid \/ dropForeignResults \/ UNCHANGED vars PROVE FALSE
  <2>1. run' = run
    BY <1>10 DEF CancelAnswered, EditGrid, dropForeignResults, vars
  <2> QED
    BY <2>1 DEF Flies
<1>11. PICK q \in Runs : Answer(q)
  BY <1>2, <1>3, <1>4, <1>5, <1>6, <1>7, <1>8, <1>9, <1>10 DEF Next, editorTurn
<1>12. run' = [run EXCEPT ![q].phase = "done"]
  BY <1>11 DEF Answer
<1>13. q = r
  BY <1>0, <1>12 DEF Flies
<1> QED
  BY <1>11, <1>13

\* A slice that does not show r, patched with what does not, does not.
LEMMA PatchShows ==
  ASSUME NEW x \in Slices, NEW p, Partial(p), NEW r
  PROVE  /\ ~Shows(x, r) /\ (\A f \in DOMAIN p \cap {"results", "plan", "error"} : p[f] # r) => ~Shows(Patch(x, p), r)
         /\ (\E f \in DOMAIN p \cap {"results", "plan", "error"} : p[f] = r) => Shows(Patch(x, p), r)
<1>1. PICK y : y = Patch(x, p)
  OBVIOUS
<1>2. y \in Slices /\ \A f \in Fields : y[f] = IF f \in DOMAIN p THEN p[f] ELSE x[f]
  BY <1>1, PatchIs
<1>3. /\ x["results"] = x.results /\ x["plan"] = x.plan /\ x["error"] = x.error
      /\ y["results"] = y.results /\ y["plan"] = y.plan /\ y["error"] = y.error
  BY <1>2, SliceTypes
<1>4. {"results", "plan", "error"} \subseteq Fields
  BY DEF Fields
<1>5. ~Shows(x, r) /\ (\A f \in DOMAIN p \cap {"results", "plan", "error"} : p[f] # r) => ~Shows(y, r)
  BY <1>2, <1>3, <1>4 DEF Shows
<1>6. (\E f \in DOMAIN p \cap {"results", "plan", "error"} : p[f] = r) => Shows(y, r)
  BY <1>2, <1>3, <1>4 DEF Shows
<1> QED
  BY <1>1, <1>5, <1>6

\* A run in flight is shown nowhere.
LEMMA Unshown ==
  ASSUME IInv, NEW r \in Runs, Flies(run, r)
  PROVE  \A x \in AllSlices(store) \cup {EmptySlice} : x \in Slices /\ ~Shows(x, r)
<1>1. ShowI(run, store) /\ store \in StoreType
  BY DEF IInv, TypeI
<1>2. \A x \in AllSlices(store) : x \in Slices /\ ~Shows(x, r)
  BY <1>1, StoreSlices DEF ShowI, GoodSlice, Shows, Flies
<1>3. EmptySlice \in Slices /\ ~Shows(EmptySlice, r)
  <2>1. EmptySlice.results = Null /\ EmptySlice.plan = Null /\ EmptySlice.error = Null
    BY DEF EmptySlice
  <2> QED
    BY <2>1, EmptyIs, Distinct DEF Shows
<1> QED
  BY <1>2, <1>3

\* An answer that is waited for where its tab is open is what the tab shows then.
LEMMA Landed1 ==
  ASSUME IInv, NEW r \in Runs, Answer(r), isCurrent(book, run, r), run[r].tab \in Live
  PROVE  Shows(SlotOf(store', run[r].tab), r)
<1> DEFINE t == run[r].tab
<1>0. /\ store \in StoreType /\ (store.viewTabId = Null => Live = {NoTab}) /\ r # Null /\ Flies(run, r) /\ t \in Keys
  BY Facts, AnswerLands, RunTypes, Distinct
<1>1. PICK p \in AnswerSlices(r) : store' = tabWriter(store, t, p)
  BY AnswerWrites
<1>2. Partial(p) /\ \E f \in DOMAIN p \cap {"results", "plan", "error"} : p[f] = r
  BY AnswerSliceIs
<1>3. t \in Live /\ (store.viewTabId = Null => t = NoTab /\ Live = {NoTab})
  BY <1>0
<1> HIDE DEF t
<1>4. store' \in StoreType /\ store'.viewTabId = store.viewTabId
  BY <1>0, <1>1, <1>2, WriterIs
<1>5. Pane(store', t) = Patch(Pane(store, t), p)
  <2>1. PICK L : L = Live
    OBVIOUS
  <2>2. Pane(tabWriter(store, t, p), t) = Patch(Pane(store, t), p)
    BY <1>0, <1>2, <1>3, <2>1, WriterPane
  <2> QED
    BY <1>1, <2>2
<1>6. Pane(store, t) \in Slices
  <2>1. store.screen \in Slices
    BY <1>0, StoreIs
  <2>2. SliceOf(store, t) \in Slices
    BY <1>0, <2>1, StoreIs, EmptyIs DEF SliceOf
  <2> QED
    BY <2>1, <2>2 DEF Pane
<1>7. Shows(Pane(store', t), r)
  BY <1>2, <1>5, <1>6, PatchShows
<1>8. Pane(store', t) # EmptySlice
  <2>1. EmptySlice.results = Null /\ EmptySlice.plan = Null /\ EmptySlice.error = Null
    BY DEF EmptySlice
  <2> QED
    BY <1>0, <1>7, <2>1 DEF Shows
<1>9. SlotOf(store', t) = Pane(store', t)
  BY <1>3, <1>4, <1>8, SlotIs
<1> QED
  BY <1>7, <1>9 DEF t

\* An answer that is not, or whose tab closed, is shown in no open one.
LEMMA Dropped ==
  ASSUME IInv, NEW r \in Runs, Answer(r), ~(isCurrent(book, run, r) /\ run[r].tab \in Live), NEW u \in Live
  PROVE  ~Shows(SlotOf(store', u), r)
<1> DEFINE t == run[r].tab
<1>0. /\ store \in StoreType /\ (store.viewTabId = Null => Live = {NoTab}) /\ r # Null /\ Flies(run, r) /\ t \in Keys
      /\ (store.viewTabId = Null => t = NoTab) /\ NoTab \in Live
  <2>1. EmptyI(run, book, store)
    BY DEF IInv
  <2> QED
    BY <2>1, Facts, AnswerLands, RunTypes, Distinct DEF EmptyI
<1>1. \A x \in AllSlices(store) \cup {EmptySlice} : x \in Slices /\ ~Shows(x, r)
  BY <1>0, Unshown
<1>2. CASE store' = store
  <2>1. SlotOf(store, u) \in AllSlices(store) \cup {EmptySlice}
    BY <1>0, SlotIs
  <2> QED
    BY <1>1, <1>2, <2>1
<1>3. CASE store' = tabWriter(store, t, [isExecuting |-> FALSE])
  <2>1. PICK p : p = [isExecuting |-> FALSE]
    OBVIOUS
  <2>2. DOMAIN p = {"isExecuting"} /\ Partial(p)
    BY <2>1, StopPart
  <2>3. store' = tabWriter(store, t, p)
    BY <1>3, <2>1
  <2> HIDE DEF t
  <2>4. store' \in StoreType /\ store'.viewTabId = store.viewTabId
    BY <1>0, <2>2, <2>3, WriterIs
  <2>5. ASSUME NEW x \in AllSlices(store') PROVE ~Shows(x, r)
    <3>1. PICK y \in AllSlices(store) \cup {EmptySlice} : x = y \/ x = Patch(y, p)
      BY <1>0, <2>2, <2>3, <2>5, WriterSlices
    <3>2. y \in Slices /\ ~Shows(y, r)
      BY <1>1
    <3>3. ~Shows(Patch(y, p), r)
      BY <2>2, <3>2, PatchShows
    <3> QED
      BY <3>1, <3>2, <3>3
  <2>6. SlotOf(store', u) \in AllSlices(store') \cup {EmptySlice}
    BY <1>0, <2>4, SlotIs
  <2> QED
    BY <1>1, <2>5, <2>6
<1>4. CASE isCurrent(book, run, r)
  <2>1. t \notin Live /\ store.viewTabId # Null
    BY <1>0, <1>4
  <2>2. PICK p \in AnswerSlices(r) : store' = tabWriter(store, t, p) /\ Partial(p)
    BY <1>4, AnswerWrites
  <2>3. u # t
    BY <2>1
  <2> HIDE DEF t
  <2>4. store' \in StoreType /\ store'.viewTabId = store.viewTabId
    BY <1>0, <2>2, WriterIs
  <2>5. Pane(store', u) = Pane(store, u)
    <3>1. PICK L : L = Live
      OBVIOUS
    <3>2. \A x \in L : Pane(tabWriter(store, t, p), x) = IF x = t THEN Patch(Pane(store, t), p) ELSE Pane(store, x)
      BY <1>0, <2>1, <2>2, WriterPane
    <3> QED
      BY <2>2, <2>3, <3>1, <3>2
  <2>6. SlotOf(store', u) = SlotOf(store, u)
    BY <1>0, <2>1, <2>4, <2>5, SlotIs
  <2>7. SlotOf(store, u) \in AllSlices(store) \cup {EmptySlice}
    BY <1>0, SlotIs
  <2> QED
    BY <1>1, <2>6, <2>7
<1> QED
  BY <1>2, <1>3, <1>4, AnswerWrites

LEMMA Lands ==
  ASSUME IInv, ~ClosesOverRun, [Next]_vars
  PROVE  Landing
<1> SUFFICES ASSUME NEW r \in Runs, run[r].phase = "flying", run'[r].phase = "done"
             PROVE  IF Awaited(r) THEN run[r].home \in Live => Shows(Slot(run[r].home)', r)
                                  ELSE \A t \in Live : ~Shows(Slot(t)', r)
  BY DEF Landing
<1>1. Flies(run, r) /\ Answer(r)
  BY OnlyAnswers DEF Flies
<1>2. \A t : Slot(t)' = SlotOf(store', t)
  BY DEF Slot, SlotOf
<1>3. run'[r].home = run[r].home
  BY <1>1, AnswerLands DEF Touched
<1>4. Slot(run[r].home)' = SlotOf(store', run[r].home)
  BY <1>3 DEF Slot, SlotOf
<1>5. CASE Awaited(r)
  <2>1. ASSUME run[r].home \in Live PROVE Shows(SlotOf(store', run[r].home), r)
    <3>1. isCurrent(book, run, r) /\ run[r].tab = run[r].home
      BY <1>1, <1>5, <2>1, AwaitedIs
    <3> QED
      BY <1>1, <2>1, <3>1, Landed1
  <2> QED
    BY <1>4, <1>5, <2>1
<1>6. CASE ~Awaited(r)
  <2>1. ~(isCurrent(book, run, r) /\ run[r].tab \in Live)
    BY <1>1, <1>6, AwaitedIs
  <2>2. \A t \in Live : ~Shows(SlotOf(store', t), r)
    BY <1>1, <2>1, Dropped
  <2> QED
    BY <1>2, <1>6, <2>2
<1> QED
  BY <1>5, <1>6

\* What drops edits in such a step is a change of the rows on screen.
LEMMA Loses ==
  ASSUME IInv, ~ClosesOverRun, [Next]_vars
  PROVE  Losing
<1> SUFFICES ASSUME NEW r \in Runs, NEW t \in QueryTabs, run[r].phase = "flying", run'[r].phase = "done",
                    edits[t] # Null, edits'[t] = Null, ~run[r].agreed, run[r].kind # "page"
             PROVE  FALSE
  BY DEF Losing
<1>1. Flies(run, r) /\ Answer(r)
  BY OnlyAnswers DEF Flies
<1>2. /\ TypeI /\ EditI(edits, store, Shown) /\ LossI(run, dialog, edits) /\ store \in StoreType /\ run \in [Runs -> RunType]
      /\ EmptyI(run, book, store) /\ Null \notin QueryTabs
  BY Distinct DEF IInv, TypeI
<1>3. store'.viewTabId = t /\ store'.screen.results # edits[t]
  BY <1>1 DEF Answer, GridFollows
<1> DEFINE tab == run[r].tab
<1>4. tab \in Keys /\ run[r].kind \in {"query", "explain", "page"} /\ run[r].agreed \in BOOLEAN
  BY <1>2, RunTypes
<1>5. PICK p : Partial(p) /\ store' \in {store, tabWriter(store, tab, p)}
               /\ ("results" \in DOMAIN p => isCurrent(book, run, r) /\ p \in AnswerSlices(r))
  <2>1. CASE isCurrent(book, run, r)
    BY <2>1, <1>1, AnswerWrites
  <2>2. CASE ~isCurrent(book, run, r)
    <3>1. store' \in {store, tabWriter(store, tab, [isExecuting |-> FALSE])}
      BY <2>2, <1>1, AnswerWrites
    <3>2. PICK p : p = [isExecuting |-> FALSE]
      OBVIOUS
    <3>3. DOMAIN p = {"isExecuting"} /\ Partial(p)
      BY <3>2, StopPart
    <3> QED
      BY <3>1, <3>2, <3>3
  <2> QED
    BY <2>1, <2>2
<1>6. store'.viewTabId = store.viewTabId
  <2> HIDE DEF tab
  <2> QED
    BY <1>2, <1>4, <1>5, WriterIs
<1>7. edits[t] = store.screen.results /\ t \in Shown
  BY <1>2, <1>3, <1>6 DEF EditI
<1>8. store' # store /\ store' = tabWriter(store, tab, p)
  BY <1>3, <1>5, <1>7
<1>9. "results" \in DOMAIN p
  <2> HIDE DEF tab
  <2> QED
    BY <1>2, <1>3, <1>4, <1>5, <1>7, <1>8, WriterRows
<1>10. tab = t
  <2>1. store.viewTabId = t /\ t # Null
    BY <1>2, <1>3, <1>6
  <2> HIDE DEF tab
  <2>2. tab # t => store'.screen = store.screen
    BY <1>2, <1>4, <1>5, <1>8, <2>1, WriterIs
  <2> QED
    BY <1>3, <1>7, <2>2
<1>11. run[r].kind = "query"
  BY <1>4, <1>5, <1>9, AnswerSliceIs
<1>12. t \in Live
  BY <1>7, Facts
<1>13. Awaited(r) /\ run[r].home = t
  BY <1>1, <1>5, <1>9, <1>10, <1>12, AwaitedIs
<1>14. AwaitedIn(run, r)
  BY <1>13 DEF Awaited, AwaitedIn
<1> QED
  BY <1>1, <1>2, <1>11, <1>13, <1>14 DEF LossI

-----------------------------------------------------------------------------
\* Every state is of its type: the shown tab's slice and the parked ones, the runs
\* in flight and what lists them (resultStore.ts).
THEOREM TypeCorrect == ASSUME ~ClosesOverRun PROVE Spec => []TypeOK
  BY Invariance, Types, PTL

\* A spinner, shown or parked, turns only over a run of its tab that was not cancelled.
THEOREM SpinnersMeanRuns == ASSUME ~ClosesOverRun PROVE Spec => []SpinnerMeansRunning
<1>1. IInv => SpinnerMeansRunning
  BY Spinners
<1> QED
  BY <1>1, Invariance, PTL

\* A tab whose run is still waited for has its spinner turning, shown or parked.
THEOREM AwaitedRunsSpin == ASSUME ~ClosesOverRun PROVE Spec => []AwaitedRunSpins
<1>1. IInv => AwaitedRunSpins
  BY Spinners
<1> QED
  BY <1>1, Invariance, PTL

\* An answer is shown in its own tab when it is waited for, and nowhere when it was
\* cancelled, superseded or its tab closed.
THEOREM AnswersLand == ASSUME ~ClosesOverRun PROVE Spec => AnswersWhereAwaited
<1>1. IInv /\ [Next]_vars => [Landing]_vars
  BY Lands
<1> QED
  BY <1>1, Invariance, PTL DEF Spec, AnswersWhereAwaited

\* A statement's answer drops a grid's unsaved edits only if their user agreed before.
THEOREM EditsAreAskedFor == ASSUME ~ClosesOverRun PROVE Spec => ConsentBeforeLoss
<1>1. IInv /\ [Next]_vars => [Losing]_vars
  BY Loses
<1> QED
  BY <1>1, Invariance, PTL DEF Spec, ConsentBeforeLoss
===============================================================================
