--------------------------- MODULE SchemaCacheProofs ---------------------------
(***************************************************************************)
(* Theorems about SchemaCache for any connections, databases, folders,     *)
(* tables and chains of reads: nothing from before a refresh is cached     *)
(* after it, a connection that was left has no schema, and a key is listed *)
(* as loading only while it is read.                                       *)
(***************************************************************************)
EXTENDS SchemaCache, TLAPS

(* A chain as far as the cache depends on it: what it still has to read is not
   part of it. *)
Shape(r) ==
  /\ r \in [step : {"idle", "next", "asked", "answered", "changing", "changed"},
            conn : Conns \cup {Null}, todo : {r.todo}, each : {r.each}, scope : {r.scope},
            gen : Nat, answer : Schemas \cup {Null}]
  /\ r.step = "idle" \/ r.conn \in Conns
  /\ r.step # "answered" => r.answer = Null

CacheType ==
  /\ server \in [Conns -> Schemas] /\ link \in [Conns -> {"open", "ended", "left"}]
  /\ known \in [Conns -> [Keys -> Schemas \cup {Null}]]
  /\ generation \in [Conns -> Nat] /\ floor \in [Conns -> [Keys -> Nat]]
  /\ chains = [ch \in Chains |-> chains[ch]]
  /\ \A ch \in Chains : Shape(chains[ch])

(* A key was dropped at a version the server has had. *)
FloorInv == \A c \in Conns, k \in Keys : floor[c][k] <= server[c].version

(* An answer nothing has overtaken is no older than any drop, and there is none
   for a connection that was left. *)
AnswerInv ==
  \A ch \in Chains : chains[ch].step # "idle" =>
    LET c == chains[ch].conn IN
    /\ chains[ch].gen <= generation[c]
    /\ Stored(ch) => /\ \A k \in Keys : floor[c][k] <= chains[ch].answer.version
                     /\ link[c] # "left"

IInv == CacheType /\ FloorInv /\ AnswerInv /\ NothingFromBeforeARefresh /\ LeftIsForgotten
-----------------------------------------------------------------------------
LEMMA SchemaType ==
  ASSUME NEW s \in Schemas PROVE s.version \in Nat
BY DEF Schemas

(* Idle has the shape, and is no chain of a connection. *)
LEMMA IdleShape == Shape(Idle) /\ Idle.step = "idle" /\ Idle.answer = Null
BY DEF Shape, Idle

(* A step of one chain that leaves the cache alone: the chain is idle, has no
   answer, or has one as new as any drop. *)
LEMMA ChainStep ==
  ASSUME IInv, NEW ch \in Chains, NEW r, Shape(r),
         chains' = [chains EXCEPT ![ch] = r],
         r.step # "idle" => r.gen <= generation[r.conn],
         r.step # "idle" /\ r.answer # Null /\ r.gen = generation[r.conn] =>
            /\ \A k \in Keys : floor[r.conn][k] <= r.answer.version
            /\ link[r.conn] # "left",
         UNCHANGED <<server, link, known, generation, floor>>
  PROVE  IInv'
<1>1. chains'[ch] = r /\ \A h \in Chains : h # ch => chains'[h] = chains[h]
  BY DEF IInv, CacheType
<1>2. CacheType'
  <2>1. chains' = [h \in Chains |-> chains'[h]]
    BY DEF IInv, CacheType
  <2>2. \A h \in Chains : Shape(chains'[h])
    BY <1>1 DEF IInv, CacheType
  <2> QED
    BY <2>1, <2>2 DEF IInv, CacheType, Shape
<1>3. FloorInv' /\ NothingFromBeforeARefresh' /\ LeftIsForgotten'
  BY DEF IInv, FloorInv, NothingFromBeforeARefresh, LeftIsForgotten
<1>4. AnswerInv'
  <2> SUFFICES ASSUME NEW h \in Chains, chains'[h].step # "idle"
               PROVE  /\ chains'[h].gen <= generation[chains'[h].conn]
                      /\ chains'[h].answer # Null /\ chains'[h].gen = generation[chains'[h].conn] =>
                           /\ \A k \in Keys : floor[chains'[h].conn][k] <= chains'[h].answer.version
                           /\ link[chains'[h].conn] # "left"
    BY DEF AnswerInv, Stored
  <2>1. CASE h = ch
    BY <2>1, <1>1
  <2>2. CASE h # ch
    BY <2>2, <1>1 DEF IInv, AnswerInv, Stored
  <2> QED
    BY <2>1, <2>2
<1> QED
  BY <1>2, <1>3, <1>4 DEF IInv

(* What a chain is after its await returned, and what the views begin. *)
LEMMA ResumeShape ==
  ASSUME IInv, NEW ch \in Chains, chains[ch].step # "idle", NEW a, Resume(ch, a)
  PROVE  \E r : /\ Shape(r) /\ chains' = [chains EXCEPT ![ch] = r]
                /\ r.answer = Null /\ (r.step # "idle" => r.gen = 0 /\ r.conn = chains[ch].conn)
<1> DEFINE rest == Rest(chains[ch], a)
           n == [chains[ch] EXCEPT !.step = "next", !.todo = rest, !.each = FALSE, !.gen = 0, !.answer = Null]
<1>1. chains' = [chains EXCEPT ![ch] = IF rest = <<>> THEN Idle ELSE n]
  BY DEF Resume, IInv, CacheType
<1> HIDE DEF rest
<1>2. Shape(chains[ch])
  BY DEF IInv, CacheType
<1>3. Shape(n) /\ n.answer = Null /\ n.gen = 0 /\ n.conn = chains[ch].conn
  BY <1>2 DEF Shape
<1> HIDE DEF n
<1>4. CASE rest = <<>>
  BY <1>1, <1>4, IdleShape
<1>5. CASE rest # <<>>
  BY <1>1, <1>3, <1>5
<1> QED
  BY <1>4, <1>5

LEMMA BeganShape ==
  ASSUME NEW c \in Conns, NEW todo, NEW each, NEW scope, NEW step \in {"next", "changing"}
  PROVE  LET r == Began(c, todo, each, scope, step)
         IN  Shape(r) /\ r.answer = Null /\ r.gen = 0 /\ r.conn = c
BY DEF Began, Idle, Shape

(* What is known of a chain under way. *)
LEMMA AtWork ==
  ASSUME IInv, NEW ch \in Chains, chains[ch].step # "idle"
  PROVE  /\ Shape(chains[ch]) /\ chains[ch].conn \in Conns /\ chains[ch] # Idle
         /\ generation[chains[ch].conn] \in Nat
BY DEF IInv, CacheType, Shape, Idle

(* A view begins a chain that drops nothing. *)
LEMMA BeginStep ==
  ASSUME IInv, NEW ch \in Chains, NEW c \in Conns, NEW todo, NEW each, NEW scope,
         NEW step \in {"next", "changing"}, Begin(ch, Began(c, todo, each, scope, step)),
         UNCHANGED <<server, link, held, known, loading, generation, floor>>
  PROVE  IInv'
<1> DEFINE r == Began(c, todo, each, scope, step)
<1>1. chains' = [chains EXCEPT ![ch] = r]
  BY DEF Begin
<1>2. Shape(r) /\ r.answer = Null /\ r.gen = 0 /\ r.conn = c
  BY BeganShape
<1>3. generation[c] \in Nat
  BY DEF IInv, CacheType
<1>4. r.gen <= generation[r.conn]
  BY <1>2, <1>3
<1> HIDE DEF r
<1> QED
  BY <1>1, <1>2, <1>4, ChainStep

LEMMA EnsureCachedStep == ASSUME IInv, NEW ch \in Chains, EnsureCached(ch) PROVE IInv'
<1>1. chains[ch].step # "idle"
  BY DEF EnsureCached
<1>2. PICK a : Resume(ch, a)
  BY DEF EnsureCached
<1>3. PICK r : /\ Shape(r) /\ chains' = [chains EXCEPT ![ch] = r]
               /\ r.answer = Null /\ (r.step # "idle" => r.gen = 0 /\ r.conn = chains[ch].conn)
  BY <1>1, <1>2, ResumeShape
<1>4. r.step # "idle" => r.gen <= generation[r.conn]
  BY <1>1, <1>3, AtWork
<1> QED
  BY <1>3, <1>4, ChainStep DEF EnsureCached

LEMMA EnsureFetchesStep == ASSUME IInv, NEW ch \in Chains, EnsureFetches(ch) PROVE IInv'
<1> DEFINE v == chains[ch]
           r == [v EXCEPT !.step = "asked", !.gen = generation[v.conn]]
<1>1. v.step = "next" /\ chains' = [chains EXCEPT ![ch] = r]
  BY DEF EnsureFetches, IInv, CacheType
<1>2. Shape(v) /\ v.conn \in Conns /\ generation[v.conn] \in Nat
  BY <1>1, AtWork
<1>3. Shape(r) /\ r.answer = Null /\ r.gen = generation[r.conn]
  BY <1>1, <1>2 DEF Shape
<1>4. r.gen <= generation[r.conn]
  BY <1>2, <1>3 DEF Shape
<1> HIDE DEF r
<1> QED
  BY <1>1, <1>3, <1>4, ChainStep DEF EnsureFetches

(* The backend's answer is the server's schema now. *)
LEMMA RespondStep == ASSUME IInv, NEW ch \in Chains, Respond(ch) PROVE IInv'
<1> DEFINE v == chains[ch]
           c == v.conn
<1>1. v.step = "asked"
  BY DEF Respond
<1>2. Shape(v) /\ c \in Conns /\ generation[c] \in Nat /\ v.gen <= generation[c] /\ server[c] \in Schemas
  BY <1>1, AtWork DEF IInv, AnswerInv, CacheType
<1> DEFINE listed == [version |-> server[c].version,
                      databases |-> IF Head(v.todo) = ListKey THEN server[c].databases ELSE {}]
<1>3. PICK a \in {Null} \cup IF link[c] = "open" THEN {listed} ELSE {} :
        chains' = [chains EXCEPT ![ch].step = "answered", ![ch].answer = a]
  BY DEF Respond
<1> DEFINE r == [v EXCEPT !.step = "answered", !.answer = a]
<1>4. chains' = [chains EXCEPT ![ch] = r]
  BY <1>3 DEF IInv, CacheType
<1>5. listed \in Schemas /\ listed.version = server[c].version
  BY <1>2 DEF Schemas
<1>6. a \in Schemas \cup {Null} /\ (a # Null => a.version = server[c].version /\ link[c] = "open")
  BY <1>3, <1>5
<1> HIDE DEF listed
<1>7. Shape(r) /\ r.conn = c /\ r.gen = v.gen /\ r.answer = a
  BY <1>2, <1>6 DEF Shape
<1> HIDE DEF r
<1>8. a # Null => \A k \in Keys : floor[c][k] <= a.version
  BY <1>2, <1>6 DEF IInv, FloorInv
<1> QED
  BY <1>2, <1>4, <1>6, <1>7, <1>8, ChainStep DEF Respond

(* An answer that was not overtaken is cached. *)
LEMMA EnsureReturnsStep == ASSUME IInv, NEW ch \in Chains, EnsureReturns(ch) PROVE IInv'
<1> DEFINE v == chains[ch]
           c == v.conn
           key == Head(v.todo)
<1>1. v.step = "answered" /\ Resume(ch, v.answer) /\ UNCHANGED <<server, link, generation, floor>>
  BY DEF EnsureReturns
<1>2. Shape(v) /\ c \in Conns /\ generation[c] \in Nat
  BY <1>1, AtWork
<1>3. known' = IF Stored(ch) THEN [known EXCEPT ![c][key] = v.answer] ELSE known
  BY DEF EnsureReturns
<1>4. Stored(ch) => /\ v.answer \in Schemas /\ link[c] # "left"
                    /\ \A k \in Keys : floor[c][k] <= v.answer.version
  BY <1>1, <1>2 DEF IInv, AnswerInv, Stored, Shape
<1>5. PICK r : /\ Shape(r) /\ chains' = [chains EXCEPT ![ch] = r]
               /\ r.answer = Null /\ (r.step # "idle" => r.gen = 0 /\ r.conn = c)
  BY <1>1, ResumeShape
<1>6. chains'[ch] = r /\ \A h \in Chains : h # ch => chains'[h] = chains[h]
  BY <1>5 DEF IInv, CacheType
<1>7. known' \in [Conns -> [Keys -> Schemas \cup {Null}]]
  BY <1>2, <1>3, <1>4 DEF IInv, CacheType
<1>8. \A d \in Conns, k \in Keys : known'[d][k] = known[d][k] \/ (d = c /\ Stored(ch) /\ known'[d][k] = v.answer)
  BY <1>2, <1>3 DEF IInv, CacheType
<1>9. \A d \in Conns : d # c \/ ~Stored(ch) => known'[d] = known[d]
  BY <1>2, <1>3 DEF IInv, CacheType
<1>10. CacheType'
  <2>1. chains' = [h \in Chains |-> chains'[h]] /\ \A h \in Chains : Shape(chains'[h])
    BY <1>5, <1>6 DEF IInv, CacheType
  <2> QED
    BY <2>1, <1>1, <1>7 DEF IInv, CacheType, Shape
<1>11. FloorInv'
  BY <1>1 DEF IInv, FloorInv
<1>12. AnswerInv'
  <2> SUFFICES ASSUME NEW h \in Chains, chains'[h].step # "idle"
               PROVE  /\ chains'[h].gen <= generation[chains'[h].conn]
                      /\ chains'[h].answer # Null /\ chains'[h].gen = generation[chains'[h].conn] =>
                           /\ \A k \in Keys : floor[chains'[h].conn][k] <= chains'[h].answer.version
                           /\ link[chains'[h].conn] # "left"
    BY <1>1 DEF AnswerInv, Stored
  <2>1. CASE h = ch
    BY <2>1, <1>2, <1>5, <1>6
  <2>2. CASE h # ch
    BY <2>2, <1>6 DEF IInv, AnswerInv, Stored
  <2> QED
    BY <2>1, <2>2
<1>13. NothingFromBeforeARefresh'
  BY <1>1, <1>4, <1>8 DEF IInv, NothingFromBeforeARefresh, CacheType, Schemas
<1>14. LeftIsForgotten'
  BY <1>1, <1>4, <1>9 DEF IInv, LeftIsForgotten
<1> QED
  BY <1>10, <1>11, <1>12, <1>13, <1>14 DEF IInv
-----------------------------------------------------------------------------
(* A chain without an answer, and a floor the server has reached. *)
Quiet(r) == Shape(r) /\ r.answer = Null /\ r.gen <= generation[r.conn]
Reached(c, levels) == levels \in [Keys -> Nat] /\ \A k \in Keys : levels[k] <= server[c].version

(* The generation goes up, and what is left of the entry is a part of it: every
   read in flight is overtaken. *)
LEMMA BumpStep ==
  ASSUME IInv, NEW c \in Conns, bumpGeneration(c), UNCHANGED server,
         known' \in [Conns -> [Keys -> Schemas \cup {Null}]],
         \A d \in Conns : d # c => known'[d] = known[d] /\ floor'[d] = floor[d] /\ link'[d] = link[d],
         \A k \in Keys : known'[c][k] \in {Null, known[c][k]},
         \A k \in Keys : known'[c][k] = Null \/ floor'[c][k] = floor[c][k],
         link' \in [Conns -> {"open", "ended", "left"}],
         link'[c] = "left" => known'[c] = Empty,
         floor' \in [Conns -> [Keys -> Nat]], Reached(c, floor'[c]),
         chains' = [h \in Chains |-> chains'[h]],
         \A h \in Chains : chains'[h] = chains[h] \/ Quiet(chains'[h])
  PROVE  IInv'
<1> USE DEF Quiet, Reached
<1>1. generation' = [generation EXCEPT ![c] = @ + 1] /\ generation' \in [Conns -> Nat]
  BY DEF bumpGeneration, IInv, CacheType
<1>2. generation'[c] = generation[c] + 1 /\ \A d \in Conns : d # c => generation'[d] = generation[d]
  BY <1>1 DEF IInv, CacheType
<1>4. CacheType'
  <2>1. \A h \in Chains : Shape(chains'[h])
    BY DEF IInv, CacheType
  <2> QED
    BY <2>1, <1>1 DEF IInv, CacheType, Shape
<1>5. FloorInv'
  BY DEF IInv, FloorInv
<1>6. AnswerInv'
  <2> SUFFICES ASSUME NEW h \in Chains, chains'[h].step # "idle"
               PROVE  /\ chains'[h].gen <= generation'[chains'[h].conn]
                      /\ chains'[h].answer # Null /\ chains'[h].gen = generation'[chains'[h].conn] =>
                           /\ \A k \in Keys : floor'[chains'[h].conn][k] <= chains'[h].answer.version
                           /\ link'[chains'[h].conn] # "left"
    BY DEF AnswerInv, Stored
  <2> DEFINE d == chains'[h].conn
  <2>1. d \in Conns /\ generation[d] \in Nat /\ generation'[d] \in Nat /\ chains'[h].gen \in Nat
    BY <1>1, <1>4 DEF CacheType, Shape, IInv
  <2>2. CASE chains'[h] # chains[h]
    <3>1. generation[d] <= generation'[d]
      BY <2>1, <1>2
    <3>2. chains'[h].answer = Null /\ chains'[h].gen <= generation[d]
      BY <2>2
    <3> QED
      BY <2>1, <3>1, <3>2
  <2>3. CASE chains'[h] = chains[h]
    <3>1. /\ chains[h].gen <= generation[d]
          /\ Stored(h) => /\ \A k \in Keys : floor[d][k] <= chains[h].answer.version
                          /\ link[d] # "left"
      BY <2>3 DEF IInv, AnswerInv
    <3>2. CASE d = c
      BY <3>1, <3>2, <2>1, <2>3, <1>2
    <3>3. CASE d # c
      <4>1. generation'[d] = generation[d] /\ floor'[d] = floor[d] /\ link'[d] = link[d]
        BY <3>3, <2>1, <1>2
      <4> QED
        BY <4>1, <3>1, <2>3 DEF Stored
    <3> QED
      BY <3>2, <3>3
  <2> QED
    BY <2>2, <2>3
<1>7. NothingFromBeforeARefresh'
  BY DEF IInv, NothingFromBeforeARefresh
<1>8. LeftIsForgotten'
  BY DEF IInv, LeftIsForgotten
<1> QED
  BY <1>4, <1>5, <1>6, <1>7, <1>8 DEF IInv

(* A refresh, and the reload after a change, of which a chain is begun. *)
LEMMA InvalidateStep ==
  ASSUME IInv, NEW c \in Conns, NEW scope, invalidate(c, scope), NEW ch \in Chains, NEW r,
         Shape(r), r.answer = Null, r.conn = c, r.gen <= generation[c],
         chains' = [chains EXCEPT ![ch] = r], UNCHANGED <<server, link>>
  PROVE  IInv'
<1> DEFINE left == Dropped(c, scope)
<1> DEFINE drop == [k \in Keys |-> IF Covers(scope, k) THEN server[c].version ELSE floor[c][k]]
<1>1. /\ known' = [known EXCEPT ![c] = left] /\ bumpGeneration(c)
      /\ floor' = [floor EXCEPT ![c] = drop]
  BY DEF invalidate, IInv, CacheType
<1>2. left \in [Keys -> Schemas \cup {Null}]
      /\ \A k \in Keys : left[k] = IF Covers(scope, k) THEN Null ELSE known[c][k]
  BY DEF Dropped, IInv, CacheType
<1>3. server[c].version \in Nat /\ floor[c] \in [Keys -> Nat]
  BY SchemaType DEF IInv, CacheType
<1>4. drop \in [Keys -> Nat] /\ \A k \in Keys : /\ Covers(scope, k) => drop[k] = server[c].version
                                                /\ ~Covers(scope, k) => drop[k] = floor[c][k]
  BY <1>3
<1>5. \A k \in Keys : drop[k] <= server[c].version
  BY <1>3, <1>4 DEF IInv, FloorInv
<1> HIDE DEF drop
<1>6. Reached(c, drop)
  BY <1>4, <1>5 DEF Reached
<1>7. /\ floor' \in [Conns -> [Keys -> Nat]] /\ floor'[c] = drop
      /\ known' \in [Conns -> [Keys -> Schemas \cup {Null}]] /\ known'[c] = left
      /\ \A d \in Conns : d # c => known'[d] = known[d] /\ floor'[d] = floor[d] /\ link'[d] = link[d]
  BY <1>1, <1>2, <1>4 DEF IInv, CacheType
<1>8. \A k \in Keys : known'[c][k] \in {Null, known[c][k]} /\ (known'[c][k] = Null \/ floor'[c][k] = floor[c][k])
  BY <1>2, <1>4, <1>7
<1>9. chains' = [h \in Chains |-> chains'[h]]
      /\ \A h \in Chains : chains'[h] = IF h = ch THEN r ELSE chains[h]
  BY DEF IInv, CacheType
<1>10. \A h \in Chains : chains'[h] = chains[h] \/ Quiet(chains'[h])
  BY <1>9 DEF Quiet
<1>11. link' \in [Conns -> {"open", "ended", "left"}] /\ (link'[c] = "left" => known'[c] = Empty)
  BY <1>7 DEF IInv, CacheType, LeftIsForgotten, Dropped, Empty
<1>12. UNCHANGED server /\ Reached(c, floor'[c]) /\ bumpGeneration(c)
  BY <1>1, <1>6, <1>7
<1>13. /\ known' \in [Conns -> [Keys -> Schemas \cup {Null}]] /\ floor' \in [Conns -> [Keys -> Nat]]
       /\ \A d \in Conns : d # c => known'[d] = known[d] /\ floor'[d] = floor[d] /\ link'[d] = link[d]
       /\ chains' = [h \in Chains |-> chains'[h]]
  BY <1>7, <1>9
<1> HIDE DEF left
<1> QED
  BY <1>8, <1>10, <1>11, <1>12, <1>13, BumpStep

LEMMA RefreshStep == ASSUME IInv, NEW ch \in Chains, NEW c \in Conns, Refresh(ch, c) PROVE IInv'
<1> PICK scope \in Scopes, open \in SUBSET Folders :
      /\ invalidate(c, scope)
      /\ Begin(ch, Began(c, Reload(scope, open), scope = <<>>, scope, "next"))
  BY DEF Refresh
<1> DEFINE r == Began(c, Reload(scope, open), scope = <<>>, scope, "next")
<1>1. Shape(r) /\ r.answer = Null /\ r.gen = 0 /\ r.conn = c
  BY BeganShape
<1>2. chains' = [chains EXCEPT ![ch] = r]
  BY DEF Begin
<1>3. generation[c] \in Nat
  BY DEF IInv, CacheType
<1>4. r.gen <= generation[c]
  BY <1>1, <1>3
<1>5. UNCHANGED <<server, link>>
  BY DEF Refresh
<1> HIDE DEF r
<1> QED
  BY <1>1, <1>2, <1>4, <1>5, InvalidateStep

LEMMA AfterChangeStep == ASSUME IInv, NEW ch \in Chains, AfterChange(ch) PROVE IInv'
<1> DEFINE v == chains[ch]
           r == [v EXCEPT !.step = "next"]
<1>1. v.step = "changed" /\ invalidate(v.conn, v.scope) /\ chains' = [chains EXCEPT ![ch] = r]
  BY DEF AfterChange, IInv, CacheType
<1>2. Shape(v) /\ v.conn \in Conns /\ v.gen <= generation[v.conn]
  BY <1>1, AtWork DEF IInv, AnswerInv
<1>3. Shape(r) /\ r.answer = Null /\ r.gen = v.gen /\ r.conn = v.conn
  BY <1>1, <1>2 DEF Shape
<1> HIDE DEF r
<1> QED
  BY <1>1, <1>2, <1>3, InvalidateStep DEF AfterChange

(* The app leaves a connection the backend has ended. *)
LEMMA DisconnectStep == ASSUME IInv, NEW c \in Conns, disconnect(c) PROVE IInv'
<1>1. /\ bumpGeneration(c) /\ known' = [known EXCEPT ![c] = Empty] /\ floor' = floor
      /\ link' = [link EXCEPT ![c] = "left"] /\ server' = server /\ chains' = chains
  BY DEF disconnect, forget
<1>2. Empty \in [Keys -> Schemas \cup {Null}] /\ \A k \in Keys : Empty[k] = Null
  BY DEF Empty
<1>3. /\ known' \in [Conns -> [Keys -> Schemas \cup {Null}]] /\ known'[c] = Empty
      /\ link' \in [Conns -> {"open", "ended", "left"}]
      /\ \A d \in Conns : d # c => known'[d] = known[d] /\ floor'[d] = floor[d] /\ link'[d] = link[d]
  BY <1>1, <1>2 DEF IInv, CacheType
<1>4. floor' \in [Conns -> [Keys -> Nat]] /\ Reached(c, floor'[c])
  BY <1>1 DEF IInv, CacheType, FloorInv, Reached
<1>5. chains' = [h \in Chains |-> chains'[h]]
  BY <1>1 DEF IInv, CacheType
<1> QED
  BY <1>1, <1>2, <1>3, <1>4, <1>5, BumpStep

(* The server's schema changes, of itself or by the statement of a chain. *)
LEMMA AlterStep ==
  ASSUME IInv, NEW c \in Conns, NEW scope, Alter(c, scope),
         UNCHANGED <<link, known, generation, floor>>,
         chains' = [h \in Chains |-> chains'[h]],
         \A h \in Chains : chains'[h] = chains[h] \/ Quiet(chains'[h])
  PROVE  IInv'
<1> USE DEF Quiet
<1>1. server[c] \in Schemas /\ server[c].version \in Nat
  BY SchemaType DEF IInv, CacheType
<1>2. PICK s \in Schemas : server' = [server EXCEPT ![c] = s] /\ s.version = server[c].version + 1
  <2>1. PICK ds \in SUBSET Databases :
          server' = [server EXCEPT ![c] = [version |-> server[c].version + 1, databases |-> ds]]
    BY DEF Alter, IInv, CacheType
  <2>2. [version |-> server[c].version + 1, databases |-> ds] \in Schemas
    BY <1>1 DEF Schemas
  <2> QED
    BY <2>1, <2>2
<1>3. CacheType'
  <2>1. \A h \in Chains : Shape(chains'[h])
    BY DEF IInv, CacheType
  <2> QED
    BY <2>1, <1>2 DEF IInv, CacheType, Shape
<1>4. FloorInv'
  <2> SUFFICES ASSUME NEW d \in Conns, NEW k \in Keys PROVE floor[d][k] <= server'[d].version
    BY DEF FloorInv
  <2>1. floor[d][k] \in Nat /\ server[d].version \in Nat /\ floor[d][k] <= server[d].version
    BY SchemaType DEF IInv, CacheType, FloorInv
  <2>2. server'[d] = server[d] \/ server'[d].version = server[d].version + 1
    BY <1>2 DEF IInv, CacheType
  <2> QED
    BY <2>1, <2>2
<1>5. AnswerInv'
  BY DEF IInv, AnswerInv, Stored
<1>6. NothingFromBeforeARefresh' /\ LeftIsForgotten'
  BY DEF IInv, NothingFromBeforeARefresh, LeftIsForgotten
<1> QED
  BY <1>3, <1>4, <1>5, <1>6 DEF IInv

LEMMA StatementRunsStep == ASSUME IInv, NEW ch \in Chains, StatementRuns(ch) PROVE IInv'
<1> DEFINE v == chains[ch]
           r == [v EXCEPT !.step = "changed"]
<1>1. /\ v.step = "changing" /\ Alter(v.conn, v.scope) /\ chains' = [chains EXCEPT ![ch] = r]
      /\ UNCHANGED <<link, known, generation, floor>>
  BY DEF StatementRuns, IInv, CacheType
<1>2. Shape(v) /\ v.conn \in Conns /\ v.gen <= generation[v.conn]
  BY <1>1, AtWork DEF IInv, AnswerInv
<1>3. Shape(r) /\ r.answer = Null /\ r.gen = v.gen /\ r.conn = v.conn
  BY <1>1, <1>2 DEF Shape
<1> HIDE DEF r
<1>4. chains' = [h \in Chains |-> chains'[h]]
      /\ \A h \in Chains : chains'[h] = IF h = ch THEN r ELSE chains[h]
  BY <1>1 DEF IInv, CacheType
<1>5. \A h \in Chains : chains'[h] = chains[h] \/ Quiet(chains'[h])
  BY <1>2, <1>3, <1>4 DEF Quiet
<1> QED
  BY <1>1, <1>2, <1>4, <1>5, AlterStep

(* Chains that end, and those the user cuts short. *)
LEMMA StatementFailsStep == ASSUME IInv, NEW ch \in Chains, StatementFails(ch) PROVE IInv'
BY IdleShape, ChainStep DEF StatementFails

LEMMA FilterClearedStep == ASSUME IInv, NEW ch \in Chains, FilterCleared(ch) PROVE IInv'
<1> DEFINE v == chains[ch]
<1>1. v.step # "idle"
  BY DEF FilterCleared
<1>2. PICK here : chains' = [chains EXCEPT ![ch].todo = here]
  BY DEF FilterCleared
<1> DEFINE r == [v EXCEPT !.todo = here]
<1>3. chains' = [chains EXCEPT ![ch] = r]
  BY <1>2 DEF IInv, CacheType
<1>4. Shape(v) /\ v.gen <= generation[v.conn]
      /\ (Stored(ch) => /\ \A k \in Keys : floor[v.conn][k] <= v.answer.version
                        /\ link[v.conn] # "left")
  BY <1>1, AtWork DEF IInv, AnswerInv
<1>5. Shape(r) /\ r.answer = v.answer /\ r.gen = v.gen /\ r.conn = v.conn
  BY <1>4 DEF Shape
<1> HIDE DEF r
<1> QED
  BY <1>3, <1>4, <1>5, ChainStep DEF FilterCleared, Stored

LEMMA ChangedStep == ASSUME IInv, NEW c \in Conns, Changed(c) PROVE IInv'
<1>1. chains' = chains /\ chains' = [h \in Chains |-> chains'[h]]
  BY DEF Changed, IInv, CacheType
<1> QED
  BY <1>1, AlterStep DEF Changed

LEMMA BackendDisconnectsStep == ASSUME IInv, NEW c \in Conns, BackendDisconnects(c) PROVE IInv'
<1>1. /\ link' = [link EXCEPT ![c] = "ended"]
      /\ UNCHANGED <<server, known, generation, chains, floor>>
  BY DEF BackendDisconnects
<1>2. \A d \in Conns : link'[d] = "left" => link[d] = "left"
  BY <1>1 DEF IInv, CacheType
<1>3. CacheType'
  BY <1>1 DEF IInv, CacheType, Shape
<1>4. FloorInv' /\ NothingFromBeforeARefresh'
  BY <1>1 DEF IInv, FloorInv, NothingFromBeforeARefresh
<1>5. AnswerInv'
  BY <1>1, <1>2, AtWork DEF IInv, AnswerInv, Stored
<1>6. LeftIsForgotten'
  BY <1>1, <1>2 DEF IInv, LeftIsForgotten
<1> QED
  BY <1>3, <1>4, <1>5, <1>6 DEF IInv
-----------------------------------------------------------------------------
LEMMA Initial == Init => IInv
<1> SUFFICES ASSUME Init PROVE IInv
  OBVIOUS
<1>1. CacheType
  <2>1. [version |-> 0, databases |-> Databases] \in Schemas
    BY DEF Schemas
  <2>2. chains = [ch \in Chains |-> chains[ch]] /\ \A ch \in Chains : Shape(chains[ch])
    BY IdleShape DEF Init
  <2> QED
    BY <2>1, <2>2 DEF Init, CacheType, Empty
<1>2. FloorInv
  BY DEF Init, FloorInv
<1>3. AnswerInv
  BY IdleShape DEF Init, AnswerInv
<1>4. NothingFromBeforeARefresh /\ LeftIsForgotten
  BY DEF Init, NothingFromBeforeARefresh, LeftIsForgotten, Empty
<1> QED
  BY <1>1, <1>2, <1>3, <1>4 DEF IInv

LEMMA NextStep == IInv /\ [Next]_vars => IInv'
<1> SUFFICES ASSUME IInv, [Next]_vars PROVE IInv'
  OBVIOUS
<1>1. ASSUME NEW ch \in Chains, Step(ch) \/ Answer(ch) \/ FilterCleared(ch) PROVE IInv'
  BY <1>1, EnsureCachedStep, EnsureFetchesStep, EnsureReturnsStep, AfterChangeStep, RespondStep,
     StatementRunsStep, StatementFailsStep, FilterClearedStep DEF Step, Answer
<1>2. ASSUME NEW ch \in Chains, NEW c \in Conns, User(ch, c) PROVE IInv'
  <2>1. ASSUME Read(ch, c) PROVE IInv'
    BY <2>1, BeginStep DEF Read
  <2>2. ASSUME Filter(ch, c) PROVE IInv'
    BY <2>2, BeginStep DEF Filter
  <2>3. ASSUME runSchemaChange(ch, c) PROVE IInv'
    BY <2>3, BeginStep DEF runSchemaChange
  <2> QED
    BY <1>2, <2>1, <2>2, <2>3, RefreshStep DEF User
<1>3. ASSUME NEW c \in Conns, Outside(c) PROVE IInv'
  BY <1>3, ChangedStep, BackendDisconnectsStep, DisconnectStep DEF Outside
<1>4. CASE UNCHANGED vars
  BY <1>4 DEF vars, IInv, CacheType, Shape, FloorInv, AnswerInv, Stored,
              NothingFromBeforeARefresh, LeftIsForgotten
<1> QED
  BY <1>1, <1>2, <1>3, <1>4 DEF Next

LEMMA Invariance == Spec => []IInv
BY Initial, NextStep, PTL DEF Spec

(* However many reads are in flight when a connection is refreshed and in whatever
   order they return, no answer from before a refresh is cached after it: the
   generation a read was asked under tells it apart. *)
THEOREM NothingOld == Spec => []NothingFromBeforeARefresh
<1>1. IInv => NothingFromBeforeARefresh
  BY DEF IInv
<1> QED
  BY <1>1, Invariance, PTL

(* No read that was in flight when the app left a connection, nor one that is
   begun later, gives that connection a schema again. *)
THEOREM LeftForGood == Spec => []LeftIsForgotten
<1>1. IInv => LeftIsForgotten
  BY DEF IInv
<1> QED
  BY <1>1, Invariance, PTL
-----------------------------------------------------------------------------
(* The keys listed as loading. *)
LoadInv == loading = [c \in Conns |-> loading[c]] /\ LoadingIsReading
Reading(r) == r.step \in {"asked", "answered"}

(* A step of one chain that lists nothing: the chain reads on what it read. *)
LEMMA LoadKept ==
  ASSUME LoadInv, NEW ch \in Chains, \A h \in Chains : h # ch => chains'[h] = chains[h], loading' = loading,
         Reading(chains[ch]) => /\ Reading(chains'[ch]) /\ chains'[ch].conn = chains[ch].conn
                                /\ Head(chains'[ch].todo) = Head(chains[ch].todo)
  PROVE  LoadInv'
<1>1. \A h \in Chains, c \in Conns : \A k : chains[h].conn = c /\ Reads(h, k) => chains'[h].conn = c /\ Reads(h, k)'
  BY DEF Reads, Reading
<1>2. LoadingIsReading'
  BY <1>1 DEF LoadInv, LoadingIsReading
<1> QED
  BY <1>2 DEF LoadInv

(* One chain goes from one record to another. *)
LEMMA OneChain ==
  ASSUME IInv, NEW ch \in Chains, NEW r, chains' = [chains EXCEPT ![ch] = r]
  PROVE  chains'[ch] = r /\ \A h \in Chains : h # ch => chains'[h] = chains[h]
BY DEF IInv, CacheType

LEMMA LoadStep == ASSUME IInv, LoadInv, [Next]_vars PROVE LoadInv'
<1>1. ASSUME NEW ch \in Chains, ~Reading(chains[ch]), NEW r, chains' = [chains EXCEPT ![ch] = r], loading' = loading
      PROVE  LoadInv'
  BY <1>1, OneChain, LoadKept
<1>2. ASSUME NEW ch \in Chains, NEW r, Begin(ch, r), loading' = loading PROVE LoadInv'
  <2>1. chains' = [chains EXCEPT ![ch] = r] /\ ~Reading(chains[ch])
    BY <1>2, IdleShape DEF Begin, Reading
  <2> QED
    BY <1>1, <1>2, <2>1
<1>3. ASSUME chains' = chains, loading' = loading PROVE LoadInv'
  BY <1>3 DEF LoadInv, LoadingIsReading, Reads
<1>4. ASSUME NEW ch \in Chains, EnsureCached(ch) PROVE LoadInv'
  <2>1. ~Reading(chains[ch]) /\ loading' = loading
    BY <1>4 DEF EnsureCached, Reading
  <2>2. PICK a : Resume(ch, a)
    BY <1>4 DEF EnsureCached
  <2>3. \A h \in Chains : h # ch => chains'[h] = chains[h]
    BY <2>2 DEF Resume, IInv, CacheType
  <2> QED
    BY <2>1, <2>3, LoadKept
<1>5. ASSUME NEW ch \in Chains, EnsureFetches(ch) PROVE LoadInv'
  <2> DEFINE v == chains[ch]
             r == [v EXCEPT !.step = "asked", !.gen = generation[v.conn]]
  <2>1. /\ v.step = "next" /\ chains' = [chains EXCEPT ![ch] = r]
        /\ loading' = [loading EXCEPT ![v.conn] = @ \cup {Head(v.todo)}]
    BY <1>5 DEF EnsureFetches, IInv, CacheType
  <2>2. Shape(v) /\ v.conn \in Conns
    BY <2>1, AtWork
  <2>3. r.step = "asked" /\ r.conn = v.conn /\ r.todo = v.todo
    BY <2>2 DEF Shape
  <2>4. chains'[ch] = r /\ \A h \in Chains : h # ch => chains'[h] = chains[h]
    BY <2>1, OneChain
  <2>5. \A k : k = Head(v.todo) => Reads(ch, k)'
    BY <2>3, <2>4 DEF Reads
  <2>6. \A h \in Chains : \A k : Reads(h, k) => h # ch /\ Reads(h, k)'
    BY <2>1, <2>4 DEF Reads
  <2>7. /\ loading' = [c \in Conns |-> loading'[c]]
        /\ \A c \in Conns : \A k \in loading'[c] : k \in loading[c] \/ (c = v.conn /\ k = Head(v.todo))
    BY <2>1 DEF LoadInv
  <2>8. chains'[ch].conn = v.conn
    BY <2>3, <2>4
  <2> HIDE DEF r
  <2>9. ASSUME NEW c \in Conns, NEW k \in loading'[c] PROVE \E h \in Chains : chains'[h].conn = c /\ Reads(h, k)'
    <3>1. CASE k \in loading[c]
      <4>1. PICK h \in Chains : chains[h].conn = c /\ Reads(h, k)
        BY <3>1 DEF LoadInv, LoadingIsReading
      <4> QED
        BY <2>4, <2>6, <4>1
    <3>2. CASE c = v.conn /\ k = Head(v.todo)
      BY <2>5, <2>8, <3>2
    <3> QED
      BY <2>7, <3>1, <3>2
  <2> QED
    BY <2>7, <2>9 DEF LoadInv, LoadingIsReading
<1>6. ASSUME NEW ch \in Chains, EnsureReturns(ch) PROVE LoadInv'
  <2> DEFINE v == chains[ch]
             key == Head(v.todo)
  <2>1. v.step = "answered" /\ Resume(ch, v.answer) /\ loading' = [loading EXCEPT ![v.conn] = @ \ {key}]
    BY <1>6 DEF EnsureReturns
  <2>2. v.conn \in Conns
    BY <2>1, AtWork
  <2>3. \A h \in Chains : h # ch => chains'[h] = chains[h]
    BY <2>1 DEF Resume, IInv, CacheType
  <2>4. /\ loading' = [c \in Conns |-> loading'[c]]
        /\ \A c \in Conns : \A k \in loading'[c] : k \in loading[c] /\ ~(c = v.conn /\ k = key)
    BY <2>1, <2>2 DEF LoadInv
  <2>5. \A k : Reads(ch, k) => k = key
    BY DEF Reads
  <2> HIDE DEF key
  <2>6. ASSUME NEW c \in Conns, NEW k \in loading'[c] PROVE \E h \in Chains : chains'[h].conn = c /\ Reads(h, k)'
    <3>1. PICK h \in Chains : chains[h].conn = c /\ Reads(h, k)
      BY <2>4 DEF LoadInv, LoadingIsReading
    <3>2. h # ch
      BY <2>4, <2>5, <3>1
    <3> QED
      BY <2>3, <3>1, <3>2 DEF Reads
  <2> QED
    BY <2>4, <2>6 DEF LoadInv, LoadingIsReading
<1>7. ASSUME NEW ch \in Chains, AfterChange(ch) PROVE LoadInv'
  <2>1. ~Reading(chains[ch]) /\ loading' = loading /\ \E r : chains' = [chains EXCEPT ![ch] = r]
    BY <1>7 DEF AfterChange, invalidate, Reading, IInv, CacheType
  <2> QED
    BY <1>1, <2>1
<1>8. ASSUME NEW ch \in Chains, Respond(ch) PROVE LoadInv'
  <2> DEFINE v == chains[ch]
  <2>1. PICK a : chains' = [chains EXCEPT ![ch].step = "answered", ![ch].answer = a]
    BY <1>8 DEF Respond
  <2> DEFINE r == [v EXCEPT !.step = "answered", !.answer = a]
  <2>2. chains' = [chains EXCEPT ![ch] = r] /\ v.step = "asked" /\ loading' = loading
    BY <1>8, <2>1 DEF Respond, IInv, CacheType
  <2>3. Shape(v)
    BY <2>2, AtWork
  <2>4. r.step = "answered" /\ r.conn = v.conn /\ r.todo = v.todo
    BY <2>3 DEF Shape
  <2> HIDE DEF r
  <2> QED
    BY <2>2, <2>4, OneChain, LoadKept DEF Reading
<1>9. ASSUME NEW ch \in Chains, StatementRuns(ch) \/ StatementFails(ch) PROVE LoadInv'
  <2>1. ~Reading(chains[ch]) /\ loading' = loading /\ \E r : chains' = [chains EXCEPT ![ch] = r]
    BY <1>9 DEF StatementRuns, StatementFails, Reading, IInv, CacheType
  <2> QED
    BY <1>1, <2>1
<1>10. ASSUME NEW ch \in Chains, FilterCleared(ch) PROVE LoadInv'
  <2> DEFINE v == chains[ch]
  <2>1. PICK n \in 1..(Len(v.todo) - 1) : chains' = [chains EXCEPT ![ch].todo = SubSeq(v.todo, 1, n)]
    BY <1>10 DEF FilterCleared
  <2> DEFINE r == [v EXCEPT !.todo = SubSeq(v.todo, 1, n)]
  <2>2. chains' = [chains EXCEPT ![ch] = r] /\ v.step # "idle" /\ loading' = loading
    BY <1>10, <2>1 DEF FilterCleared, IInv, CacheType
  <2>3. Shape(v)
    BY <2>2, AtWork
  <2>4. r.step = v.step /\ r.conn = v.conn /\ r.todo = SubSeq(v.todo, 1, n)
    BY <2>3 DEF Shape
  <2>5. n \in Nat /\ n >= 1
    OBVIOUS
  <2>6. Head(r.todo) = Head(v.todo)
    BY <2>4, <2>5
  <2> HIDE DEF r
  <2> QED
    BY <2>2, <2>4, <2>6, OneChain, LoadKept DEF Reading
<1>11. ASSUME NEW ch \in Chains, NEW c \in Conns, User(ch, c) PROVE LoadInv'
  BY <1>2, <1>11 DEF User, Read, Filter, Refresh, runSchemaChange, invalidate
<1>12. ASSUME NEW c \in Conns, Outside(c) PROVE LoadInv'
  <2>1. CASE Changed(c) \/ BackendDisconnects(c)
    BY <1>3, <2>1 DEF Changed, BackendDisconnects
  <2>2. CASE disconnect(c)
    <3>1. chains' = chains /\ loading' = [loading EXCEPT ![c] = {}]
      BY <2>2 DEF disconnect, forget
    <3>2. loading' = [d \in Conns |-> loading'[d]] /\ \A d \in Conns : loading'[d] \subseteq loading[d]
      BY <3>1 DEF LoadInv
    <3> QED
      BY <3>1, <3>2 DEF LoadInv, LoadingIsReading, Reads
  <2> QED
    BY <1>12, <2>1, <2>2 DEF Outside
<1>13. CASE UNCHANGED vars
  BY <1>3, <1>13 DEF vars
<1> QED
  BY <1>4, <1>5, <1>6, <1>7, <1>8, <1>9, <1>10, <1>11, <1>12, <1>13 DEF Next, Step, Answer

(* A key is listed as loading only while some chain reads it, whichever of several
   reads of it returns first and whether or not its answer was overtaken. *)
THEOREM LoadingEnds == Spec => []LoadingIsReading
<1>1. Init => LoadInv
  BY DEF Init, LoadInv, LoadingIsReading
<1>2. IInv /\ LoadInv /\ [Next]_vars => LoadInv'
  BY LoadStep
<1>3. LoadInv => LoadingIsReading
  BY DEF LoadInv
<1> QED
  BY <1>1, <1>2, <1>3, Invariance, PTL DEF Spec
=============================================================================
