-------------------------- MODULE GridEditingProofs --------------------------
(***************************************************************************)
(* Theorems about GridEditing for any cells, values, rows, queries and     *)
(* bounds: a row that was added is inserted once, edits that a run would   *)
(* discard are counted, rows are matched on their own table's key, and     *)
(* edits stay on the results they were made on.                            *)
(***************************************************************************)
EXTENDS GridEditing, TLAPS, FiniteSetTheorems, SequenceTheorems

InsertRows == [row : 1..MaxInserts, value : Values \cup {Null}]

(* The actions a step of history is made of. *)
Actions ==
  [type : {"setCell"}, at : Cells, value : Values \cup {Null}]
    \cup [type : {"addInsertRow"}, at : Nat, value : 1..MaxInserts]
    \cup [type : {"removeInsertRow"}, at : Nat, value : {Null}]
    \cup [type : {"setInsertCell"}, at : Nat, value : Values \cup {Null}]
    \cup [type : {"setDeleted"}, at : Rows, value : BOOLEAN]

Steps == [undo : Actions, redo : Actions, on : 1..MaxResults]

(* A step taken with a rows added leaves b: a row is added at the end and taken
   back from there, and no other step changes their number. *)
Fits(h, a, b) ==
  IF h.redo.type = "addInsertRow"
  THEN h.redo.at = a + 1 /\ h.undo.type = "removeInsertRow" /\ h.undo.at = a + 1 /\ b = a + 1
  ELSE h.redo.type # "removeInsertRow" /\ h.undo.type \notin {"addInsertRow", "removeInsertRow"} /\ b = a

(* The history in the order made: the steps done, then those undone. *)
StepAt(d, u, i) == IF i <= Len(d) THEN d[i] ELSE u[Len(d) + Len(u) + 1 - i]

(* w counts the rows added before each step; now there are those of the steps done. *)
Counts(w, p, d, u) ==
  /\ Len(p.inserts) = w[Len(d) + 1]
  /\ \A i \in 1..(Len(d) + Len(u)) : Fits(StepAt(d, u, i), w[i], w[i + 1])

(* Edits with their history. *)
Editing(p, d, u) ==
  /\ p \in Edits /\ d \in Seq(Steps) /\ u \in Seq(Steps)
  /\ Len(d) + Len(u) <= MaxSteps
  /\ \E w \in [1..(Len(d) + Len(u) + 1) -> Nat] : Counts(w, p, d, u)

(* Row n is among the rows added, or a step of the history can bring it back. *)
HasRow(p, n) == \E i \in DOMAIN p.inserts : p.inserts[i].row = n
Adds(h, n) == h.redo.type = "addInsertRow" /\ h.redo.value = n
Knows(p, d, u, n) ==
  \/ HasRow(p, n)
  \/ \E i \in DOMAIN d : Adds(d[i], n)
  \/ \E i \in DOMAIN u : Adds(u[i], n)

(* Edits are on a result exactly if there are some. *)
Placed(p) == p.on = {} <=> ~Holds(p)

Drafts == [owner : 1..MaxResults, editMode : BOOLEAN, pending : Edits, done : Seq(Steps), undone : Seq(Steps)]
Saves == [mount : 1..MaxMounts, query : Queries, by : Queries \cup {Null},
          read : {"asked", "failed", "answered"}, edits : Edits, stage : {"pressed", "applied"}]

TypeInv ==
  /\ result \in 1..MaxResults /\ query \in Queries \cup {Null} /\ run \in Queries \cup {Null}
  /\ key \in Queries \cup {Null} /\ asking \in Queries \cup {Null}
  /\ shown \in BOOLEAN /\ mounts \in 1..MaxMounts /\ editMode \in BOOLEAN
  /\ (~shown => mounts < MaxMounts)
  /\ Editing(pending, done, undone)
  /\ (Holds(pending) => editMode)
  /\ (kept # Null => /\ kept \in Drafts
                     /\ Editing(kept.pending, kept.done, kept.undone)
                     /\ (Holds(kept.pending) => kept.editMode)
                     /\ kept.owner <= result)
  /\ saves \subseteq Saves /\ \A s \in saves : s.mount <= mounts
  /\ inserts \in 0..MaxInserts /\ applied \in [1..MaxInserts -> Nat]
  /\ counted \in BOOLEAN /\ away \in BOOLEAN

(* The row key is that of the rows on screen, or is being asked for. *)
KeyInv ==
  /\ ~shown => key = Null /\ asking = Null
  /\ asking # Null => asking = query
  /\ asking = Null => key \in {query, Null}

(* Unless the tab was left during a save, a save is of the grid on screen, and the only one. *)
SaveInv ==
  ~away => /\ (saves # {} => shown)
           /\ \A s \in saves : s.mount = mounts
           /\ \A s, t \in saves : s = t

(* A row inserted is of the save to be answered, or nothing knows of it any more. *)
Forgotten(n) ==
  /\ ~Knows(pending, done, undone, n)
  /\ (~shown /\ kept # Null => ~Knows(kept.pending, kept.done, kept.undone, n))
  /\ \A s \in saves : ~HasRow(s.edits, n)

InsertInv ==
  /\ \A n \in 1..MaxInserts : n > inserts =>
       /\ applied[n] = 0 /\ Forgotten(n)
       /\ (kept # Null => ~Knows(kept.pending, kept.done, kept.undone, n))
  /\ ~away => \A n \in 1..MaxInserts :
       /\ applied[n] <= 1
       /\ (applied[n] > 0 => (\E s \in saves : s.stage = "applied") \/ Forgotten(n))

(* With history of earlier results left alone, edits are on the result on screen. *)
PlaceInv ==
  /\ Placed(pending) /\ (shown => pending.on \subseteq {result}) /\ (~shown => pending.on = {})
  /\ (kept # Null => Placed(kept.pending) /\ kept.pending.on \subseteq {kept.owner})
  /\ \A s \in saves : \E r \in 1..MaxResults : s.edits.on = {r}

IInv == TypeInv /\ KeyInv /\ SaveInv /\ InsertInv /\ HeldIsCounted /\ SavedByKey
-----------------------------------------------------------------------------
(* A row added behind the last one. *)
LEMMA InsertLast ==
  ASSUME NEW S, NEW seq \in Seq(S), NEW elt \in S
  PROVE  InsertAt(seq, Len(seq) + 1, elt) = Append(seq, elt)
<1> DEFINE n == Len(seq) + 1
<1>0. n \in Nat /\ n - 1 = Len(seq)
  OBVIOUS
<1> HIDE DEF n
<1>1. InsertAt(seq, n, elt) = SubSeq(seq, 1, n - 1) \o <<elt>> \o SubSeq(seq, n, Len(seq))
  BY DEF InsertAt
<1>2. SubSeq(seq, 1, n - 1) = seq /\ SubSeq(seq, n, Len(seq)) = <<>>
  BY <1>0
<1>3. Append(seq, elt) = seq \o <<elt>> /\ Append(seq, elt) \in Seq(S)
  BY AppendIsConcat, AppendProperties
<1> QED
  BY <1>1, <1>2, <1>3, ConcatEmptySeq DEF n

(* What an action does to the rows added. *)
LEMMA ApplyRows ==
  ASSUME NEW p \in Edits, NEW a \in Actions,
         a.type = "addInsertRow" => a.at = Len(p.inserts) + 1,
         a.type = "removeInsertRow" => a.at = Len(p.inserts) /\ a.at > 0
  PROVE  LET s == p.inserts
             t == applyAction(a, p).inserts
         IN /\ t \in Seq(InsertRows)
            /\ Len(t) = CASE a.type = "addInsertRow" -> Len(s) + 1
                          [] a.type = "removeInsertRow" -> Len(s) - 1
                          [] OTHER -> Len(s)
            /\ \A i \in DOMAIN t : \/ i \in DOMAIN s /\ t[i].row = s[i].row
                                   \/ a.type = "addInsertRow" /\ t[i].row = a.value
<1> DEFINE s == p.inserts
           t == applyAction(a, p).inserts
<1>1. s \in Seq(InsertRows) /\ p = [cells |-> p.cells, inserts |-> s, deletes |-> p.deletes, on |-> p.on]
  BY DEF Edits, InsertRows
<1>2. CASE a.type = "setCell"
  BY <1>1, <1>2 DEF applyAction
<1>3. CASE a.type = "setDeleted"
  BY <1>1, <1>3 DEF applyAction
<1>4. CASE a.type = "addInsertRow"
  <2>1. a.value \in 1..MaxInserts
    BY <1>4 DEF Actions
  <2> DEFINE e == [row |-> a.value, value |-> Null]
  <2>2. e \in InsertRows
    BY <2>1 DEF InsertRows
  <2>3. t = InsertAt(s, Len(s) + 1, e)
    BY <1>1, <1>4 DEF applyAction
  <2>5. t = Append(s, e)
    BY <1>1, <2>2, <2>3, InsertLast
  <2> HIDE DEF t
  <2>6. t \in Seq(InsertRows) /\ Len(t) = Len(s) + 1
    BY <1>1, <2>2, <2>5
  <2>7. \A i \in DOMAIN t : (i \in DOMAIN s /\ t[i] = s[i]) \/ t[i] = e
    BY <1>1, <2>2, <2>5
  <2> QED
    BY <1>4, <2>6, <2>7 DEF t
<1>5. CASE a.type = "removeInsertRow"
  <2>1. t = SubSeq(s, 1, Len(s) - 1) \o SubSeq(s, Len(s) + 1, Len(s))
    BY <1>1, <1>5 DEF applyAction, RemoveAt
  <2>2. t = SubSeq(s, 1, Len(s) - 1)
    <3>1. SubSeq(s, Len(s) + 1, Len(s)) = <<>> /\ SubSeq(s, 1, Len(s) - 1) \in Seq(InsertRows)
      BY <1>1, <1>5
    <3> QED
      BY <2>1, <3>1, ConcatEmptySeq
  <2> HIDE DEF t
  <2>3. Len(s) > 0
    BY <1>1, <1>5
  <2>4. t \in Seq(InsertRows) /\ Len(t) = Len(s) - 1 /\ \A i \in 1..Len(t) : t[i] = s[i]
    <3>1. \A i \in 1..(Len(s) - 1) : s[i] \in InsertRows
      BY <1>1
    <3> DEFINE n == Len(s) - 1
    <3>2. n \in Nat /\ n = Len(s) - 1
      BY <1>1, <2>3
    <3> HIDE DEF n
    <3>3. t = SubSeq(s, 1, n)
      BY <2>2 DEF n
    <3>4. /\ t \in Seq(InsertRows)
          /\ Len(t) = IF 1 <= n THEN n - 1 + 1 ELSE 0
          /\ \A i \in 1..(n - 1 + 1) : t[i] = s[1 + i - 1]
      BY <3>1, <3>2, <3>3, SubSeqProperties DEF n
    <3>5. Len(t) = n /\ \A i \in 1..n : t[i] = s[i]
      BY <3>2, <3>4
    <3> QED
      BY <3>2, <3>4, <3>5
  <2>5. \A i \in DOMAIN t : i \in DOMAIN s /\ t[i] = s[i]
    BY <1>1, <2>4
  <2> QED
    BY <1>5, <2>4, <2>5 DEF t
<1>6. CASE a.type = "setInsertCell"
  <2>1. a.value \in Values \cup {Null}
    BY <1>6 DEF Actions
  <2>2. t = [s EXCEPT ![a.at].value = a.value]
    BY <1>1, <1>6 DEF applyAction
  <2> HIDE DEF t
  <2>3. DOMAIN t = DOMAIN s /\ \A i \in DOMAIN s : t[i] = IF i = a.at THEN [s[i] EXCEPT !.value = a.value] ELSE s[i]
    BY <1>1, <2>2
  <2>4. \A i \in DOMAIN s : t[i] \in InsertRows /\ t[i].row = s[i].row
    <3> SUFFICES ASSUME NEW i \in DOMAIN s PROVE t[i] \in InsertRows /\ t[i].row = s[i].row
      OBVIOUS
    <3>1. s[i] \in InsertRows
      BY <1>1
    <3> QED
      BY <3>1, <2>1, <2>3 DEF InsertRows
  <2>5. t = [i \in 1..Len(s) |-> t[i]]
    BY <1>1, <2>2, <2>3
  <2>6. t \in Seq(InsertRows) /\ Len(t) = Len(s)
    BY <1>1, <2>3, <2>4, <2>5
  <2> QED
    BY <1>6, <2>3, <2>4, <2>6 DEF t
<1> QED
  BY <1>2, <1>3, <1>4, <1>5, <1>6 DEF Actions

(* An action leaves edits edits, and where they were made alone. *)
LEMMA ApplyType ==
  ASSUME NEW p \in Edits, NEW a \in Actions,
         a.type = "addInsertRow" => a.at = Len(p.inserts) + 1,
         a.type = "removeInsertRow" => a.at = Len(p.inserts) /\ a.at > 0
  PROVE  applyAction(a, p) \in Edits /\ applyAction(a, p).on = p.on
<1>1. applyAction(a, p).inserts \in Seq(InsertRows)
  BY ApplyRows
<1>2. p = [cells |-> p.cells, inserts |-> p.inserts, deletes |-> p.deletes, on |-> p.on]
      /\ p.cells \in [Cells -> Values \cup {Null}] /\ p.deletes \subseteq Rows
  BY DEF Edits
<1>3. CASE a.type = "setCell"
  <2>1. a.value \in Values \cup {Null} /\ a.at \in Cells
    BY <1>3 DEF Actions
  <2>2. applyAction(a, p) = [p EXCEPT !.cells = [p.cells EXCEPT ![a.at] = a.value]]
    BY <1>2, <1>3 DEF applyAction
  <2>3. [p.cells EXCEPT ![a.at] = a.value] \in [Cells -> Values \cup {Null}]
    BY <1>2, <2>1
  <2> QED
    BY <2>2, <2>3 DEF Edits
<1>4. CASE a.type = "setDeleted"
  <2>1. a.at \in Rows
    BY <1>4 DEF Actions
  <2>2. applyAction(a, p) = [p EXCEPT !.deletes = IF a.value THEN p.deletes \cup {a.at} ELSE p.deletes \ {a.at}]
    BY <1>2, <1>4 DEF applyAction
  <2> QED
    BY <1>2, <2>1, <2>2 DEF Edits
<1>5. CASE a.type \in {"addInsertRow", "removeInsertRow", "setInsertCell"}
  <2>1. applyAction(a, p) = [p EXCEPT !.inserts = applyAction(a, p).inserts]
    BY <1>2, <1>5 DEF applyAction
  <2> QED
    BY <1>1, <2>1 DEF Edits, InsertRows
<1> QED
  BY <1>3, <1>4, <1>5 DEF Actions

(* Where edits are noted to be made changes nothing else of them. *)
LEMMA OnType ==
  ASSUME NEW p \in Edits, NEW r \in 1..MaxResults
  PROVE  /\ On(p, r) \in Edits /\ On(p, r).inserts = p.inserts
         /\ Placed(On(p, r)) /\ On(p, r).on \subseteq p.on \cup {r}
<1> DEFINE q == On(p, r)
<1>1. q \in Edits /\ q.cells = p.cells /\ q.inserts = p.inserts /\ q.deletes = p.deletes
  BY DEF On, Edits
<1>2. Holds(q) <=> Holds(p)
  BY <1>1 DEF Holds
<1>3. q.on = IF Holds(p) THEN p.on \cup {r} ELSE {}
  BY DEF On, Edits
<1> QED
  BY <1>1, <1>2, <1>3 DEF Placed
-----------------------------------------------------------------------------
(* The ends of a sequence. *)
LEMMA Ends ==
  ASSUME NEW S, NEW seq \in Seq(S), seq # <<>>
  PROVE  /\ Front(seq) \in Seq(S) /\ Len(Front(seq)) = Len(seq) - 1
         /\ \A i \in 1..(Len(seq) - 1) : Front(seq)[i] = seq[i]
         /\ Last(seq) \in S /\ Last(seq) = seq[Len(seq)] /\ Len(seq) > 0
<1> DEFINE n == Len(seq) - 1
<1>1. n \in Nat /\ n = Len(seq) - 1 /\ Len(seq) \in 1..Len(seq)
  BY EmptySeq
<1> HIDE DEF n
<1>2. Front(seq) = SubSeq(seq, 1, n)
  BY DEF Front, n
<1>3. \A i \in 1..n : seq[i] \in S
  BY <1>1
<1>4. /\ Front(seq) \in Seq(S)
      /\ Len(Front(seq)) = IF 1 <= n THEN n - 1 + 1 ELSE 0
      /\ \A i \in 1..(n - 1 + 1) : Front(seq)[i] = seq[1 + i - 1]
  BY <1>1, <1>2, <1>3, SubSeqProperties
<1>5. Len(Front(seq)) = n /\ \A i \in 1..n : Front(seq)[i] = seq[i]
  BY <1>1, <1>4
<1> QED
  BY <1>1, <1>4, <1>5 DEF Last

(* A step made: it is the last one of the history, and rows are counted on. *)
LEMMA StepEdits ==
  ASSUME NEW p, NEW d, NEW u, Editing(p, d, u), Len(d) < MaxSteps,
         NEW q \in Edits, NEW h \in Steps, Fits(h, Len(p.inserts), Len(q.inserts)),
         \A i \in DOMAIN q.inserts : HasRow(p, q.inserts[i].row) \/ Adds(h, q.inserts[i].row)
  PROVE  /\ Editing(q, Append(d, h), <<>>)
         /\ \A n : Knows(q, Append(d, h), <<>>, n) => Knows(p, d, u, n) \/ Adds(h, n)
<1>1. PICK w \in [1..(Len(d) + Len(u) + 1) -> Nat] : Counts(w, p, d, u)
  BY DEF Editing
<1> DEFINE d2 == Append(d, h)
           v == [i \in 1..(Len(d2) + 1) |-> IF i <= Len(d) + 1 THEN w[i] ELSE Len(q.inserts)]
<1>2. /\ d2 \in Seq(Steps) /\ Len(d2) = Len(d) + 1 /\ d2[Len(d) + 1] = h
      /\ \A i \in 1..Len(d) : d2[i] = d[i]
  BY AppendProperties DEF Editing
<1>3. Len(d) \in Nat /\ Len(u) \in Nat /\ Len(q.inserts) \in Nat /\ MaxSteps \in Nat
  BY GridAssumption DEF Editing, Edits
<1>4. Len(<<>>) = 0 /\ <<>> \in Seq(Steps)
  OBVIOUS
<1> HIDE DEF d2
<1>5. v \in [1..(Len(d2) + 0 + 1) -> Nat]
  BY <1>2, <1>3
<1>6. ASSUME NEW i \in 1..(Len(d2) + 0) PROVE Fits(StepAt(d2, <<>>, i), v[i], v[i + 1])
  <2>1. StepAt(d2, <<>>, i) = d2[i]
    BY <1>2, <1>3, <1>6 DEF StepAt
  <2>2. CASE i <= Len(d)
    <3>1. StepAt(d, u, i) = d[i] /\ Fits(StepAt(d, u, i), w[i], w[i + 1])
      BY <1>1, <1>3, <2>2 DEF Counts, StepAt
    <3> QED
      BY <1>2, <1>3, <2>1, <2>2, <3>1
  <2>3. CASE i = Len(d) + 1
    <3>1. v[i] = Len(p.inserts) /\ v[i + 1] = Len(q.inserts)
      BY <1>1, <1>2, <1>3, <2>3 DEF Counts
    <3> QED
      BY <1>2, <2>1, <2>3, <3>1
  <2> QED
    BY <1>2, <1>3, <2>2, <2>3
<1>7. Len(q.inserts) = v[Len(d2) + 1]
  BY <1>2, <1>3
<1>8. Counts(v, q, d2, <<>>)
  BY <1>4, <1>6, <1>7 DEF Counts
<1> HIDE DEF v
<1>9. Editing(q, d2, <<>>)
  BY <1>2, <1>3, <1>4, <1>5, <1>8 DEF Editing
<1>10. ASSUME NEW n, Knows(q, d2, <<>>, n) PROVE Knows(p, d, u, n) \/ Adds(h, n)
  <2>1. CASE HasRow(q, n)
    BY <2>1 DEF HasRow, Knows
  <2>2. CASE \E i \in DOMAIN d2 : Adds(d2[i], n)
    <3>1. PICK i \in 1..Len(d2) : Adds(d2[i], n)
      BY <1>2, <2>2
    <3>2. i \in 1..Len(d) \/ i = Len(d) + 1
      BY <1>2, <1>3
    <3>3. DOMAIN d = 1..Len(d)
      BY DEF Editing
    <3> QED
      BY <1>2, <3>1, <3>2, <3>3 DEF Knows
  <2> QED
    BY <1>4, <1>10, <2>1, <2>2 DEF Knows
<1> QED
  BY <1>9, <1>10 DEF d2

(* The last step done, taken back. *)
LEMMA UndoEdits ==
  ASSUME NEW p, NEW d, NEW u, Editing(p, d, u), d # <<>>,
         NEW q, q = applyAction(Last(d).undo, p)
  PROVE  /\ q \in Edits /\ q.on = p.on
         /\ \A o \in Edits : o.inserts = q.inserts =>
              /\ Editing(o, Front(d), Append(u, Last(d)))
              /\ \A n : Knows(o, Front(d), Append(u, Last(d)), n) => Knows(p, d, u, n)
<1>1. PICK w \in [1..(Len(d) + Len(u) + 1) -> Nat] : Counts(w, p, d, u)
  BY DEF Editing
<1> DEFINE h == Last(d)
           d2 == Front(d)
           u2 == Append(u, h)
           a == h.undo
<1>2. /\ d2 \in Seq(Steps) /\ Len(d2) = Len(d) - 1 /\ Len(d) > 0
      /\ \A i \in 1..(Len(d) - 1) : d2[i] = d[i]
      /\ h \in Steps /\ h = d[Len(d)]
  BY Ends DEF Editing
<1>3. /\ u2 \in Seq(Steps) /\ Len(u2) = Len(u) + 1 /\ u2[Len(u) + 1] = h
      /\ \A i \in 1..Len(u) : u2[i] = u[i]
  BY <1>2, AppendProperties DEF Editing
<1>4. Len(d) \in Nat /\ Len(u) \in Nat /\ Len(p.inserts) \in Nat /\ MaxSteps \in Nat
      /\ Len(d) + Len(u) <= MaxSteps /\ p \in Edits
  BY GridAssumption DEF Editing, Edits
<1> HIDE DEF h, d2, u2
<1>5. Fits(h, w[Len(d)], Len(p.inserts)) /\ w[Len(d)] \in Nat
  <2>1. Len(d) \in 1..(Len(d) + Len(u)) /\ StepAt(d, u, Len(d)) = h
    BY <1>2, <1>4 DEF StepAt
  <2>2. w[Len(d)] \in Nat
    BY <1>1, <2>1, <1>4
  <2> QED
    BY <1>1, <2>1, <2>2 DEF Counts
<1>6. a \in Actions /\ h.redo \in Actions
  BY <1>2 DEF Steps
<1>7. a.type # "addInsertRow"
  BY <1>5 DEF Fits
<1>8. a.type = "removeInsertRow" => a.at = Len(p.inserts) /\ a.at > 0 /\ w[Len(d)] = Len(p.inserts) - 1
  BY <1>5 DEF Fits
<1>9. q \in Edits /\ q.on = p.on
  BY <1>4, <1>6, <1>7, <1>8, ApplyType DEF h
<1>10. /\ Len(q.inserts) = w[Len(d)]
       /\ \A i \in DOMAIN q.inserts : i \in DOMAIN p.inserts /\ q.inserts[i].row = p.inserts[i].row
  <2>1. /\ Len(q.inserts) = CASE a.type = "addInsertRow" -> Len(p.inserts) + 1
                              [] a.type = "removeInsertRow" -> Len(p.inserts) - 1
                              [] OTHER -> Len(p.inserts)
        /\ \A i \in DOMAIN q.inserts : \/ i \in DOMAIN p.inserts /\ q.inserts[i].row = p.inserts[i].row
                                       \/ a.type = "addInsertRow" /\ q.inserts[i].row = a.value
    BY <1>4, <1>6, <1>7, <1>8, ApplyRows DEF h
  <2>2. a.type # "removeInsertRow" => w[Len(d)] = Len(p.inserts)
    BY <1>5 DEF Fits
  <2> QED
    BY <2>1, <2>2, <1>7, <1>8
<1>11. ASSUME NEW i \in 1..(Len(d2) + Len(u2)) PROVE StepAt(d2, u2, i) = StepAt(d, u, i)
  <2>1. CASE i <= Len(d) - 1
    BY <1>2, <1>4, <2>1 DEF StepAt
  <2>2. CASE i = Len(d)
    BY <1>2, <1>3, <1>4, <2>2 DEF StepAt
  <2>3. CASE i > Len(d)
    <3> DEFINE j == Len(d) + Len(u) + 1 - i
    <3>1. i \in Int /\ i <= Len(d) + Len(u)
      BY <1>2, <1>3, <1>4
    <3>2. j \in 1..Len(u)
      BY <1>4, <2>3, <3>1
    <3>3. u2[j] = u[j]
      BY <1>3, <3>2
    <3>4. StepAt(d2, u2, i) = u2[Len(d2) + Len(u2) + 1 - i] /\ StepAt(d, u, i) = u[j]
      BY <1>2, <1>4, <2>3, <3>1 DEF StepAt
    <3>5. Len(d2) + Len(u2) + 1 - i = j
      BY <1>2, <1>3, <1>4, <3>1
    <3> QED
      BY <3>3, <3>4, <3>5
  <2> QED
    BY <1>2, <1>3, <1>4, <2>1, <2>2, <2>3
<1>12. Len(d2) + Len(u2) = Len(d) + Len(u)
  BY <1>2, <1>3, <1>4
<1>13. ASSUME NEW o \in Edits, o.inserts = q.inserts
       PROVE  Editing(o, d2, u2) /\ \A n : Knows(o, d2, u2, n) => Knows(p, d, u, n)
  <2>1. Counts(w, o, d2, u2)
    <3>1. Len(o.inserts) = w[Len(d2) + 1]
      BY <1>2, <1>4, <1>10, <1>13
    <3> QED
      BY <1>1, <1>11, <1>12, <3>1 DEF Counts
  <2>2. Editing(o, d2, u2)
    BY <1>2, <1>3, <1>4, <1>12, <2>1 DEF Editing
  <2>3. ASSUME NEW n, Knows(o, d2, u2, n) PROVE Knows(p, d, u, n)
    <3>1. CASE HasRow(o, n)
      BY <1>10, <1>13, <3>1 DEF HasRow, Knows
    <3>2. CASE \E i \in DOMAIN d2 : Adds(d2[i], n)
      <4>1. DOMAIN d2 = 1..(Len(d) - 1) /\ DOMAIN d = 1..Len(d)
        BY <1>2 DEF Editing
      <4> QED
        BY <1>2, <1>4, <3>2, <4>1 DEF Knows
    <3>3. CASE \E i \in DOMAIN u2 : Adds(u2[i], n)
      <4>1. DOMAIN u2 = 1..(Len(u) + 1) /\ DOMAIN d = 1..Len(d) /\ DOMAIN u = 1..Len(u)
        BY <1>3 DEF Editing
      <4>2. PICK i \in 1..(Len(u) + 1) : Adds(u2[i], n)
        BY <3>3, <4>1
      <4>3. i \in 1..Len(u) \/ i = Len(u) + 1
        BY <1>4
      <4>4. Len(d) \in DOMAIN d
        BY <1>2, <1>4, <4>1
      <4> QED
        BY <1>2, <1>3, <4>1, <4>2, <4>3, <4>4 DEF Knows
    <3> QED
      BY <2>3, <3>1, <3>2, <3>3 DEF Knows
  <2> QED
    BY <2>2, <2>3
<1> QED
  BY <1>9, <1>13 DEF h, d2, u2

(* The last step undone, put back. *)
LEMMA RedoEdits ==
  ASSUME NEW p, NEW d, NEW u, Editing(p, d, u), u # <<>>,
         NEW q, q = applyAction(Last(u).redo, p)
  PROVE  /\ q \in Edits /\ q.on = p.on
         /\ \A o \in Edits : o.inserts = q.inserts =>
              /\ Editing(o, Append(d, Last(u)), Front(u))
              /\ \A n : Knows(o, Append(d, Last(u)), Front(u), n) => Knows(p, d, u, n)
<1>1. PICK w \in [1..(Len(d) + Len(u) + 1) -> Nat] : Counts(w, p, d, u)
  BY DEF Editing
<1> DEFINE h == Last(u)
           d2 == Append(d, h)
           u2 == Front(u)
           a == h.redo
<1>2. /\ u2 \in Seq(Steps) /\ Len(u2) = Len(u) - 1 /\ Len(u) > 0
      /\ \A i \in 1..(Len(u) - 1) : u2[i] = u[i]
      /\ h \in Steps /\ h = u[Len(u)]
  BY Ends DEF Editing
<1>3. /\ d2 \in Seq(Steps) /\ Len(d2) = Len(d) + 1 /\ d2[Len(d) + 1] = h
      /\ \A i \in 1..Len(d) : d2[i] = d[i]
  BY <1>2, AppendProperties DEF Editing
<1>4. Len(d) \in Nat /\ Len(u) \in Nat /\ Len(p.inserts) \in Nat /\ MaxSteps \in Nat
      /\ Len(d) + Len(u) <= MaxSteps /\ p \in Edits
  BY GridAssumption DEF Editing, Edits
<1> HIDE DEF h, d2, u2
<1>5. Fits(h, Len(p.inserts), w[Len(d) + 2]) /\ w[Len(d) + 2] \in Nat
  <2>1. Len(d) + 1 \in 1..(Len(d) + Len(u)) /\ StepAt(d, u, Len(d) + 1) = h
    BY <1>2, <1>4 DEF StepAt
  <2>2. Len(d) + 1 + 1 = Len(d) + 2 /\ w[Len(d) + 2] \in Nat
    BY <1>1, <2>1, <1>4
  <2> QED
    BY <1>1, <2>1, <2>2 DEF Counts
<1>6. a \in Actions
  BY <1>2 DEF Steps
<1>7. a.type # "removeInsertRow"
  BY <1>5 DEF Fits
<1>8. a.type = "addInsertRow" => a.at = Len(p.inserts) + 1 /\ w[Len(d) + 2] = Len(p.inserts) + 1
  BY <1>5 DEF Fits
<1>9. q \in Edits /\ q.on = p.on
  BY <1>4, <1>6, <1>7, <1>8, ApplyType DEF h
<1>10. /\ Len(q.inserts) = w[Len(d) + 2]
       /\ \A i \in DOMAIN q.inserts : \/ i \in DOMAIN p.inserts /\ q.inserts[i].row = p.inserts[i].row
                                      \/ a.type = "addInsertRow" /\ q.inserts[i].row = a.value
  <2>1. /\ Len(q.inserts) = CASE a.type = "addInsertRow" -> Len(p.inserts) + 1
                              [] a.type = "removeInsertRow" -> Len(p.inserts) - 1
                              [] OTHER -> Len(p.inserts)
        /\ \A i \in DOMAIN q.inserts : \/ i \in DOMAIN p.inserts /\ q.inserts[i].row = p.inserts[i].row
                                       \/ a.type = "addInsertRow" /\ q.inserts[i].row = a.value
    BY <1>4, <1>6, <1>7, <1>8, ApplyRows DEF h
  <2>2. a.type # "addInsertRow" => w[Len(d) + 2] = Len(p.inserts)
    BY <1>5 DEF Fits
  <2> QED
    BY <2>1, <2>2, <1>7, <1>8
<1>11. ASSUME NEW i \in 1..(Len(d2) + Len(u2)) PROVE StepAt(d2, u2, i) = StepAt(d, u, i)
  <2>1. CASE i <= Len(d)
    BY <1>3, <1>4, <2>1 DEF StepAt
  <2>2. CASE i = Len(d) + 1
    BY <1>2, <1>3, <1>4, <2>2 DEF StepAt
  <2>3. CASE i > Len(d) + 1
    BY <1>2, <1>3, <1>4, <2>3 DEF StepAt
  <2> QED
    BY <1>2, <1>3, <1>4, <2>1, <2>2, <2>3
<1>12. Len(d2) + Len(u2) = Len(d) + Len(u)
  BY <1>2, <1>3, <1>4
<1>13. ASSUME NEW o \in Edits, o.inserts = q.inserts
       PROVE  Editing(o, d2, u2) /\ \A n : Knows(o, d2, u2, n) => Knows(p, d, u, n)
  <2>1. Counts(w, o, d2, u2)
    <3>1. Len(o.inserts) = w[Len(d2) + 1]
      BY <1>3, <1>4, <1>10, <1>13
    <3> QED
      BY <1>1, <1>11, <1>12, <3>1 DEF Counts
  <2>2. Editing(o, d2, u2)
    BY <1>2, <1>3, <1>4, <1>12, <2>1 DEF Editing
  <2>5. DOMAIN d = 1..Len(d) /\ DOMAIN u = 1..Len(u) /\ Len(u) \in DOMAIN u
    BY <1>2, <1>4 DEF Editing
  <2>3. ASSUME NEW n, Knows(o, d2, u2, n) PROVE Knows(p, d, u, n)
    <3>1. CASE HasRow(o, n)
      <4>1. PICK i \in DOMAIN q.inserts : q.inserts[i].row = n
        BY <1>13, <3>1 DEF HasRow
      <4>2. CASE i \in DOMAIN p.inserts /\ q.inserts[i].row = p.inserts[i].row
        BY <4>1, <4>2 DEF HasRow, Knows
      <4>3. CASE a.type = "addInsertRow" /\ q.inserts[i].row = a.value
        BY <1>2, <2>5, <4>1, <4>3 DEF Adds, Knows
      <4> QED
        BY <1>10, <4>1, <4>2, <4>3
    <3>2. CASE \E i \in DOMAIN u2 : Adds(u2[i], n)
      <4>1. DOMAIN u2 = 1..(Len(u) - 1)
        BY <1>2
      <4> QED
        BY <1>2, <1>4, <2>5, <3>2, <4>1 DEF Knows
    <3>3. CASE \E i \in DOMAIN d2 : Adds(d2[i], n)
      <4>1. DOMAIN d2 = 1..(Len(d) + 1)
        BY <1>3
      <4>2. PICK i \in 1..(Len(d) + 1) : Adds(d2[i], n)
        BY <3>3, <4>1
      <4>3. i \in 1..Len(d) \/ i = Len(d) + 1
        BY <1>4
      <4> QED
        BY <1>2, <1>3, <2>5, <4>2, <4>3 DEF Knows
    <3> QED
      BY <2>3, <3>1, <3>2, <3>3 DEF Knows
  <2> QED
    BY <2>2, <2>3
<1> QED
  BY <1>9, <1>13 DEF h, d2, u2

(* No edits, and no history. *)
LEMMA NoEdits ==
  /\ Nothing \in Edits /\ ~Holds(Nothing) /\ Placed(Nothing) /\ Nothing.on = {}
  /\ Editing(Nothing, <<>>, <<>>) /\ \A n : ~Knows(Nothing, <<>>, <<>>, n)
<1>1. Nothing.inserts = <<>> /\ Nothing.on = {} /\ Nothing.deletes = {} /\ \A c \in Cells : Nothing.cells[c] = Null
  BY DEF Nothing
<1>2. Nothing \in Edits
  BY DEF Nothing, Edits
<1>3. ~Holds(Nothing)
  BY <1>1 DEF Holds
<1> DEFINE w == [i \in 1..1 |-> 0]
<1>4. w \in [1..(Len(<<>>) + Len(<<>>) + 1) -> Nat]
  OBVIOUS
<1>5. Counts(w, Nothing, <<>>, <<>>)
  BY <1>1 DEF Counts
<1>6. Len(<<>>) + Len(<<>>) <= MaxSteps
  BY GridAssumption
<1>7. Editing(Nothing, <<>>, <<>>)
  BY <1>2, <1>4, <1>5, <1>6 DEF Editing
<1>8. \A n : ~Knows(Nothing, <<>>, <<>>, n)
  BY <1>1 DEF Knows, HasRow
<1> QED
  BY <1>1, <1>2, <1>3, <1>7, <1>8 DEF Placed
-----------------------------------------------------------------------------
(* A step is made on the rows on screen. *)
LEMMA StepTaken ==
  ASSUME TypeInv, NEW back \in Actions, NEW forth \in Actions, Step(back, forth),
         forth.type = "addInsertRow" =>
           /\ forth.at = Len(pending.inserts) + 1
           /\ back.type = "removeInsertRow" /\ back.at = Len(pending.inserts) + 1,
         forth.type # "removeInsertRow",
         forth.type # "addInsertRow" => back.type \notin {"addInsertRow", "removeInsertRow"}
  PROVE  /\ Editing(pending', done', undone') /\ Placed(pending')
         /\ pending'.on \subseteq pending.on \cup {result}
         /\ \A n : Knows(pending', done', undone', n) =>
              Knows(pending, done, undone, n) \/ (forth.type = "addInsertRow" /\ n = forth.value)
<1> DEFINE h == [undo |-> back, redo |-> forth, on |-> result]
           q == applyAction(forth, pending)
           o == On(q, result)
<1>1. pending \in Edits /\ result \in 1..MaxResults /\ Editing(pending, done, undone)
  BY DEF TypeInv, Editing
<1>2. pending' = o /\ done' = Append(done, h) /\ undone' = <<>> /\ Len(done) < MaxSteps
  BY DEF Step
<1>3. h \in Steps /\ h.redo = forth /\ h.undo = back
  BY <1>1 DEF Steps
<1>4. q \in Edits /\ q.on = pending.on
  BY <1>1, ApplyType
<1>5. o \in Edits /\ o.inserts = q.inserts /\ Placed(o) /\ o.on \subseteq pending.on \cup {result}
  BY <1>1, <1>4, OnType
<1>6. /\ Len(q.inserts) = CASE forth.type = "addInsertRow" -> Len(pending.inserts) + 1
                            [] forth.type = "removeInsertRow" -> Len(pending.inserts) - 1
                            [] OTHER -> Len(pending.inserts)
      /\ \A i \in DOMAIN q.inserts :
           \/ i \in DOMAIN pending.inserts /\ q.inserts[i].row = pending.inserts[i].row
           \/ forth.type = "addInsertRow" /\ q.inserts[i].row = forth.value
  BY <1>1, ApplyRows
<1> HIDE DEF h, q, o
<1>7. Fits(h, Len(pending.inserts), Len(o.inserts))
  BY <1>3, <1>5, <1>6 DEF Fits
<1>8. \A i \in DOMAIN o.inserts : HasRow(pending, o.inserts[i].row) \/ Adds(h, o.inserts[i].row)
  BY <1>3, <1>5, <1>6 DEF HasRow, Adds
<1>9. /\ Editing(o, Append(done, h), <<>>)
      /\ \A n : Knows(o, Append(done, h), <<>>, n) => Knows(pending, done, undone, n) \/ Adds(h, n)
  BY <1>1, <1>2, <1>3, <1>5, <1>7, <1>8, StepEdits
<1> QED
  BY <1>2, <1>3, <1>5, <1>9 DEF Adds

(* What an edit, an undo and a redo have in common. *)
Edited ==
  /\ shown /\ editMode
  /\ Editing(pending', done', undone') /\ Placed(pending')
  /\ (~StaleHistory => pending'.on \subseteq pending.on \cup {result})
  /\ inserts' \in {inserts, inserts + 1} /\ inserts' <= MaxInserts
  /\ \A n : Knows(pending', done', undone', n) =>
       Knows(pending, done, undone, n) \/ (n = inserts' /\ inserts' = inserts + 1)
  /\ counted' = Holds(pending')
  /\ UNCHANGED <<view, editMode, key, asking, saved>>

LEMMA EditCell == TypeInv /\ editCell => Edited
<1> SUFFICES ASSUME TypeInv, editCell PROVE Edited
  OBVIOUS
<1>1. PICK c \in Cells, v \in Values \cup {Null} : Step(SetCell(c, Null), SetCell(c, v))
  BY DEF editCell
<1>2. /\ SetCell(c, Null) \in Actions /\ SetCell(c, v) \in Actions
      /\ SetCell(c, Null).type = "setCell" /\ SetCell(c, v).type = "setCell"
  BY DEF SetCell, Actions
<1>3. /\ Editing(pending', done', undone') /\ Placed(pending')
      /\ pending'.on \subseteq pending.on \cup {result}
      /\ \A n : Knows(pending', done', undone', n) => Knows(pending, done, undone, n)
  BY <1>1, <1>2, StepTaken
<1> QED
  BY <1>1, <1>3 DEF Edited, editCell, Editable, Step, TypeInv

LEMMA EditInsertCell == TypeInv /\ editInsertCell => Edited
<1> SUFFICES ASSUME TypeInv, editInsertCell PROVE Edited
  OBVIOUS
<1>1. PICK i \in DOMAIN pending.inserts, v \in Values :
        Step(SetInsertCell(i, pending.inserts[i].value), SetInsertCell(i, v))
  BY DEF editInsertCell
<1> DEFINE x == pending.inserts[i].value
<1>2. x \in Values \cup {Null} /\ i \in Nat
  <2>1. pending.inserts \in Seq(InsertRows)
    BY DEF TypeInv, Editing, Edits, InsertRows
  <2>2. i \in Nat /\ pending.inserts[i] \in InsertRows
    BY <1>1, <2>1
  <2> QED
    BY <2>2 DEF InsertRows
<1>3. /\ SetInsertCell(i, x) \in Actions /\ SetInsertCell(i, v) \in Actions
      /\ SetInsertCell(i, x).type = "setInsertCell" /\ SetInsertCell(i, v).type = "setInsertCell"
  BY <1>2 DEF SetInsertCell, Actions
<1>4. /\ Editing(pending', done', undone') /\ Placed(pending')
      /\ pending'.on \subseteq pending.on \cup {result}
      /\ \A n : Knows(pending', done', undone', n) => Knows(pending, done, undone, n)
  BY <1>1, <1>3, StepTaken
<1> QED
  BY <1>1, <1>4 DEF Edited, editInsertCell, Editable, Step, TypeInv

LEMMA DeleteRow == TypeInv /\ deleteRow => Edited
<1> SUFFICES ASSUME TypeInv, deleteRow PROVE Edited
  OBVIOUS
<1>1. PICK r \in Rows : Step(SetDeleted(r, r \in pending.deletes), SetDeleted(r, r \notin pending.deletes))
  BY DEF deleteRow
<1> DEFINE b == r \in pending.deletes
           f == r \notin pending.deletes
<1>2. b \in BOOLEAN /\ f \in BOOLEAN
  OBVIOUS
<1> HIDE DEF b, f
<1>3. /\ SetDeleted(r, b) \in Actions /\ SetDeleted(r, f) \in Actions
      /\ SetDeleted(r, b).type = "setDeleted" /\ SetDeleted(r, f).type = "setDeleted"
  BY <1>2 DEF SetDeleted, Actions
<1>4. Step(SetDeleted(r, b), SetDeleted(r, f))
  BY <1>1 DEF b, f
<1>5. /\ Editing(pending', done', undone') /\ Placed(pending')
      /\ pending'.on \subseteq pending.on \cup {result}
      /\ \A n : Knows(pending', done', undone', n) => Knows(pending, done, undone, n)
  BY <1>3, <1>4, StepTaken
<1> QED
  BY <1>4, <1>5 DEF Edited, deleteRow, Editable, Step, TypeInv

LEMMA AddRow == TypeInv /\ addRow => Edited
<1> SUFFICES ASSUME TypeInv, addRow PROVE Edited
  OBVIOUS
<1> DEFINE i == Len(pending.inserts) + 1
           n == inserts + 1
<1>1. inserts' = n /\ Step(RemoveInsertRow(i), AddInsertRow(i, n)) /\ shown /\ editMode
  BY DEF addRow, Editable
<1>2. i \in Nat /\ n \in 1..MaxInserts
  BY GridAssumption DEF TypeInv, Editing, Edits, addRow
<1> HIDE DEF i, n
<1>3. /\ RemoveInsertRow(i) \in Actions /\ AddInsertRow(i, n) \in Actions
      /\ RemoveInsertRow(i).type = "removeInsertRow" /\ RemoveInsertRow(i).at = i
      /\ AddInsertRow(i, n).type = "addInsertRow" /\ AddInsertRow(i, n).at = i
      /\ AddInsertRow(i, n).value = n
  BY <1>2 DEF RemoveInsertRow, AddInsertRow, Actions
<1>4. /\ Editing(pending', done', undone') /\ Placed(pending')
      /\ pending'.on \subseteq pending.on \cup {result}
      /\ \A m : Knows(pending', done', undone', m) => Knows(pending, done, undone, m) \/ m = n
  BY <1>1, <1>3, StepTaken DEF i
<1>5. counted' = Holds(pending') /\ UNCHANGED <<view, editMode, key, asking, saved>>
  BY <1>1 DEF addRow, Step
<1> QED
  BY <1>1, <1>2, <1>4, <1>5 DEF Edited, n

LEMMA Undo == TypeInv /\ undo => Edited
<1> SUFFICES ASSUME TypeInv, undo PROVE Edited
  OBVIOUS
<1> DEFINE h == Last(done)
           q == applyAction(h.undo, pending)
           o == On(q, h.on)
<1>1. Editing(pending, done, undone) /\ done # <<>> /\ pending' = o /\ done' = Front(done)
      /\ undone' = Append(undone, h)
  BY DEF TypeInv, undo
<1>2. h \in Steps
  BY <1>1, Ends DEF Editing
<1>3. h.on \in 1..MaxResults
  BY <1>2 DEF Steps
<1>4. /\ q \in Edits /\ q.on = pending.on
      /\ \A x \in Edits : x.inserts = q.inserts =>
           /\ Editing(x, Front(done), Append(undone, h))
           /\ \A n : Knows(x, Front(done), Append(undone, h), n) => Knows(pending, done, undone, n)
  BY <1>1, UndoEdits
<1>5. o \in Edits /\ o.inserts = q.inserts /\ Placed(o) /\ o.on \subseteq pending.on \cup {h.on}
  BY <1>3, <1>4, OnType
<1>6. ~StaleHistory => h.on = result
  BY DEF undo
<1>7. /\ shown /\ editMode /\ counted' = Holds(pending') /\ inserts' = inserts /\ inserts \in 0..MaxInserts
      /\ UNCHANGED <<view, editMode, key, asking, saved>>
  BY DEF undo, TypeInv
<1> HIDE DEF h, q, o
<1> QED
  BY <1>1, <1>4, <1>5, <1>6, <1>7 DEF Edited

LEMMA Redo == TypeInv /\ redo => Edited
<1> SUFFICES ASSUME TypeInv, redo PROVE Edited
  OBVIOUS
<1> DEFINE h == Last(undone)
           q == applyAction(h.redo, pending)
           o == On(q, h.on)
<1>1. Editing(pending, done, undone) /\ undone # <<>> /\ pending' = o /\ undone' = Front(undone)
      /\ done' = Append(done, h)
  BY DEF TypeInv, redo
<1>2. h \in Steps
  BY <1>1, Ends DEF Editing
<1>3. h.on \in 1..MaxResults
  BY <1>2 DEF Steps
<1>4. /\ q \in Edits /\ q.on = pending.on
      /\ \A x \in Edits : x.inserts = q.inserts =>
           /\ Editing(x, Append(done, h), Front(undone))
           /\ \A n : Knows(x, Append(done, h), Front(undone), n) => Knows(pending, done, undone, n)
  BY <1>1, RedoEdits
<1>5. o \in Edits /\ o.inserts = q.inserts /\ Placed(o) /\ o.on \subseteq pending.on \cup {h.on}
  BY <1>3, <1>4, OnType
<1>6. ~StaleHistory => h.on = result
  BY DEF redo
<1>7. /\ shown /\ editMode /\ counted' = Holds(pending') /\ inserts' = inserts /\ inserts \in 0..MaxInserts
      /\ UNCHANGED <<view, editMode, key, asking, saved>>
  BY DEF redo, TypeInv
<1> HIDE DEF h, q, o
<1> QED
  BY <1>1, <1>4, <1>5, <1>6, <1>7 DEF Edited

LEMMA EditedByAction ==
  TypeInv /\ (editCell \/ addRow \/ editInsertCell \/ deleteRow \/ undo \/ redo) => Edited
BY EditCell, AddRow, EditInsertCell, DeleteRow, Undo, Redo

(* Edits dropped, their history with them. *)
LEMMA ClearedEdits ==
  Cleared => /\ Editing(pending', done', undone') /\ ~Holds(pending') /\ Placed(pending') /\ pending'.on = {}
             /\ \A n : ~Knows(pending', done', undone', n)
BY NoEdits DEF Cleared

(* A result that replaces another. *)
LEMMA NewResultStep ==
  ASSUME TypeInv, NEW q \in Queries \cup {Null}, NewResult(q), UNCHANGED <<shown, mounts, kept, away, saves, inserts, applied>>,
         run' \in Queries \cup {Null}
  PROVE  TypeInv'
<1>1. result' \in 1..MaxResults /\ result' = result + 1 /\ query' \in Queries \cup {Null}
  BY GridAssumption DEF NewResult, TypeInv
<1>2. key' \in Queries \cup {Null} /\ asking' \in Queries \cup {Null}
  BY DEF NewResult, KeyRead, TypeInv
<1>3. /\ Editing(pending', done', undone') /\ editMode' \in BOOLEAN /\ counted' \in BOOLEAN
      /\ (Holds(pending') => editMode')
  <2>1. CASE DropEdits /\ Holds(pending)
    BY <2>1, ClearedEdits DEF DropEdits
  <2>2. CASE UNCHANGED <<editing, counted>>
    BY <2>2 DEF editing, TypeInv
  <2> QED
    BY <2>1, <2>2 DEF NewResult, DropEdits
<1>4. kept # Null => kept.owner \in Int /\ kept.owner <= result'
  BY <1>1 DEF TypeInv, Drafts
<1> QED
  BY <1>1, <1>2, <1>3, <1>4 DEF TypeInv

LEMMA TypeStep == TypeInv /\ [Next]_vars => TypeInv'
<1> SUFFICES ASSUME TypeInv, [Next]_vars PROVE TypeInv'
  OBVIOUS
<1>1. CASE Edited
  <2>1. inserts' \in 0..MaxInserts /\ counted' \in BOOLEAN
    <3>1. inserts' \in 0..MaxInserts
      BY <1>1, GridAssumption DEF Edited, TypeInv
    <3>2. Holds(pending') \in BOOLEAN
      BY DEF Holds
    <3> QED
      BY <3>1, <3>2, <1>1 DEF Edited
  <2> QED
    BY <1>1, <2>1 DEF Edited, TypeInv, view, saved
<1>2. CASE discardAll
  BY <1>2, ClearedEdits DEF discardAll, TypeInv, view, saved
<1>3. CASE toggleEditMode
  <2>1. CASE editMode
    BY <1>3, <2>1, ClearedEdits DEF toggleEditMode, TypeInv, view, saved
  <2>2. CASE ~editMode
    BY <1>3, <2>2 DEF toggleEditMode, TypeInv, view, saved
  <2> QED
    BY <2>1, <2>2
<1>4. CASE executeQuery
  BY <1>4 DEF executeQuery, TypeInv, editing, saved
<1>5. CASE RunEnds
  <2>1. PICK q \in {run, Null} : NewResult(q)
    BY <1>5 DEF RunEnds
  <2>2. q \in Queries \cup {Null} /\ run' \in Queries \cup {Null}
    BY <1>5 DEF RunEnds, TypeInv
  <2>3. UNCHANGED <<shown, mounts, kept, away, saves, inserts, applied>>
    BY <1>5 DEF RunEnds, saved
  <2> QED
    BY <2>1, <2>2, <2>3, NewResultStep
<1>6. CASE setActiveResult
  <2>1. PICK q \in Queries : NewResult(q)
    BY <1>6 DEF setActiveResult
  <2>2. run' \in Queries \cup {Null} /\ UNCHANGED <<shown, mounts, kept, away, saves, inserts, applied>>
    BY <1>6 DEF setActiveResult, TypeInv, saved
  <2> QED
    BY <2>1, <2>2, NewResultStep
<1>7. CASE keepGrid
  <2>1. Editing(pending', done', undone') /\ ~Holds(pending')
    BY <1>7, ClearedEdits DEF keepGrid
  <2>2. kept' # Null => /\ kept' \in Drafts /\ Editing(kept'.pending, kept'.done, kept'.undone)
                        /\ (Holds(kept'.pending) => kept'.editMode) /\ kept'.owner <= result'
    <3> DEFINE k == [owner |-> result, editMode |-> editMode, pending |-> pending, done |-> done, undone |-> undone]
    <3>1. k \in Drafts
      BY DEF TypeInv, Editing, Drafts
    <3>2. k.owner = result /\ k.editMode = editMode /\ k.pending = pending /\ k.done = done /\ k.undone = undone
      OBVIOUS
    <3>3. kept' # Null => kept' = k
      BY <1>7 DEF keepGrid, Draft
    <3>4. result' = result /\ result \in Nat
      BY <1>7 DEF keepGrid, TypeInv
    <3> HIDE DEF k
    <3> QED
      BY <3>1, <3>2, <3>3, <3>4 DEF TypeInv
  <2>3. away' \in BOOLEAN
    BY <1>7 DEF keepGrid, TypeInv
  <2>4. /\ shown' = FALSE /\ editMode' = FALSE /\ key' = Null /\ asking' = Null /\ mounts < MaxMounts
        /\ UNCHANGED <<result, query, run, mounts, counted, saves, applied, inserts>>
    BY <1>7 DEF keepGrid, saved
  <2> QED
    BY <2>1, <2>2, <2>3, <2>4 DEF TypeInv
<1>8. CASE recallGrid
  <2>1. recalled = Null \/ (kept # Null /\ recalled = kept)
    BY DEF recalled
  <2>2. /\ Editing(pending', done', undone') /\ editMode' \in BOOLEAN /\ (Holds(pending') => editMode')
        /\ (kept' # Null => kept' = kept)
    <3>1. CASE recalled = Null
      BY <1>8, <3>1, ClearedEdits DEF recallGrid
    <3>2. CASE recalled # Null
      BY <1>8, <2>1, <3>2 DEF recallGrid, TypeInv, Drafts
    <3> QED
      BY <3>1, <3>2
  <2>3. counted' \in BOOLEAN /\ shown' = TRUE /\ mounts' = mounts + 1 /\ mounts' \in 1..MaxMounts
    BY <1>8, GridAssumption DEF recallGrid, TypeInv, Holds
  <2>4. \A s \in saves : s.mount <= mounts'
    BY <2>3 DEF TypeInv, Saves
  <2>5. key' = Null /\ asking' = query /\ UNCHANGED <<result, query, run, away, saves, applied, inserts>>
    BY <1>8 DEF recallGrid, saved
  <2> QED
    BY <2>2, <2>3, <2>4, <2>5 DEF TypeInv
<1>9. CASE KeyAnswers
  BY <1>9 DEF KeyAnswers, TypeInv, view, editing, saved
<1>10. CASE Save
  <2> DEFINE s == [mount |-> mounts, query |-> query, by |-> keyColumns, read |-> keyState,
                   edits |-> pending, stage |-> "pressed"]
  <2>1. s \in Saves
    BY <1>10 DEF Save, Editable, TypeInv, Editing, Saves, keyColumns, keyState
  <2>2. s.mount = mounts /\ mounts \in Nat
    BY DEF TypeInv
  <2>3. saves' = saves \cup {s}
    BY <1>10 DEF Save
  <2> HIDE DEF s
  <2> QED
    BY <1>10, <2>1, <2>2, <2>3 DEF Save, TypeInv, view, editing
<1>11. CASE runGridEdits
  <2>1. PICK s \in saves : /\ s.stage = "pressed"
                           /\ \/ /\ saves' = (saves \ {s}) \cup {[s EXCEPT !.stage = "applied"]}
                                 /\ applied' = [n \in DOMAIN applied |->
                                      IF \E i \in DOMAIN s.edits.inserts : s.edits.inserts[i].row = n
                                      THEN applied[n] + 1 ELSE applied[n]]
                              \/ saves' = saves \ {s} /\ UNCHANGED applied
    BY <1>11 DEF runGridEdits
  <2>2. s \in Saves /\ s.mount <= mounts
    BY DEF TypeInv
  <2>3. [s EXCEPT !.stage = "applied"] \in Saves /\ [s EXCEPT !.stage = "applied"].mount = s.mount
    BY <2>2 DEF Saves
  <2>4. saves' \subseteq Saves /\ \A t \in saves' : t.mount <= mounts
    BY <2>1, <2>2, <2>3 DEF TypeInv
  <2>5. applied' \in [1..MaxInserts -> Nat]
    BY <2>1 DEF TypeInv
  <2> QED
    BY <1>11, <2>4, <2>5 DEF runGridEdits, TypeInv, view, editing
<1>12. CASE SaveAnswers
  <2>1. PICK s \in saves : /\ IF shown /\ s.mount = mounts THEN Cleared ELSE UNCHANGED <<pending, done, undone>>
                           /\ saves' = saves \ {s} /\ run' = s.query
    BY <1>12 DEF SaveAnswers
  <2>2. run' \in Queries \cup {Null} /\ saves' \subseteq Saves /\ \A t \in saves' : t.mount <= mounts
    BY <2>1 DEF TypeInv, Saves
  <2>3. Editing(pending', done', undone') /\ (Holds(pending') => editMode)
    BY <2>1, ClearedEdits DEF TypeInv
  <2> QED
    BY <1>12, <2>2, <2>3 DEF SaveAnswers, TypeInv
<1>13. CASE UNCHANGED vars
  BY <1>13 DEF vars, TypeInv
<1> QED
  BY <1>1, <1>2, <1>3, <1>4, <1>5, <1>6, <1>7, <1>8, <1>9, <1>10, <1>11, <1>12, <1>13, EditedByAction DEF Next
-----------------------------------------------------------------------------
(* The row key follows the result on screen, and is asked for anew with the grid. *)
LEMMA KeyStep == TypeInv /\ KeyInv /\ [Next]_vars => KeyInv'
<1> SUFFICES ASSUME TypeInv, KeyInv, [Next]_vars PROVE KeyInv'
  OBVIOUS
<1>1. ASSUME NEW q \in Queries \cup {Null}, NewResult(q), UNCHANGED shown PROVE KeyInv'
  <2>1. CASE ~shown
    BY <1>1, <2>1 DEF NewResult, KeyInv
  <2>2. CASE shown
    BY <1>1, <2>2 DEF NewResult, KeyRead, KeyInv, TypeInv
  <2> QED
    BY <2>1, <2>2
<1>2. CASE UNCHANGED <<shown, query, key, asking>>
  BY <1>2 DEF KeyInv
<1>3. CASE RunEnds
  <2>1. PICK q \in {run, Null} : NewResult(q)
    BY <1>3 DEF RunEnds
  <2> QED
    BY <1>1, <1>3, <2>1 DEF RunEnds, TypeInv
<1>4. CASE setActiveResult
  BY <1>1, <1>4 DEF setActiveResult
<1>5. CASE keepGrid
  BY <1>5 DEF keepGrid, KeyInv
<1>6. CASE recallGrid
  BY <1>6 DEF recallGrid, KeyInv
<1>7. CASE KeyAnswers
  BY <1>7 DEF KeyAnswers, KeyInv, view
<1> QED
  BY <1>2, <1>3, <1>4, <1>5, <1>6, <1>7, EditedByAction
     DEF Next, Edited, discardAll, toggleEditMode, executeQuery, Save, runGridEdits, SaveAnswers, vars, view

LEMMA SavedByKeyStep == TypeInv /\ KeyInv /\ SavedByKey /\ [Next]_vars => SavedByKey'
<1> SUFFICES ASSUME TypeInv, KeyInv, SavedByKey, [Next]_vars PROVE SavedByKey'
  OBVIOUS
<1>1. CASE saves' \subseteq saves
  BY <1>1 DEF SavedByKey
<1>2. CASE Save
  <2> DEFINE s == [mount |-> mounts, query |-> query, by |-> keyColumns, read |-> keyState,
                   edits |-> pending, stage |-> "pressed"]
  <2>1. s.query = query /\ s.by = keyColumns /\ s.read = keyState /\ saves' = saves \cup {s}
    BY <1>2 DEF Save
  <2> HIDE DEF s
  <2>2. ASSUME s.read = "answered"
        PROVE  s.query \in Keyed \cup Keyless /\ s.by = IF s.query \in Keyed THEN s.query ELSE Null
    <3>1. asking = Null /\ key # Null
      BY <2>1, <2>2 DEF keyState
    <3>2. key = query /\ key \in Keyed \cup Keyless
      BY <1>2, <3>1 DEF KeyInv, Save
    <3> QED
      BY <2>1, <3>2 DEF keyColumns
  <2> QED
    BY <2>1, <2>2 DEF SavedByKey
<1>3. CASE runGridEdits
  <2>1. PICK s \in saves : saves' \subseteq (saves \ {s}) \cup {[s EXCEPT !.stage = "applied"]}
    BY <1>3 DEF runGridEdits
  <2> DEFINE t == [s EXCEPT !.stage = "applied"]
  <2>2. t.query = s.query /\ t.by = s.by /\ t.read = s.read
    BY <2>1 DEF TypeInv, Saves
  <2> HIDE DEF t
  <2>3. \A x \in saves' : x \in saves \/ x = t
    BY <2>1 DEF t
  <2> QED
    BY <2>1, <2>2, <2>3 DEF SavedByKey
<1>4. CASE SaveAnswers
  BY <1>1, <1>4 DEF SaveAnswers
<1> QED
  BY <1>1, <1>2, <1>3, <1>4, EditedByAction
     DEF Next, Edited, discardAll, toggleEditMode, executeQuery, RunEnds, setActiveResult, keepGrid, recallGrid,
         KeyAnswers, vars, saved

(* A tab left during a save is away from then on. *)
LEMMA StaysAway == TypeInv /\ keepGrid /\ ~away' => ~away /\ saves = {}
<1>1. ASSUME TypeInv, keepGrid, ~away' PROVE ~away /\ saves = {}
  <2>1. away' = (away \/ saves # {})
    BY <1>1 DEF keepGrid
  <2> QED
    BY <1>1, <2>1, Zenon
<1> QED
  BY <1>1

(* The saves a step leaves are those there were, one going on, or one of the grid on screen. *)
LEMMA SaveStep == TypeInv /\ SaveInv /\ [Next]_vars => SaveInv'
<1> SUFFICES ASSUME TypeInv, SaveInv, [Next]_vars, ~away' PROVE SaveInv'
  BY DEF SaveInv
<1>1. CASE shown' = shown /\ mounts' = mounts /\ away' = away /\ saves' \subseteq saves
  BY <1>1 DEF SaveInv
<1>2. CASE keepGrid
  BY <1>2, StaysAway DEF keepGrid, saved, SaveInv
<1>3. CASE recallGrid
  <2>1. saves' = saves /\ away' = away /\ ~shown
    BY <1>3 DEF recallGrid, saved
  <2>2. saves = {}
    BY <2>1 DEF SaveInv
  <2> QED
    BY <2>1, <2>2 DEF SaveInv
<1>4. CASE Save
  <2> DEFINE s == [mount |-> mounts, query |-> query, by |-> keyColumns, read |-> keyState,
                   edits |-> pending, stage |-> "pressed"]
  <2>1. s.mount = mounts /\ saves' = saves \cup {s} /\ shown /\ UNCHANGED <<shown, mounts, away>>
    BY <1>4 DEF Save, Editable, view
  <2>2. saves = {}
    BY <1>4, <2>1 DEF Save, isSaving, SaveInv
  <2> HIDE DEF s
  <2> QED
    BY <2>1, <2>2 DEF SaveInv
<1>5. CASE runGridEdits
  <2>1. PICK s \in saves : saves' \subseteq (saves \ {s}) \cup {[s EXCEPT !.stage = "applied"]}
    BY <1>5 DEF runGridEdits
  <2> DEFINE t == [s EXCEPT !.stage = "applied"]
  <2>2. t.mount = s.mount
    BY <2>1 DEF TypeInv, Saves
  <2>3. UNCHANGED <<shown, mounts, away>>
    BY <1>5 DEF runGridEdits, view
  <2> HIDE DEF t
  <2>4. \A x \in saves' : x = t
    BY <2>1, <2>3 DEF SaveInv, t
  <2> QED
    BY <2>1, <2>2, <2>3, <2>4 DEF SaveInv
<1>6. CASE SaveAnswers
  BY <1>1, <1>6 DEF SaveAnswers
<1> QED
  BY <1>1, <1>2, <1>3, <1>4, <1>5, <1>6, EditedByAction
     DEF Next, Edited, discardAll, toggleEditMode, executeQuery, RunEnds, setActiveResult,
         KeyAnswers, vars, saved, view

LEMMA CountedStep == TypeInv /\ SaveInv /\ HeldIsCounted /\ [Next]_vars => HeldIsCounted'
<1> SUFFICES ASSUME TypeInv, SaveInv, HeldIsCounted, [Next]_vars, ~away' PROVE HeldIsCounted'
  BY DEF HeldIsCounted
<1>1. CASE Edited
  BY <1>1 DEF Edited, HeldIsCounted, view
<1>2. CASE discardAll \/ toggleEditMode
  <2>1. shown /\ UNCHANGED <<shown, away>>
    BY <1>2 DEF discardAll, toggleEditMode, Editable, view
  <2>2. ~Holds(pending') \/ UNCHANGED <<pending, counted>>
    BY <1>2, ClearedEdits DEF discardAll, toggleEditMode
  <2> QED
    BY <2>1, <2>2 DEF HeldIsCounted
<1>3. CASE UNCHANGED <<shown, result, kept, away, pending, counted>>
  BY <1>3 DEF HeldIsCounted, recalled
<1>4. ASSUME NEW q \in Queries \cup {Null}, NewResult(q), UNCHANGED <<shown, kept, away>> PROVE HeldIsCounted'
  <2>1. CASE shown
    <3>1. CASE Holds(pending)
      BY <1>4, <2>1, <3>1, ClearedEdits DEF NewResult, DropEdits, HeldIsCounted
    <3>2. CASE ~Holds(pending)
      BY <1>4, <2>1, <3>2 DEF NewResult, DropEdits, HeldIsCounted, editing
    <3> QED
      BY <3>1, <3>2
  <2>2. CASE ~shown
    <3>1. kept # Null => kept.owner \in Int /\ kept.owner <= result /\ result \in Int
      BY DEF TypeInv, Drafts
    <3>2. recalled' = Null
      BY <1>4, <3>1 DEF NewResult, recalled
    <3> QED
      BY <1>4, <2>2, <3>2 DEF HeldIsCounted
  <2> QED
    BY <2>1, <2>2 DEF TypeInv
<1>5. CASE RunEnds
  <2>1. PICK q \in {run, Null} : NewResult(q)
    BY <1>5 DEF RunEnds
  <2> QED
    BY <1>4, <1>5, <2>1 DEF RunEnds, TypeInv
<1>6. CASE setActiveResult
  BY <1>4, <1>6 DEF setActiveResult
<1>7. CASE keepGrid
  <2> DEFINE k == [owner |-> result, editMode |-> editMode, pending |-> pending, done |-> done, undone |-> undone]
  <2>1. k.pending = pending
    OBVIOUS
  <2>2. kept' # Null => kept' = k
    BY <1>7 DEF keepGrid, Draft
  <2>3. shown /\ ~shown' /\ counted' = counted
    BY <1>7 DEF keepGrid
  <2>4. ~away
    BY <1>7, StaysAway
  <2> HIDE DEF k
  <2>5. kept' # Null => kept'.pending = pending
    BY <2>1, <2>2
  <2>6. recalled' # Null => kept' # Null
    BY DEF recalled
  <2> QED
    BY <2>3, <2>4, <2>5, <2>6 DEF HeldIsCounted
<1>8. CASE recallGrid
  BY <1>8 DEF recallGrid, HeldIsCounted
<1>9. CASE SaveAnswers
  <2>1. PICK s \in saves : IF shown /\ s.mount = mounts THEN Cleared ELSE UNCHANGED <<pending, done, undone>>
    BY <1>9 DEF SaveAnswers
  <2>2. shown /\ s.mount = mounts /\ UNCHANGED shown
    BY <1>9, <2>1 DEF SaveAnswers, SaveInv
  <2> QED
    BY <2>1, <2>2, ClearedEdits DEF HeldIsCounted
<1> QED
  BY <1>1, <1>2, <1>3, <1>5, <1>6, <1>7, <1>8, <1>9, EditedByAction
     DEF Next, executeQuery, KeyAnswers, Save, runGridEdits, vars, view, editing
-----------------------------------------------------------------------------
(* A step of the rows on screen alone, which knows no row but those known and the one added. *)
LEMMA InsertKept ==
  ASSUME TypeInv, InsertInv, UNCHANGED <<applied, saves, away, shown, kept>>,
         inserts' \in Nat, inserts' >= inserts,
         \A n : Knows(pending', done', undone', n) =>
           Knows(pending, done, undone, n) \/ (n = inserts' /\ inserts' = inserts + 1)
  PROVE  InsertInv'
<1>1. inserts \in Nat
  BY DEF TypeInv
<1>2. ASSUME NEW n \in 1..MaxInserts, n > inserts \/ applied[n] > 0, Forgotten(n), n > inserts' \/ n <= inserts
      PROVE  Forgotten(n)'
  BY <1>1, <1>2 DEF Forgotten
<1>3. ASSUME NEW n \in 1..MaxInserts, n > inserts'
      PROVE  /\ applied'[n] = 0 /\ Forgotten(n)'
             /\ (kept' # Null => ~Knows(kept'.pending, kept'.done, kept'.undone, n))
  <2>1. n > inserts
    BY <1>1, <1>3
  <2> QED
    BY <1>2, <1>3, <2>1 DEF InsertInv
<1>4. ASSUME ~away', NEW n \in 1..MaxInserts
      PROVE  /\ applied'[n] <= 1
             /\ (applied'[n] > 0 => (\E s \in saves' : s.stage = "applied") \/ Forgotten(n)')
  <2>1. applied[n] > 0 => n <= inserts
    BY <1>1 DEF InsertInv
  <2> QED
    BY <1>2, <1>4, <2>1 DEF InsertInv
<1> QED
  BY <1>3, <1>4 DEF InsertInv

LEMMA InsertStep == TypeInv /\ SaveInv /\ InsertInv /\ [Next]_vars => InsertInv'
<1> SUFFICES ASSUME TypeInv, SaveInv, InsertInv, [Next]_vars PROVE InsertInv'
  OBVIOUS
<1> DEFINE Frame == /\ UNCHANGED <<applied, saves, away, shown, kept, inserts>>
                    /\ \A n : Knows(pending', done', undone', n) => Knows(pending, done, undone, n)
<1>1. CASE Edited
  <2>1. inserts' \in Nat /\ inserts' >= inserts
    BY <1>1 DEF Edited, TypeInv
  <2> QED
    BY <1>1, <2>1, InsertKept DEF Edited, view, saved
<1>2. CASE Frame
  <2>1. inserts' \in Nat /\ inserts' >= inserts
    BY <1>2 DEF TypeInv
  <2> QED
    BY <1>2, <2>1, InsertKept
<1>3. CASE discardAll
  BY <1>2, <1>3, ClearedEdits DEF discardAll, view, saved
<1>4. CASE toggleEditMode
  BY <1>2, <1>4, ClearedEdits DEF toggleEditMode, view, saved
<1>5. ASSUME NEW q, NewResult(q), UNCHANGED <<applied, saves, away, shown, kept, inserts>> PROVE InsertInv'
  BY <1>2, <1>5, ClearedEdits DEF NewResult, DropEdits, editing
<1>6. CASE RunEnds
  BY <1>5, <1>6 DEF RunEnds, saved
<1>7. CASE setActiveResult
  BY <1>5, <1>7 DEF setActiveResult, saved
<1>8. CASE keepGrid
  <2> DEFINE k == [owner |-> result, editMode |-> editMode, pending |-> pending, done |-> done, undone |-> undone]
  <2>1. k.pending = pending /\ k.done = done /\ k.undone = undone
    OBVIOUS
  <2>2. kept' # Null => kept' = k
    BY <1>8 DEF keepGrid, Draft
  <2> HIDE DEF k
  <2>3. kept' # Null => kept'.pending = pending /\ kept'.done = done /\ kept'.undone = undone
    BY <2>1, <2>2
  <2>4. \A n : ~Knows(pending', done', undone', n)
    BY <1>8, ClearedEdits DEF keepGrid
  <2>5. UNCHANGED <<applied, saves, inserts>>
    BY <1>8 DEF keepGrid, saved
  <2>6. ASSUME NEW n \in 1..MaxInserts, Forgotten(n)
        PROVE  Forgotten(n)' /\ (kept' # Null => ~Knows(kept'.pending, kept'.done, kept'.undone, n))
    BY <2>3, <2>4, <2>5, <2>6 DEF Forgotten
  <2>7. ~away' => ~away /\ saves = {}
    BY <1>8, StaysAway
  <2> QED
    BY <2>5, <2>6, <2>7 DEF InsertInv
<1>9. CASE recallGrid
  <2>1. recalled = Null \/ (kept # Null /\ recalled = kept)
    BY DEF recalled
  <2>2. /\ ~shown /\ shown' /\ UNCHANGED <<applied, saves, away, inserts>> /\ (kept' # Null => kept' = kept)
    BY <1>9, <2>1 DEF recallGrid, saved
  <2>3. ASSUME NEW n \in 1..MaxInserts, Forgotten(n) PROVE Forgotten(n)'
    <3>1. ~Knows(pending', done', undone', n)
      BY <1>9, <2>1, <2>2, <2>3, ClearedEdits DEF recallGrid, Forgotten
    <3> QED
      BY <2>2, <2>3, <3>1 DEF Forgotten
  <2> QED
    BY <2>2, <2>3 DEF InsertInv
<1>10. CASE Save
  <2> DEFINE s == [mount |-> mounts, query |-> query, by |-> keyColumns, read |-> keyState,
                   edits |-> pending, stage |-> "pressed"]
  <2>1. s.edits = pending /\ saves' = saves \cup {s}
    BY <1>10 DEF Save
  <2>2. UNCHANGED <<pending, done, undone, applied, away, shown, kept, inserts>>
    BY <1>10 DEF Save, view, editing
  <2> HIDE DEF s
  <2>3. ASSUME NEW n \in 1..MaxInserts, Forgotten(n) PROVE Forgotten(n)'
    BY <2>1, <2>2, <2>3 DEF Forgotten, Knows
  <2> QED
    BY <2>1, <2>2, <2>3 DEF InsertInv
<1>11. CASE runGridEdits
  <2>1. PICK s \in saves : /\ s.stage = "pressed"
                           /\ \/ /\ saves' = (saves \ {s}) \cup {[s EXCEPT !.stage = "applied"]}
                                 /\ applied' = [n \in DOMAIN applied |->
                                      IF \E i \in DOMAIN s.edits.inserts : s.edits.inserts[i].row = n
                                      THEN applied[n] + 1 ELSE applied[n]]
                              \/ saves' = saves \ {s} /\ UNCHANGED applied
    BY <1>11 DEF runGridEdits
  <2>2. UNCHANGED <<pending, done, undone, away, shown, kept, inserts>>
    BY <1>11 DEF runGridEdits, view, editing
  <2>3. CASE saves' = saves \ {s} /\ UNCHANGED applied
    <3>1. ASSUME NEW n \in 1..MaxInserts, Forgotten(n) PROVE Forgotten(n)'
      BY <2>2, <2>3, <3>1 DEF Forgotten
    <3>2. (\E x \in saves : x.stage = "applied") => \E x \in saves' : x.stage = "applied"
      BY <2>1, <2>3
    <3> QED
      BY <2>2, <2>3, <3>1, <3>2 DEF InsertInv
  <2>4. CASE /\ saves' = (saves \ {s}) \cup {[s EXCEPT !.stage = "applied"]}
             /\ applied' = [n \in DOMAIN applied |->
                  IF \E i \in DOMAIN s.edits.inserts : s.edits.inserts[i].row = n
                  THEN applied[n] + 1 ELSE applied[n]]
    <3> DEFINE t == [s EXCEPT !.stage = "applied"]
    <3>1. t.edits = s.edits /\ t.stage = "applied"
      BY DEF TypeInv, Saves
    <3>2. \A n \in 1..MaxInserts : applied'[n] = IF HasRow(s.edits, n) THEN applied[n] + 1 ELSE applied[n]
      BY <2>4 DEF TypeInv, HasRow
    <3>3. t \in saves' /\ \A x \in saves' : x = t \/ x \in saves
      BY <2>4
    <3> HIDE DEF t
    <3>4. ASSUME NEW n \in 1..MaxInserts, Forgotten(n) PROVE Forgotten(n)'
      BY <2>2, <3>1, <3>3, <3>4 DEF Forgotten
    <3>5. ASSUME NEW n \in 1..MaxInserts, n > inserts'
          PROVE  /\ applied'[n] = 0 /\ Forgotten(n)'
                 /\ (kept' # Null => ~Knows(kept'.pending, kept'.done, kept'.undone, n))
      <4>1. /\ applied[n] = 0 /\ Forgotten(n)
            /\ (kept # Null => ~Knows(kept.pending, kept.done, kept.undone, n))
        BY <2>2, <3>5 DEF InsertInv
      <4>2. ~HasRow(s.edits, n)
        BY <4>1 DEF Forgotten
      <4> QED
        BY <2>2, <3>2, <3>4, <4>1, <4>2
    <3>6. ASSUME ~away', NEW n \in 1..MaxInserts PROVE applied'[n] <= 1
      <4>1. applied[n] \in Nat /\ applied[n] <= 1
        BY <2>2, <3>6 DEF InsertInv, TypeInv
      <4>2. \A x \in saves : x = s
        BY <2>2, <3>6 DEF SaveInv
      <4>3. HasRow(s.edits, n) => ~(applied[n] > 0)
        BY <2>1, <2>2, <3>6, <4>2 DEF InsertInv, Forgotten
      <4> QED
        BY <3>2, <4>1, <4>3
    <3> QED
      BY <3>1, <3>3, <3>5, <3>6 DEF InsertInv
  <2> QED
    BY <2>1, <2>3, <2>4
<1>12. CASE SaveAnswers
  <2>1. PICK s \in saves : /\ s.stage = "applied"
                           /\ IF shown /\ s.mount = mounts THEN Cleared ELSE UNCHANGED <<pending, done, undone>>
                           /\ saves' = saves \ {s}
    BY <1>12 DEF SaveAnswers
  <2>2. UNCHANGED <<applied, away, shown, kept, inserts>>
    BY <1>12 DEF SaveAnswers
  <2>3. ASSUME NEW n \in 1..MaxInserts, Forgotten(n) PROVE Forgotten(n)'
    <3>1. ~Knows(pending', done', undone', n)
      BY <2>1, <2>3, ClearedEdits DEF Forgotten
    <3> QED
      BY <2>1, <2>2, <2>3, <3>1 DEF Forgotten
  <2>4. ASSUME ~away' PROVE \A n : Forgotten(n)'
    <3>1. shown /\ s.mount = mounts /\ saves' = {}
      BY <2>1, <2>2, <2>4 DEF SaveInv
    <3>2. \A n : ~Knows(pending', done', undone', n)
      BY <2>1, <3>1, ClearedEdits
    <3> QED
      BY <2>2, <3>1, <3>2 DEF Forgotten
  <2> QED
    BY <2>2, <2>3, <2>4 DEF InsertInv
<1> QED
  <2>1. CASE executeQuery \/ KeyAnswers \/ UNCHANGED vars
    BY <1>2, <2>1 DEF executeQuery, KeyAnswers, vars, view, editing, saved
  <2> QED
    BY <1>1, <1>3, <1>4, <1>6, <1>7, <1>8, <1>9, <1>10, <1>11, <1>12, <2>1, EditedByAction DEF Next
-----------------------------------------------------------------------------
(* With the history of earlier results left alone, edits stay where they were made. *)
LEMMA PlaceStep == ~StaleHistory /\ TypeInv /\ PlaceInv /\ [Next]_vars => PlaceInv'
<1> SUFFICES ASSUME ~StaleHistory, TypeInv, PlaceInv, [Next]_vars PROVE PlaceInv'
  OBVIOUS
<1>1. CASE Edited
  BY <1>1 DEF Edited, PlaceInv, view, saved
<1>2. CASE UNCHANGED <<shown, result, kept, pending, saves>>
  BY <1>2 DEF PlaceInv
<1>3. CASE discardAll \/ toggleEditMode
  <2>1. UNCHANGED <<shown, result, kept, saves>>
    BY <1>3 DEF discardAll, toggleEditMode, view, saved
  <2>2. (Placed(pending') /\ pending'.on = {}) \/ pending' = pending
    BY <1>3, ClearedEdits DEF discardAll, toggleEditMode
  <2> QED
    BY <2>1, <2>2 DEF PlaceInv
<1>4. ASSUME NEW q, NewResult(q), UNCHANGED <<shown, kept, saves>> PROVE PlaceInv'
  <2>1. Placed(pending') /\ pending'.on = {}
    <3>1. CASE shown /\ Holds(pending)
      BY <1>4, <3>1, ClearedEdits DEF NewResult, DropEdits
    <3>2. CASE ~shown \/ ~Holds(pending)
      BY <1>4, <3>2 DEF NewResult, DropEdits, PlaceInv, Placed, editing
    <3> QED
      BY <3>1, <3>2
  <2> QED
    BY <1>4, <2>1 DEF PlaceInv
<1>5. CASE RunEnds
  BY <1>4, <1>5 DEF RunEnds, saved
<1>6. CASE setActiveResult
  BY <1>4, <1>6 DEF setActiveResult, saved
<1>7. CASE keepGrid
  <2> DEFINE k == [owner |-> result, editMode |-> editMode, pending |-> pending, done |-> done, undone |-> undone]
  <2>1. k.pending = pending /\ k.owner = result
    OBVIOUS
  <2>2. kept' # Null => kept' = k
    BY <1>7 DEF keepGrid, Draft
  <2> HIDE DEF k
  <2>3. kept' # Null => Placed(kept'.pending) /\ kept'.pending.on \subseteq {kept'.owner}
    BY <1>7, <2>1, <2>2 DEF keepGrid, PlaceInv
  <2> QED
    BY <1>7, <2>3, ClearedEdits DEF keepGrid, saved, PlaceInv
<1>8. CASE recallGrid
  <2>1. recalled = Null \/ (kept # Null /\ kept.owner = result /\ recalled = kept)
    BY DEF recalled
  <2>2. /\ shown' /\ UNCHANGED <<result, saves>> /\ (kept' # Null => kept' = kept)
    BY <1>8, <2>1 DEF recallGrid, saved
  <2>3. Placed(pending') /\ pending'.on \subseteq {result}
    <3>1. CASE recalled = Null
      BY <1>8, <3>1, ClearedEdits DEF recallGrid
    <3>2. CASE recalled # Null
      BY <1>8, <2>1, <3>2 DEF recallGrid, PlaceInv
    <3> QED
      BY <3>1, <3>2
  <2> QED
    BY <2>2, <2>3 DEF PlaceInv
<1>9. CASE Save
  <2> DEFINE s == [mount |-> mounts, query |-> query, by |-> keyColumns, read |-> keyState,
                   edits |-> pending, stage |-> "pressed"]
  <2>1. s.edits = pending /\ saves' = saves \cup {s}
    BY <1>9 DEF Save
  <2>2. UNCHANGED <<pending, shown, result, kept>> /\ shown /\ Holds(pending)
    BY <1>9 DEF Save, Editable, view, editing
  <2>3. pending.on = {result}
    BY <2>2 DEF PlaceInv, Placed
  <2> HIDE DEF s
  <2> QED
    BY <2>1, <2>2, <2>3 DEF PlaceInv, TypeInv
<1>10. CASE runGridEdits
  <2>1. PICK s \in saves : saves' \subseteq (saves \ {s}) \cup {[s EXCEPT !.stage = "applied"]}
    BY <1>10 DEF runGridEdits
  <2> DEFINE t == [s EXCEPT !.stage = "applied"]
  <2>2. t.edits = s.edits
    BY <2>1 DEF TypeInv, Saves
  <2>3. \A x \in saves' : x \in saves \/ x = t
    BY <2>1
  <2>4. UNCHANGED <<pending, shown, result, kept>>
    BY <1>10 DEF runGridEdits, view, editing
  <2> HIDE DEF t
  <2> QED
    BY <2>1, <2>2, <2>3, <2>4 DEF PlaceInv
<1>11. CASE SaveAnswers
  <2>1. PICK s \in saves : /\ IF shown /\ s.mount = mounts THEN Cleared ELSE UNCHANGED <<pending, done, undone>>
                           /\ saves' = saves \ {s}
    BY <1>11 DEF SaveAnswers
  <2>2. (Placed(pending') /\ pending'.on = {}) \/ pending' = pending
    BY <2>1, ClearedEdits
  <2> QED
    BY <1>11, <2>1, <2>2 DEF SaveAnswers, PlaceInv
<1> QED
  <2>1. CASE executeQuery \/ KeyAnswers \/ UNCHANGED vars
    BY <1>2, <2>1 DEF executeQuery, KeyAnswers, vars, view, editing, saved
  <2> QED
    BY <1>1, <1>3, <1>5, <1>6, <1>7, <1>8, <1>9, <1>10, <1>11, <2>1, EditedByAction DEF Next
-----------------------------------------------------------------------------
LEMMA InitTypes == Init => TypeInv
<1> SUFFICES ASSUME Init PROVE TypeInv
  OBVIOUS
<1>1. Editing(pending, done, undone) /\ ~Holds(pending)
  BY NoEdits DEF Init
<1>2. 1 \in 1..MaxResults /\ 1 \in 1..MaxMounts /\ 0 \in 0..MaxInserts /\ First \in Queries
  BY GridAssumption
<1>3. kept = Null /\ saves = {} /\ applied \in [1..MaxInserts -> Nat]
  BY DEF Init
<1> QED
  BY <1>1, <1>2, <1>3 DEF Init, TypeInv

LEMMA InitInv == Init => IInv
<1> SUFFICES ASSUME Init PROVE IInv
  OBVIOUS
<1>1. TypeInv
  BY InitTypes
<1>2. kept = Null /\ saves = {} /\ \A n \in 1..MaxInserts : applied[n] = 0
  BY DEF Init
<1>3. \A n : ~Knows(pending, done, undone, n)
  BY NoEdits DEF Init
<1>4. InsertInv
  BY <1>2, <1>3 DEF InsertInv, Forgotten
<1>5. KeyInv /\ SaveInv /\ SavedByKey
  BY <1>2 DEF Init, KeyInv, SaveInv, SavedByKey
<1>6. HeldIsCounted
  BY NoEdits DEF Init, HeldIsCounted
<1> QED
  BY <1>1, <1>4, <1>5, <1>6 DEF IInv

LEMMA Invariance == Spec => []IInv
<1>1. IInv /\ [Next]_vars => IInv'
  BY TypeStep, KeyStep, SavedByKeyStep, SaveStep, CountedStep, InsertStep DEF IInv
<1> QED
  BY InitInv, <1>1, PTL DEF Spec

(* Every variable keeps its type, and edits are held only in Edit Mode. *)
THEOREM TypeCorrect == Spec => []TypeOK
<1>1. IInv => TypeOK
  <2> SUFFICES ASSUME TypeInv PROVE TypeOK
    BY DEF IInv
  <2>1. \A s \in saves : s.edits \in Edits
    BY DEF TypeInv, Saves
  <2>2. kept # Null => kept.pending \in Edits
    BY DEF TypeInv, Editing
  <2> QED
    BY <2>1, <2>2 DEF TypeInv, Editing, TypeOK
<1> QED
  BY <1>1, Invariance, PTL

(* A row added in the grid is inserted at most once, through undo and redo, hidden tabs
   and saves that answer late, unless the tab is left during a save. *)
THEOREM InsertsOnce == Spec => []InsertedOnce
<1>1. IInv => InsertedOnce
  BY DEF IInv, TypeInv, InsertInv, InsertedOnce
<1> QED
  BY <1>1, Invariance, PTL

(* Edits a run would discard, on screen or kept for a hidden tab, are noted in the count
   its prompt reads. *)
THEOREM EditsAreCounted == Spec => []HeldIsCounted
<1>1. IInv => HeldIsCounted
  BY DEF IInv
<1> QED
  BY <1>1, Invariance, PTL

(* A save matches rows on their own table's key, whichever schema read answered last. *)
THEOREM RowsByTheirKey == Spec => []SavedByKey
<1>1. IInv => SavedByKey
  BY DEF IInv
<1> QED
  BY <1>1, Invariance, PTL

(* Edits are shown on, and saved to, the result they were made on, as long as the steps
   made on an earlier result are not undone or redone on a later one. *)
THEOREM EditsKeepTheirRows ==
  ASSUME ~StaleHistory
  PROVE  Spec => []EditsStayOnTheirRows
<1>1. Init => PlaceInv
  BY NoEdits DEF Init, PlaceInv
<1>2. TypeInv /\ PlaceInv /\ [Next]_vars => PlaceInv'
  BY PlaceStep
<1>3. PlaceInv => EditsStayOnTheirRows
  <2> SUFFICES ASSUME PlaceInv PROVE EditsStayOnTheirRows
    OBVIOUS
  <2>1. ASSUME NEW s \in saves PROVE Cardinality(s.edits.on) = 1
    <3>1. PICK r \in 1..MaxResults : s.edits.on = {r}
      BY DEF PlaceInv
    <3> QED
      BY <3>1, FS_Singleton
  <2> QED
    BY <2>1 DEF PlaceInv, EditsStayOnTheirRows
<1>4. IInv => TypeInv
  BY DEF IInv
<1> QED
  BY <1>1, <1>2, <1>3, <1>4, Invariance, PTL DEF Spec
=============================================================================
