------------------------- MODULE TabSessionsProofs -------------------------
(***************************************************************************)
(* Theorems about TabSessions, for any servers, files and tabs and any     *)
(* bounds on runs, connects and commands under way.                        *)
(*                                                                         *)
(* Two invariants hold in whatever order the backend takes commands up:    *)
(* TypeInv and ConnInv.  From them, and ReachInv, no connection is out of  *)
(* reach.                                                                  *)
(*                                                                         *)
(* Four more hold where it takes them up in the order sent (~Overtakes).   *)
(* SessionInv: a session, there or about to be opened, is noted or its end *)
(* is behind what opens it.  TabInv: a tab's id is used before anything is *)
(* done for it, so a fresh tab finds nothing of an earlier one.  FlagInv   *)
(* and FileInv: of a tab, or a file, there is one run at a time, and its   *)
(* flag is what the server has, but for an answer on its way which says    *)
(* what it will be.  Out of order they fail: a session's end that is taken *)
(* up before the run it follows ends nothing, and the run then opens a     *)
(* session nobody closes.                                                  *)
(*                                                                         *)
(* Each invariant has one lemma per action, or group of actions that do    *)
(* the same to it; most of what the window does is a Turn: the tabs, their *)
(* connections or the prompts change, and nothing but ends of sessions and *)
(* transactions is sent.                                                   *)
(***************************************************************************)
EXTENDS TabSessions, FiniteSetTheorems, TLAPS

(* The commands the window sends, as records. *)
RunCommand        == [op : {"run"}, id : Nat, tab : TabIds, conn : Conns]
CloseCommand      == [op : {"close"}, tab : TabIds, conn : Conns]
RollbackCommand   == [op : {"rollback"}, conn : Files]
DisconnectCommand == [op : {"disconnect"}, conn : Conns, again : BOOLEAN, known : BOOLEAN]
Command == RunCommand \cup CloseCommand \cup RollbackCommand \cup DisconnectCommand

(* What the backend is at: a statement's run, a file's rollback, a reconnect's old pools. *)
RunWork        == [op : {"run"}, id : Nat, tab : TabIds, conn : Conns, stage : {"begun", "answered"},
                   attached : BOOLEAN, says : {"open", "closed", "nothing"}]
RollbackWork   == [op : {"rollback"}, conn : Files, stage : {"answered"}, says : {"closed"}]
DisconnectWork == [op : {"disconnect"}, conn : Servers, again : BOOLEAN, known : BOOLEAN]
Work == RunWork \cup RollbackWork \cup DisconnectWork

(* A connect in flight, and the two kinds of prompts. *)
Attempt == [conn : Conns, stage : {"sent", "made"}, cancelled : BOOLEAN, reopens : Servers \cup {Null}]
CloseKinds == {"close", "others", "right"}
ClosePrompt  == [kind : CloseKinds, tab : TabIds, inTransaction : SUBSET TabIds]
SwitchPrompt == [reconnects : {FALSE}, tab : TabIds, conn : Conns, inTransaction : SUBSET TabIds]
                \cup [reconnects : {TRUE}, tab : {Null}, conn : Servers, inTransaction : SUBSET TabIds]

(* The tabs are different, at least one is there, and each has a connection or none. *)
StripInv ==
  /\ strip \in Seq(TabIds) /\ strip # <<>> /\ IsInjective(strip) /\ active \in Open
  /\ bound \in [Open -> Conns \cup {Null}]
  /\ Open \subseteq used

(* What the window keeps is of its type. *)
WindowInv ==
  /\ pendingClose \in ClosePrompt \cup {Null} /\ pendingSwitch \in SwitchPrompt \cup {Null}
  /\ live \subseteq Conns /\ selected \in Conns \cup {Null}
  /\ attempts \subseteq Attempt
  /\ used \subseteq TabIds \cup Conns /\ runs \in Nat /\ muddled \subseteq TabIds \cup Files
  /\ noted \subseteq Open \X Conns /\ IsFiniteSet(noted)
  /\ flags \subseteq TabIds \cup Files /\ IsFiniteSet(flags)
  /\ inbox \in Seq(Command)

(* A statement not yet ended. *)
Begun(w) == w.op = "run" /\ w.stage = "begun"

(* What the backend keeps is of its type, and a running statement that still has its
   session is on a session, or a file, that is there. *)
BackendInv ==
  /\ work \subseteq Work
  /\ up \subseteq Conns /\ files \subseteq up \cap Files
  /\ DOMAIN sessions \subseteq TabIds \X (up \cap Servers)
  /\ sessions \in [DOMAIN sessions -> BOOLEAN]
  /\ \A w \in work : Begun(w) /\ w.attached =>
       IF w.conn \in Files THEN w.conn \in up ELSE <<w.tab, w.conn>> \in DOMAIN sessions

(* The type invariant, with what the types alone need to be kept. *)
TypeInv == StripInv /\ WindowInv /\ BackendInv

(* A connection's id that no connect is still to give out. *)
Known(c) == c \in used /\ \A a \in attempts : a.conn # c

(* An id belongs to one connect, and whatever names a connection names a known one: a
   connection is up only once its connect is made, and never again once taken down. *)
ConnInv ==
  /\ \A a \in attempts : a.conn \in used /\ (a.stage = "sent" => a.conn \notin up)
                         /\ (a.reopens # Null => Known(a.reopens))
  /\ \A a, b \in attempts : a.conn = b.conn => a = b
  /\ \A c \in live \cup files \cup (flags \cap Files) : Known(c)
  /\ \A t \in Open : bound[t] # Null => Known(bound[t])
  /\ selected # Null => Known(selected)
  /\ pendingSwitch # Null => Known(pendingSwitch.conn)
  /\ \A s \in noted \cup DOMAIN sessions : Known(s[2])
  /\ \A i \in DOMAIN inbox : Known(inbox[i].conn)
  /\ \A w \in work : Known(w.conn)
  /\ up \subseteq used
  /\ \A w \in work : w.op = "disconnect" => w.conn \notin up
  /\ \A a \in attempts : a.reopens # Null => a.reopens \notin up

(* A tab's id is used before anything is done for the tab. *)
TabInv ==
  /\ \A i \in DOMAIN inbox : inbox[i].op \in {"run", "close"} => inbox[i].tab \in used
  /\ \A w \in work : w.op = "run" => w.tab \in used
  /\ flags \cap TabIds \subseteq used

(* The end of session s is on its way behind the i-th command. *)
ClosedLater(i, s) == \E j \in DOMAIN inbox : i < j /\ inbox[j] = CloseSession(s)

(* Where commands are taken up in order: a session, there or about to be opened, is noted,
   or its end is on its way behind whatever opens it. *)
SessionInv ==
  /\ \A i \in DOMAIN inbox : inbox[i].op = "run" /\ inbox[i].conn \in Servers =>
       LET s == <<inbox[i].tab, inbox[i].conn>> IN s \in noted \/ ClosedLater(i, s)
  /\ \A s \in DOMAIN sessions : s \in noted \/ Sent(CloseSession(s))

(* A run of tab t. *)
Runs(m, t) == m.op = "run" /\ m.tab = t

(* One run at a time: in the inbox, at work, never both. *)
OneRun(t) ==
  /\ \A i, j \in DOMAIN inbox : Runs(inbox[i], t) /\ Runs(inbox[j], t) => i = j
  /\ \A v, w \in work : Runs(v, t) /\ Runs(w, t) => v = w
  /\ \A i \in DOMAIN inbox : Runs(inbox[i], t) => \A w \in work : ~Runs(w, t)

(* The run is on the connection the tab is bound to, whose session is noted. *)
Homely(t) ==
  /\ \A i \in DOMAIN inbox : Runs(inbox[i], t) /\ inbox[i].conn \in Servers
       => inbox[i].conn = bound[t] /\ <<t, bound[t]>> \in noted
  /\ \A w \in work : Runs(w, t) /\ w.conn \in Servers
       => w.conn = bound[t] /\ <<t, bound[t]>> \in noted /\ (Begun(w) /\ w.conn \in up => w.attached)

(* An end of a session of tab t. *)
Closes(m, t) == m.op = "close" /\ m.tab = t

(* While a session's end is on its way the tab has no flag and nothing at work, and what it
   runs next comes behind. *)
ClosedFirst(t) ==
  \A i \in DOMAIN inbox : Closes(inbox[i], t) =>
    /\ t \notin flags
    /\ \A w \in work : ~Runs(w, t)
    /\ \A j \in DOMAIN inbox : Runs(inbox[j], t) => i < j

(* The flag is what the server has, but for an answer that is on its way; and that says it. *)
Truth(t) ==
  bound[t] \in up \cap Servers /\ ~Sent(CloseSession(<<t, bound[t]>>)) =>
    LET now == InTransaction(<<t, bound[t]>>) IN
    /\ (\A w \in work : Runs(w, t) /\ w.conn \in Servers => w.stage = "begun") => (t \in flags <=> now)
    /\ \A w \in work : Runs(w, t) /\ w.conn \in Servers /\ w.stage = "answered" =>
         /\ w.says = "open" => now
         /\ w.says = "closed" => ~now
         /\ w.says = "nothing" => (t \in flags <=> now)

(* The sessions noted, and the flag, are of the connection the tab is bound to. *)
Settles(t) ==
  /\ \A s \in noted : s[1] = t => s[2] = bound[t]
  /\ t \in flags => <<t, bound[t]>> \in noted

(* What keeps the flag of a tab true; of every tab but those whose flag is known to lie. *)
TabFlag(t) == Settles(t) /\ OneRun(t) /\ Homely(t) /\ ClosedFirst(t) /\ Truth(t)

(* Every such tab's flag is kept true. *)
FlagInv == \A t \in Open \ muddled : TabFlag(t)

(* A run on file f, or the rollback of its transaction. *)
Uses(m, f) == m.op \in {"run", "rollback"} /\ m.conn = f

(* The same of a file: one use at a time, and the flag is what the file has, but for an answer
   on its way. *)
FileFlag(f) ==
  /\ \A i, j \in DOMAIN inbox : Uses(inbox[i], f) /\ Uses(inbox[j], f) => i = j
  /\ \A v, w \in work : Uses(v, f) /\ Uses(w, f) => v = w
  /\ \A i \in DOMAIN inbox : Uses(inbox[i], f) => \A w \in work : ~Uses(w, f)
  /\ \A w \in work : Uses(w, f) /\ w.stage = "begun" => w.attached
  /\ (\A w \in work : Uses(w, f) => w.stage = "begun") => (f \in flags <=> f \in files)
  /\ \A w \in work : Uses(w, f) /\ w.stage = "answered" =>
       /\ w.says = "open" => f \in files
       /\ w.says = "closed" => f \notin files
       /\ w.says = "nothing" => (f \in flags <=> f \in files)

(* No session is noted of a file, or closed, while it is listed; and the flags of files are
   true, but for those known to lie. *)
FileInv ==
  /\ \A s \in noted : s[2] \in Files => s[2] \notin live
  /\ \A i \in DOMAIN inbox : inbox[i].op = "close" /\ inbox[i].conn \in Files => inbox[i].conn \notin live
  /\ \A f \in (live \cap up \cap Files) \ muddled : FileFlag(f)

(* r is q and then, in some order and once each, the members of M. *)
Extends(q, r, M) ==
  /\ \A i \in DOMAIN q : i \in DOMAIN r /\ r[i] = q[i]
  /\ \A i \in DOMAIN r : i \in DOMAIN q \/ (r[i] \in M /\ \A j \in DOMAIN q : j < i)
  /\ \A i, j \in DOMAIN r \ DOMAIN q : r[i] = r[j] => i = j
  /\ \A m \in M : \E i \in DOMAIN r \ DOMAIN q : r[i] = m

(* SetToSeq lists the members of a finite set, each once. *)
LEMMA SetToSeqIs ==
  ASSUME NEW S, IsFiniteSet(S)
  PROVE  /\ SetToSeq(S) \in Seq(S)
         /\ \A m \in S : \E i \in 1..Len(SetToSeq(S)) : SetToSeq(S)[i] = m
         /\ \A i, j \in 1..Len(SetToSeq(S)) : SetToSeq(S)[i] = SetToSeq(S)[j] => i = j
<1> DEFINE n == Cardinality(S)  f == SetToSeq(S)
<1>1. n \in Nat /\ ExistsBijection(1..n, S)
  BY FS_CardinalityType
<1>2. PICK g \in [1..n -> S] : IsInjective(g) /\ \A m \in S : \E i \in 1..n : g[i] = m
  BY <1>1 DEF ExistsBijection, Bijection, Injection, Surjection, IsInjective
<1>3. f \in [1..n -> S] /\ IsInjective(f)
  BY <1>2 DEF SetToSeq
<1>4. f \in Seq(S) /\ Len(f) = n
  BY <1>1, <1>3
<1>5. \A i, j \in 1..n : f[i] = f[j] => i = j
  BY <1>3 DEF IsInjective
<1>6. f \in Injection(1..n, S)
  BY <1>3, <1>5 DEF Injection, IsInjective
<1>7. f \in Surjection(1..n, S)
  <2>1. IsFiniteSet(1..n) /\ Cardinality(1..n) = n
    BY <1>1, FS_Interval
  <2> QED
    BY <1>6, <2>1, FS_Injection
<1>8. \A m \in S : \E i \in 1..n : f[i] = m
  BY <1>7 DEF Surjection
<1> QED
  BY <1>4, <1>5, <1>8

(* Sending a set of commands extends the inbox by them. *)
LEMMA ConcatExtends ==
  ASSUME NEW C, NEW q \in Seq(C), NEW M \in SUBSET C, IsFiniteSet(M)
  PROVE  q \o SetToSeq(M) \in Seq(C) /\ Extends(q, q \o SetToSeq(M), M)
<1> DEFINE f == SetToSeq(M)  r == q \o f
<1>1. /\ f \in Seq(M) /\ \A m \in M : \E i \in 1..Len(f) : f[i] = m
      /\ \A i, j \in 1..Len(f) : f[i] = f[j] => i = j
  BY SetToSeqIs
<1>2. f \in Seq(C) /\ Len(f) \in Nat /\ Len(q) \in Nat /\ \A i \in 1..Len(f) : f[i] \in M
  BY <1>1
<1> HIDE DEF f
<1>3. /\ r \in Seq(C) /\ Len(r) = Len(q) + Len(f)
      /\ DOMAIN q = 1..Len(q) /\ DOMAIN r = 1..(Len(q) + Len(f))
      /\ \A i \in 1..(Len(q) + Len(f)) : r[i] = IF i <= Len(q) THEN q[i] ELSE f[i - Len(q)]
  BY <1>2
<1> HIDE DEF r
<1>4. \A i \in DOMAIN q : i \in DOMAIN r /\ r[i] = q[i]
  BY <1>2, <1>3
<1>5. ASSUME NEW i \in DOMAIN r, i \notin DOMAIN q
      PROVE  /\ i - Len(q) \in 1..Len(f) /\ r[i] = f[i - Len(q)] /\ i \in Int
             /\ \A j \in DOMAIN q : j < i
  BY <1>2, <1>3, <1>5
<1>6. \A i \in DOMAIN r : i \in DOMAIN q \/ (r[i] \in M /\ \A j \in DOMAIN q : j < i)
  BY <1>2, <1>5
<1>7. ASSUME NEW i \in DOMAIN r \ DOMAIN q, NEW j \in DOMAIN r \ DOMAIN q, r[i] = r[j]
      PROVE  i = j
  <2>1. i - Len(q) \in 1..Len(f) /\ r[i] = f[i - Len(q)] /\ i \in Int
    BY <1>5
  <2>2. j - Len(q) \in 1..Len(f) /\ r[j] = f[j - Len(q)] /\ j \in Int
    BY <1>5
  <2>3. f[i - Len(q)] = f[j - Len(q)]
    BY <1>7, <2>1, <2>2
  <2>4. i - Len(q) = j - Len(q)
    BY <1>1, <2>1, <2>2, <2>3
  <2> QED
    BY <1>2, <2>1, <2>2, <2>4
<1>8. ASSUME NEW m \in M PROVE \E i \in DOMAIN r \ DOMAIN q : r[i] = m
  <2>1. PICK k \in 1..Len(f) : f[k] = m
    BY <1>1
  <2>2. k + Len(q) \in DOMAIN r \ DOMAIN q /\ (k + Len(q)) - Len(q) = k /\ ~(k + Len(q) <= Len(q))
    BY <1>2, <1>3
  <2> QED
    BY <1>3, <2>1, <2>2
<1> QED
  BY <1>3, <1>4, <1>6, <1>7, <1>8 DEF Extends, r, f

(* Two extensions are one. *)
LEMMA ExtendsTwice ==
  ASSUME NEW C, NEW p \in Seq(C), NEW q \in Seq(C), NEW r \in Seq(C), NEW M, NEW N,
         Extends(p, q, M), Extends(q, r, N), M \cap N = {}
  PROVE  Extends(p, r, M \cup N)
<1>1. DOMAIN p = 1..Len(p) /\ DOMAIN q = 1..Len(q) /\ DOMAIN r = 1..Len(r)
  OBVIOUS
<1>2. \A i \in DOMAIN p : i \in DOMAIN r /\ r[i] = p[i]
  BY DEF Extends
<1>3. \A i \in DOMAIN r : i \in DOMAIN p \/ (r[i] \in M \cup N /\ \A j \in DOMAIN p : j < i)
  BY DEF Extends
<1>4. ASSUME NEW i \in DOMAIN r \ DOMAIN p, NEW j \in DOMAIN r \ DOMAIN p, r[i] = r[j] PROVE i = j
  <2>1. ASSUME NEW x \in DOMAIN r, x \notin DOMAIN p
        PROVE  \/ x \in DOMAIN q /\ r[x] = q[x] /\ q[x] \in M
               \/ x \notin DOMAIN q /\ r[x] \in N
    BY <2>1 DEF Extends
  <2>2. CASE i \in DOMAIN q /\ j \in DOMAIN q
    BY <1>4, <2>1, <2>2 DEF Extends
  <2>3. CASE i \notin DOMAIN q /\ j \notin DOMAIN q
    BY <1>4, <2>3 DEF Extends
  <2> QED
    BY <1>4, <2>1, <2>2, <2>3
<1>5. \A m \in M \cup N : \E i \in DOMAIN r \ DOMAIN p : r[i] = m
  BY DEF Extends
<1> QED
  BY <1>2, <1>3, <1>4, <1>5 DEF Extends

(* Sending a command extends the inbox by it. *)
LEMMA AppendExtends ==
  ASSUME NEW C, NEW q \in Seq(C), NEW m \in C
  PROVE  Append(q, m) \in Seq(C) /\ Extends(q, Append(q, m), {m})
<1> DEFINE r == Append(q, m)
<1>1. /\ r \in Seq(C) /\ Len(q) \in Nat /\ DOMAIN q = 1..Len(q) /\ DOMAIN r = 1..(Len(q) + 1)
      /\ r[Len(q) + 1] = m /\ \A i \in 1..Len(q) : r[i] = q[i]
  OBVIOUS
<1> HIDE DEF r
<1>2. \A i \in DOMAIN q : i \in DOMAIN r /\ r[i] = q[i]
  BY <1>1
<1>3. \A i \in DOMAIN r \ DOMAIN q : i = Len(q) + 1
  BY <1>1
<1>4. Len(q) + 1 \in DOMAIN r \ DOMAIN q /\ \A j \in DOMAIN q : j < Len(q) + 1
  BY <1>1
<1> QED
  BY <1>1, <1>2, <1>3, <1>4 DEF Extends, r

(* r is q without its k-th element. *)
Drops(q, k, r) ==
  /\ \A i \in DOMAIN r : LET j == IF i < k THEN i ELSE i + 1 IN j \in DOMAIN q \ {k} /\ r[i] = q[j]
  /\ \A j \in DOMAIN q \ {k} : LET i == IF j < k THEN j ELSE j - 1 IN i \in DOMAIN r /\ r[i] = q[j]

(* Taking up the k-th command drops it. *)
LEMMA RemoveDrops ==
  ASSUME NEW C, NEW q \in Seq(C), NEW k \in DOMAIN q
  PROVE  RemoveAt(q, k) \in Seq(C) /\ Len(RemoveAt(q, k)) = Len(q) - 1 /\ Drops(q, k, RemoveAt(q, k))
<1> DEFINE a == SubSeq(q, 1, k - 1)  b == SubSeq(q, k + 1, Len(q))  r == a \o b
<1>1. Len(q) \in Nat /\ DOMAIN q = 1..Len(q) /\ k \in 1..Len(q)
  OBVIOUS
<1>2. a \in Seq(C) /\ Len(a) = k - 1 /\ \A i \in 1..(k - 1) : a[i] = q[i]
  BY <1>1
<1>3. b \in Seq(C) /\ Len(b) = Len(q) - k /\ \A i \in 1..(Len(q) - k) : b[i] = q[k + i]
  BY <1>1
<1> HIDE DEF a, b
<1>4. /\ r \in Seq(C) /\ Len(r) = Len(a) + Len(b) /\ DOMAIN r = 1..Len(r)
      /\ \A i \in 1..(Len(a) + Len(b)) : r[i] = IF i <= Len(a) THEN a[i] ELSE b[i - Len(a)]
  <2>1. a \in Seq(C) /\ b \in Seq(C) /\ Len(a) \in Nat /\ Len(b) \in Nat
    BY <1>2, <1>3
  <2>2. r \in Seq(C) /\ Len(r) = Len(a) + Len(b)
    BY <2>1
  <2>3. ASSUME NEW i \in 1..(Len(a) + Len(b)) PROVE r[i] = IF i <= Len(a) THEN a[i] ELSE b[i - Len(a)]
    BY <2>1
  <2> QED
    BY <2>2, <2>3
<1>5. Len(r) = Len(q) - 1 /\ DOMAIN r = 1..(Len(q) - 1)
  BY <1>1, <1>2, <1>3, <1>4
<1> HIDE DEF r
<1>6. ASSUME NEW i \in 1..(Len(q) - 1), i < k PROVE r[i] = q[i] /\ i \in DOMAIN q \ {k}
  <2>1. i \in 1..(k - 1) /\ i \in 1..(Len(a) + Len(b)) /\ i <= Len(a)
    BY <1>1, <1>2, <1>3, <1>6
  <2> QED
    BY <1>1, <1>2, <1>4, <2>1
<1>7. ASSUME NEW i \in 1..(Len(q) - 1), ~(i < k) PROVE r[i] = q[i + 1] /\ i + 1 \in DOMAIN q \ {k}
  <2>1. /\ i - Len(a) \in 1..(Len(q) - k) /\ i \in 1..(Len(a) + Len(b)) /\ ~(i <= Len(a))
        /\ k + (i - Len(a)) = i + 1
    BY <1>1, <1>2, <1>3, <1>7
  <2>2. r[i] = b[i - Len(a)] /\ b[i - Len(a)] = q[k + (i - Len(a))]
    BY <1>3, <1>4, <2>1
  <2> QED
    BY <1>1, <1>7, <2>1, <2>2
<1>8. \A i \in DOMAIN r : LET j == IF i < k THEN i ELSE i + 1 IN j \in DOMAIN q \ {k} /\ r[i] = q[j]
  BY <1>5, <1>6, <1>7
<1>9. ASSUME NEW j \in DOMAIN q \ {k}, j < k PROVE j \in DOMAIN r /\ r[j] = q[j]
  <2>1. j \in 1..(Len(q) - 1)
    BY <1>1, <1>9
  <2> QED
    BY <1>5, <1>6, <1>9, <2>1
<1>10. ASSUME NEW j \in DOMAIN q \ {k}, ~(j < k) PROVE j - 1 \in DOMAIN r /\ r[j - 1] = q[j]
  <2>1. j - 1 \in 1..(Len(q) - 1) /\ ~(j - 1 < k) /\ (j - 1) + 1 = j
    BY <1>1, <1>10
  <2>2. r[j - 1] = q[(j - 1) + 1]
    BY <1>7, <2>1
  <2> QED
    BY <1>5, <2>1, <2>2
<1> QED
  BY <1>4, <1>5, <1>8, <1>9, <1>10 DEF Drops, RemoveAt, r, a, b

(* A new tab at the end of the strip. *)
LEMMA StripAppend ==
  ASSUME NEW S, NEW s \in Seq(S), IsInjective(s), NEW t \in S, t \notin ToSet(s)
  PROVE  LET r == Append(s, t) IN
         r \in Seq(S) /\ r # <<>> /\ IsInjective(r) /\ ToSet(r) = ToSet(s) \cup {t}
<1> DEFINE r == Append(s, t)
<1>1. /\ r \in Seq(S) /\ Len(s) \in Nat /\ DOMAIN s = 1..Len(s) /\ DOMAIN r = 1..(Len(s) + 1)
      /\ r[Len(s) + 1] = t /\ \A i \in 1..Len(s) : r[i] = s[i]
  OBVIOUS
<1> HIDE DEF r
<1>2. r # <<>>
  BY <1>1
<1>3. \A i \in DOMAIN r : i \in DOMAIN s \/ i = Len(s) + 1
  BY <1>1
<1>4. Len(s) + 1 \in DOMAIN r /\ \A i \in DOMAIN s : i \in DOMAIN r
  BY <1>1
<1>5. \A i \in DOMAIN s : r[i] = s[i] /\ s[i] # t
  BY <1>1 DEF ToSet
<1>6. IsInjective(r)
  BY <1>1, <1>3, <1>5 DEF IsInjective
<1>7. ToSet(r) = ToSet(s) \cup {t}
  BY <1>1, <1>3, <1>4, <1>5 DEF ToSet
<1> QED
  BY <1>1, <1>2, <1>6, <1>7 DEF r

(* The strip without its k-th tab. *)
LEMMA StripRemove ==
  ASSUME NEW S, NEW s \in Seq(S), IsInjective(s), NEW k \in DOMAIN s
  PROVE  LET r == RemoveAt(s, k) IN
         /\ r \in Seq(S) /\ IsInjective(r) /\ ToSet(r) = ToSet(s) \ {s[k]}
         /\ r # <<>> => Last(r) \in ToSet(r)
<1> DEFINE r == RemoveAt(s, k)
<1>1. r \in Seq(S) /\ Len(r) = Len(s) - 1 /\ Drops(s, k, r)
  BY RemoveDrops
<1> HIDE DEF r
<1>2. DOMAIN r = 1..Len(r) /\ Len(r) \in Nat /\ DOMAIN s = 1..Len(s)
  BY <1>1
<1>3. \A i \in DOMAIN r : \E j \in DOMAIN s \ {k} : r[i] = s[j] /\ j = IF i < k THEN i ELSE i + 1
  BY <1>1 DEF Drops
<1>4. \A j \in DOMAIN s \ {k} : \E i \in DOMAIN r : r[i] = s[j]
  BY <1>1 DEF Drops
<1>5. IsInjective(r)
  <2> SUFFICES ASSUME NEW a \in DOMAIN r, NEW b \in DOMAIN r, r[a] = r[b] PROVE a = b
    BY DEF IsInjective
  <2>1. PICK i \in DOMAIN s \ {k} : r[a] = s[i] /\ i = IF a < k THEN a ELSE a + 1
    BY <1>3
  <2>2. PICK j \in DOMAIN s \ {k} : r[b] = s[j] /\ j = IF b < k THEN b ELSE b + 1
    BY <1>3
  <2>3. i = j
    BY <2>1, <2>2 DEF IsInjective
  <2> QED
    BY <1>2, <2>1, <2>2, <2>3
<1>6. \A j \in DOMAIN s \ {k} : s[j] # s[k]
  BY DEF IsInjective
<1>7. ToSet(r) = ToSet(s) \ {s[k]}
  BY <1>3, <1>4, <1>6 DEF ToSet
<1>8. r # <<>> => Last(r) \in ToSet(r)
  <2> SUFFICES ASSUME r # <<>> PROVE Last(r) \in ToSet(r)
    OBVIOUS
  <2>1. Len(r) \in 1..Len(r)
    BY <1>1
  <2> QED
    BY <1>2, <2>1 DEF Last, ToSet
<1> QED
  BY <1>1, <1>5, <1>7, <1>8 DEF r

(* The strip up to its k-th tab. *)
LEMMA StripRight ==
  ASSUME NEW S, NEW s \in Seq(S), IsInjective(s), NEW k \in DOMAIN s
  PROVE  LET r == SubSeq(s, 1, k) IN
         r \in Seq(S) /\ r # <<>> /\ IsInjective(r) /\ ToSet(r) = {s[i] : i \in 1..k} /\ s[k] \in ToSet(r)
<1> DEFINE r == SubSeq(s, 1, k)
<1>1. /\ r \in Seq(S) /\ Len(r) = k /\ DOMAIN r = 1..k /\ \A i \in 1..k : r[i] = s[i] /\ i \in DOMAIN s
      /\ k \in 1..k
  OBVIOUS
<1>2. r # <<>>
  BY <1>1
<1> HIDE DEF r
<1>3. IsInjective(r)
  BY <1>1 DEF IsInjective
<1>4. ToSet(r) = {s[i] : i \in 1..k}
  BY <1>1 DEF ToSet
<1> QED
  BY <1>1, <1>2, <1>3, <1>4 DEF r

(* A strip of one tab. *)
LEMMA StripOne ==
  ASSUME NEW S, NEW t \in S
  PROVE  <<t>> \in Seq(S) /\ <<t>> # <<>> /\ IsInjective(<<t>>) /\ ToSet(<<t>>) = {t}
BY DEF IsInjective, ToSet

(* An open tab has a place on the strip. *)
LEMMA OpenTab == ASSUME StripInv, NEW t \in Open PROVE \E i \in DOMAIN strip : strip[i] = t
BY DEF Open, ToSet

(* A close leaves the tabs it does not close, or a fresh tab in the place of the last one. *)
LEMMA RunCloseShape ==
  ASSUME StripInv, NEW t \in Open, NEW kind \in CloseKinds, runClose(kind, t)
  PROVE  \E s, b :
           /\ s \in Seq(TabIds) /\ s # <<>> /\ IsInjective(s) /\ active' \in ToSet(s) /\ TabsChange(s, b, selected)
           /\ \/ /\ ToSet(s) = Open \ tabsClosedBy(kind, t) /\ b = [x \in ToSet(s) |-> bound[x]]
                 /\ used' = used /\ (selected' = selected \/ selected' \in live)
              \/ /\ kind = "close" /\ Open = {t} /\ selected' = selected
                 /\ \E n \in TabIds \ used : s = <<n>> /\ b = [x \in {n} |-> bound[t]] /\ used' = used \cup {n}
<1> DEFINE at == CHOOSE i \in DOMAIN strip : strip[i] = t
           remaining == CASE kind = "close"  -> RemoveAt(strip, at)
                          [] kind = "others" -> <<t>>
                          [] kind = "right"  -> SubSeq(strip, 1, at)
           next == IF active \in ToSet(remaining) /\ kind # "others" THEN active
                   ELSE IF kind = "close" THEN Last(remaining) ELSE t
<1>1. at \in DOMAIN strip /\ strip[at] = t
  BY OpenTab
<1>2. \A i \in DOMAIN strip : strip[i] = t => i = at
  BY <1>1 DEF StripInv, IsInjective
<1>3. \/ /\ remaining = <<>>
         /\ \E n \in TabIds \ used : /\ used' = used \cup {n} /\ active' = n
                                     /\ TabsChange(<<n>>, [x \in {n} |-> bound[t]], selected)
                                     /\ selected' = selected
      \/ /\ remaining # <<>> /\ active' = next
         /\ TabsChange(remaining, Restrict(bound, ToSet(remaining)), selected)
         /\ Selects(next, bound, selected) /\ used' = used
  BY DEF runClose
<1> HIDE DEF at
<1>4. /\ remaining \in Seq(TabIds) /\ IsInjective(remaining)
      /\ ToSet(remaining) = Open \ tabsClosedBy(kind, t)
      /\ remaining = <<>> => kind = "close" /\ Open = {t}
      /\ remaining # <<>> => next \in ToSet(remaining)
  <2>0. t \in TabIds /\ strip \in Seq(TabIds) /\ IsInjective(strip) /\ Open = {strip[i] : i \in DOMAIN strip}
    BY <1>1 DEF StripInv, Open, ToSet
  <2>1. CASE kind = "close"
    <3>1. remaining = RemoveAt(strip, at)
      BY <2>1
    <3> HIDE DEF remaining
    <3>2. /\ remaining \in Seq(TabIds) /\ IsInjective(remaining) /\ ToSet(remaining) = ToSet(strip) \ {t}
          /\ remaining # <<>> => Last(remaining) \in ToSet(remaining)
      BY <1>1, <2>0, <3>1, StripRemove
    <3>3. tabsClosedBy(kind, t) = {t}
      BY <2>1 DEF tabsClosedBy
    <3>4. remaining = <<>> => ToSet(remaining) = {}
      BY DEF ToSet
    <3> QED
      BY <2>1, <3>2, <3>3, <3>4 DEF Open
  <2>2. CASE kind = "others"
    <3>1. remaining = <<t>>
      BY <2>2
    <3> HIDE DEF remaining
    <3>2. remaining \in Seq(TabIds) /\ remaining # <<>> /\ IsInjective(remaining) /\ ToSet(remaining) = {t}
      BY <2>0, <3>1, StripOne
    <3>3. Open \ tabsClosedBy(kind, t) = {t}
      BY <2>2 DEF tabsClosedBy
    <3> QED
      BY <2>2, <3>2, <3>3
  <2>3. CASE kind = "right"
    <3>1. remaining = SubSeq(strip, 1, at)
      BY <2>3
    <3> HIDE DEF remaining
    <3>2. /\ remaining \in Seq(TabIds) /\ remaining # <<>> /\ IsInjective(remaining) /\ t \in ToSet(remaining)
          /\ ToSet(remaining) = {strip[i] : i \in 1..at}
      BY <1>1, <2>0, <3>1, StripRight
    <3>3. tabsClosedBy(kind, t) = {x \in Open : \E i, j \in DOMAIN strip : i < j /\ strip[i] = t /\ strip[j] = x}
      BY <2>3 DEF tabsClosedBy
    <3>4. \A j \in DOMAIN strip : strip[j] \in tabsClosedBy(kind, t) <=> at < j
      <4> TAKE j \in DOMAIN strip
      <4>1. strip[j] \in Open
        BY <2>0
      <4>2. ASSUME strip[j] \in tabsClosedBy(kind, t) PROVE at < j
        <5>1. PICK i \in DOMAIN strip, k \in DOMAIN strip : i < k /\ strip[i] = t /\ strip[k] = strip[j]
          BY <3>3, <4>2
        <5>2. i = at /\ k = j
          BY <1>2, <2>0, <5>1 DEF IsInjective
        <5> QED
          BY <5>1, <5>2
      <4> QED
        BY <1>1, <3>3, <4>1, <4>2
    <3>5. DOMAIN strip = 1..Len(strip) /\ Len(strip) \in Nat
      BY <2>0
    <3>6. \A j \in DOMAIN strip : j \in 1..at <=> ~(at < j)
      BY <1>1, <3>5
    <3>7. \A i \in 1..at : i \in DOMAIN strip
      BY <1>1, <3>5
    <3>8. ToSet(remaining) = Open \ tabsClosedBy(kind, t)
      BY <2>0, <3>2, <3>4, <3>6, <3>7
    <3> QED
      BY <2>3, <3>2, <3>8
  <2> QED
    BY <2>1, <2>2, <2>3 DEF CloseKinds
<1> HIDE DEF remaining, next
<1>5. CASE remaining = <<>>
  <2>1. PICK n \in TabIds \ used : /\ used' = used \cup {n} /\ active' = n
                                   /\ TabsChange(<<n>>, [x \in {n} |-> bound[t]], selected)
                                   /\ selected' = selected
    BY <1>3, <1>5
  <2>2. <<n>> \in Seq(TabIds) /\ <<n>> # <<>> /\ IsInjective(<<n>>) /\ ToSet(<<n>>) = {n}
    BY StripOne
  <2> QED
    BY <1>4, <1>5, <2>1, <2>2
<1>6. CASE remaining # <<>>
  <2>1. Restrict(bound, ToSet(remaining)) = [x \in ToSet(remaining) |-> bound[x]]
    BY DEF Restrict
  <2>2. selected' = selected \/ selected' \in live
    BY <1>3, <1>6 DEF Selects
  <2> QED
    BY <1>3, <1>4, <1>6, <2>1, <2>2
<1> QED
  BY <1>5, <1>6

(* Known(c) of the next state. *)
KnownNext(c) == c \in used' /\ \A a \in attempts' : a.conn # c

(* The tabs become s with connections b. *)
Retabs(s, b, sel) ==
  /\ s \in Seq(TabIds) /\ s # <<>> /\ IsInjective(s) /\ active' \in ToSet(s)
  /\ ToSet(s) \subseteq Open \cup (TabIds \ used) /\ used' = used \cup ToSet(s)
  /\ b \in [ToSet(s) -> Conns \cup {Null}]
  /\ \A t \in ToSet(s) : b[t] # Null => KnownNext(b[t])
  /\ \A t \in ToSet(s) \cap Open : bound[t] # Null => b[t] # Null
  /\ TabsChange(s, b, sel)

(* The prompts are of their type, and about a connection that is known. *)
KeepsPrompts ==
  /\ pendingClose' \in ClosePrompt \cup {Null}
  /\ pendingSwitch' \in SwitchPrompt \cup {Null}
  /\ pendingSwitch' # Null => KnownNext(pendingSwitch'.conn)

(* What a step of the window does that sends the backend nothing but the ends of
   sessions and transactions. *)
Turn ==
  /\ \/ UNCHANGED <<tabVars, used>> /\ active' \in Open
     \/ \E s, b, sel : Retabs(s, b, sel)
  /\ KeepsPrompts
  /\ selected' \in Conns \cup {Null} /\ (selected' # Null => KnownNext(selected'))
  /\ \/ UNCHANGED <<live, attempts>>
     \/ \E a \in attempts : /\ a.stage = "made" /\ attempts' = attempts \ {a} /\ live' = live \cup {a.conn}
  /\ UNCHANGED <<backVars, runs>>

(* With the same connects in flight what is known stays known, and the strip is as it was. *)
LEMMA StillOpen ==
  ASSUME StripInv, ConnInv, UNCHANGED attempts
  PROVE  /\ \A c : Known(c) /\ used \subseteq used' => KnownNext(c)
         /\ strip \in Seq(TabIds) /\ strip # <<>> /\ IsInjective(strip) /\ active \in ToSet(strip)
         /\ Open = ToSet(strip) /\ used = used \cup ToSet(strip)
BY DEF Known, KnownNext, StripInv, Open

(* The tabs themselves stay, with connections b. *)
LEMMA Rebinds ==
  ASSUME StripInv, ConnInv, NEW b \in [Open -> Conns \cup {Null}], NEW sel, active' = active, used' = used,
         \A t \in Open : b[t] # Null => KnownNext(b[t]), \A t \in Open : bound[t] # Null => b[t] # Null,
         TabsChange(strip, b, sel)
  PROVE  Retabs(strip, b, sel)
BY DEF Retabs, StripInv, Open

(* A new tab joins the others, which keep their connections. *)
LEMMA AddTabShape ==
  ASSUME StripInv, ConnInv, NEW c \in Conns \cup {Null}, NEW sel, c # Null => KnownNext(c),
         \A x : Known(x) => KnownNext(x), AddTab(c, sel)
  PROVE  \E s, b : Retabs(s, b, sel) /\ ToSet(s) \in {Open \cup {t} : t \in TabIds \ used}
                   /\ \A t \in Open : b[t] = bound[t]
<1>1. PICK t \in TabIds \ used : /\ used' = used \cup {t} /\ active' = t
                                 /\ TabsChange(Append(strip, t), With(bound, t, c), sel)
  BY DEF AddTab
<1> DEFINE s == Append(strip, t)  b == With(bound, t, c)
<1>2. /\ s \in Seq(TabIds) /\ s # <<>> /\ IsInjective(s) /\ ToSet(s) = Open \cup {t} /\ t \notin Open
  BY <1>1, StripAppend DEF StripInv, Open
<1>3. DOMAIN bound = Open /\ \A x \in Open : bound[x] \in Conns \cup {Null}
  BY DEF StripInv
<1>4. b \in [ToSet(s) -> Conns \cup {Null}] /\ b[t] = c /\ \A x \in Open : b[x] = bound[x]
  BY <1>2, <1>3 DEF With
<1>5. used' = used \cup ToSet(s)
  BY <1>1, <1>2 DEF StripInv
<1>6. \A x \in ToSet(s) : b[x] # Null => KnownNext(b[x])
  BY <1>2, <1>4 DEF ConnInv
<1> HIDE DEF s, b
<1>7. Retabs(s, b, sel)
  BY <1>1, <1>2, <1>4, <1>5, <1>6 DEF Retabs, s, b
<1> QED
  BY <1>1, <1>2, <1>4, <1>7

(* A close of t, in the cases that close tabs. *)
LEMMA RunCloseRetabs ==
  ASSUME StripInv, ConnInv, NEW t \in Open, NEW kind \in CloseKinds, runClose(kind, t), UNCHANGED attempts
  PROVE  /\ \E s, b : /\ Retabs(s, b, selected)
                      /\ \/ ToSet(s) = Open \ tabsClosedBy(kind, t) /\ b = [x \in ToSet(s) |-> bound[x]]
                         \/ /\ kind = "close" /\ Open = {t}
                            /\ \E n \in TabIds \ used : ToSet(s) = {n} /\ b = [x \in {n} |-> bound[t]]
         /\ selected' = selected \/ selected' \in live
         /\ \A c : Known(c) => KnownNext(c)
<1>1. PICK s, b :
        /\ s \in Seq(TabIds) /\ s # <<>> /\ IsInjective(s) /\ active' \in ToSet(s) /\ TabsChange(s, b, selected)
        /\ \/ /\ ToSet(s) = Open \ tabsClosedBy(kind, t) /\ b = [x \in ToSet(s) |-> bound[x]]
              /\ used' = used /\ (selected' = selected \/ selected' \in live)
           \/ /\ kind = "close" /\ Open = {t} /\ selected' = selected
              /\ \E n \in TabIds \ used : s = <<n>> /\ b = [x \in {n} |-> bound[t]] /\ used' = used \cup {n}
  BY RunCloseShape
<1>2. \A c : Known(c) => KnownNext(c)
  BY <1>1 DEF Known, KnownNext
<1>3. bound \in [Open -> Conns \cup {Null}] /\ Open \subseteq used /\ \A x \in Open : bound[x] # Null => Known(bound[x])
  BY DEF StripInv, ConnInv
<1>4. CASE /\ ToSet(s) = Open \ tabsClosedBy(kind, t) /\ b = [x \in ToSet(s) |-> bound[x]]
           /\ used' = used /\ (selected' = selected \/ selected' \in live)
  <2>1. ToSet(s) \subseteq Open /\ used' = used \cup ToSet(s)
    BY <1>3, <1>4
  <2>2. b \in [ToSet(s) -> Conns \cup {Null}] /\ \A x \in ToSet(s) : b[x] = bound[x]
    BY <1>3, <1>4, <2>1
  <2>3. \A x \in ToSet(s) : b[x] # Null => KnownNext(b[x])
    BY <1>2, <1>3, <2>1, <2>2
  <2>4. Retabs(s, b, selected)
    BY <1>1, <2>1, <2>2, <2>3 DEF Retabs
  <2> QED
    BY <1>2, <1>4, <2>4
<1>5. CASE /\ kind = "close" /\ Open = {t} /\ selected' = selected
           /\ \E n \in TabIds \ used : s = <<n>> /\ b = [x \in {n} |-> bound[t]] /\ used' = used \cup {n}
  <2>1. PICK n \in TabIds \ used : s = <<n>> /\ b = [x \in {n} |-> bound[t]] /\ used' = used \cup {n}
    BY <1>5
  <2>2. ToSet(s) = {n} /\ n \notin Open
    BY <1>3, <2>1, StripOne
  <2>3. b \in [ToSet(s) -> Conns \cup {Null}] /\ b[n] = bound[t]
    BY <1>3, <2>1, <2>2
  <2>4. \A x \in ToSet(s) : b[x] # Null => KnownNext(b[x])
    BY <1>2, <1>3, <2>2, <2>3
  <2>5. Retabs(s, b, selected)
    BY <1>1, <2>1, <2>2, <2>3, <2>4 DEF Retabs
  <2> QED
    BY <1>2, <1>5, <2>1, <2>2, <2>5
<1> QED
  BY <1>1, <1>4, <1>5

(* Where what is known stays known, so does what the prompts and the selection name. *)
LEMMA Calm ==
  ASSUME TypeInv, ConnInv, \A c : Known(c) => KnownNext(c)
  PROVE  /\ UNCHANGED prompts => KeepsPrompts
         /\ \A p \in ClosePrompt \cup {Null} : pendingClose' = p /\ UNCHANGED pendingSwitch => KeepsPrompts
         /\ UNCHANGED pendingClose /\ pendingSwitch' = Null => KeepsPrompts
         /\ \A p \in SwitchPrompt : UNCHANGED pendingClose /\ pendingSwitch' = p /\ KnownNext(p.conn) => KeepsPrompts
         /\ \A x \in live \cup {selected} : x \in Conns \cup {Null} /\ (x # Null => KnownNext(x))
BY DEF TypeInv, WindowInv, ConnInv, KeepsPrompts, prompts

(* A close closes tabs that are open, and none where its own tab is gone. *)
LEMMA CloseEnds ==
  ASSUME StripInv, NEW kind, NEW t, kind \in CloseKinds
  PROVE  /\ tabsClosedBy(kind, t) \subseteq Open
         /\ tabsClosedBy(kind, t) # {} => t \in Open
<1>1. tabsClosedBy(kind, t) \subseteq Open
  BY DEF tabsClosedBy
<1>2. ASSUME NEW x \in tabsClosedBy(kind, t) PROVE t \in Open
  <2>1. CASE kind = "close"
    BY <1>2, <2>1 DEF tabsClosedBy
  <2>2. CASE kind = "others"
    BY <1>2, <2>2 DEF tabsClosedBy
  <2>3. CASE kind = "right"
    BY <1>2, <2>3 DEF tabsClosedBy, Open, ToSet
  <2> QED
    BY <2>1, <2>2, <2>3 DEF CloseKinds
<1> QED
  BY <1>1, <1>2

(* openTab is a turn of the tabs. *)
LEMMA OpenTabTurns == ASSUME TypeInv, ConnInv, openTab PROVE Turn
<1>1. PICK c \in {Null, selected} : AddTab(c, selected)
  BY DEF openTab
<1>2. UNCHANGED <<selected, prompts, live, attempts, backVars, runs>>
  BY DEF openTab
<1>3. \A x : Known(x) => KnownNext(x)
  BY <1>1, <1>2 DEF AddTab, Known, KnownNext
<1>4. c \in Conns \cup {Null} /\ (c # Null => KnownNext(c))
  BY <1>1, <1>3 DEF TypeInv, WindowInv, ConnInv
<1>5. \E s, b : Retabs(s, b, selected)
  BY <1>1, <1>3, <1>4, AddTabShape DEF TypeInv
<1> QED
  BY <1>2, <1>3, <1>5, Calm DEF Turn

(* So are a switch of tabs, typing, and a prompt dismissed. *)
LEMMA StripTurns ==
  ASSUME TypeInv, ConnInv, setActiveTab \/ updateTabContent \/ cancelPendingClose \/ cancelPendingSwitch
  PROVE  Turn
<1>1. UNCHANGED <<live, attempts, backVars, used, runs>>
  BY DEF setActiveTab, updateTabContent, cancelPendingClose, cancelPendingSwitch
<1>2. \A x : Known(x) => KnownNext(x)
  BY <1>1 DEF Known, KnownNext
<1>3. CASE setActiveTab
  <2>1. UNCHANGED <<tabVars, prompts>> /\ active' \in Open /\ selected' \in live \cup {selected}
    BY <1>3 DEF setActiveTab, Selects
  <2> QED
    BY <1>1, <1>2, <2>1, Calm DEF Turn
<1>4. CASE updateTabContent
  <2>1. TabsChange(strip, bound, selected) /\ UNCHANGED <<active, selected, prompts>>
    BY <1>4 DEF updateTabContent
  <2>2. Retabs(strip, bound, selected)
    BY <1>1, <1>2, <2>1, Rebinds DEF TypeInv, StripInv, ConnInv
  <2> QED
    BY <1>1, <1>2, <2>1, <2>2, Calm DEF Turn
<1>5. CASE cancelPendingClose
  <2>1. UNCHANGED <<tabVars, active, selected, pendingSwitch>> /\ pendingClose' = Null
    BY <1>5 DEF cancelPendingClose
  <2> QED
    BY <1>1, <1>2, <2>1, Calm DEF Turn, TypeInv, StripInv
<1>6. CASE cancelPendingSwitch
  <2>1. UNCHANGED <<tabVars, active, selected, pendingClose>> /\ pendingSwitch' = Null
    BY <1>6 DEF cancelPendingSwitch
  <2> QED
    BY <1>1, <1>2, <2>1, Calm DEF Turn, TypeInv, StripInv
<1> QED
  BY <1>3, <1>4, <1>5, <1>6

(* So is a close, or the prompt that asks first. *)
LEMMA RequestCloseTurns ==
  ASSUME TypeInv, ConnInv, NEW t \in Open, NEW kind \in CloseKinds, requestClose(kind, t)
  PROVE  Turn
<1> DEFINE ends == transactionsEndedBy(tabsClosedBy(kind, t), ConnsLeftBy(kind, t))
<1>1. UNCHANGED <<pendingSwitch, live, attempts, backVars, runs>>
  BY DEF requestClose
<1>2. CASE /\ pendingClose' = [kind |-> kind, tab |-> t, inTransaction |-> ends]
           /\ UNCHANGED <<tabVars, active, selected, used>>
  <2>1. \A x : Known(x) => KnownNext(x)
    BY <1>1, <1>2 DEF Known, KnownNext
  <2>2. t \in TabIds /\ ends \subseteq TabIds
    <3>1. Open \subseteq TabIds
      BY DEF TypeInv, StripInv, Open, ToSet
    <3>2. tabsClosedBy(kind, t) \subseteq Open
      BY CloseEnds DEF TypeInv
    <3> QED
      BY <3>1, <3>2 DEF transactionsEndedBy
  <2>3. pendingClose' \in ClosePrompt
    BY <1>2, <2>2 DEF ClosePrompt
  <2> QED
    BY <1>1, <1>2, <2>1, <2>3, Calm DEF Turn, TypeInv, StripInv
<1>3. CASE runClose(kind, t) /\ UNCHANGED pendingClose
  <2>1. /\ \E s, b : Retabs(s, b, selected)
        /\ selected' = selected \/ selected' \in live
        /\ \A c : Known(c) => KnownNext(c)
    BY <1>1, <1>3, RunCloseRetabs DEF TypeInv
  <2> QED
    BY <1>1, <1>3, <2>1, Calm DEF Turn, prompts
<1> QED
  BY <1>2, <1>3 DEF requestClose

(* So is a close that is confirmed. *)
LEMMA ConfirmCloseTurns == ASSUME TypeInv, ConnInv, confirmPendingClose PROVE Turn
<1> DEFINE kind == pendingClose.kind  t == pendingClose.tab
<1>1. pendingClose \in ClosePrompt /\ pendingClose' = Null /\ UNCHANGED <<pendingSwitch, live, attempts, backVars, runs>>
  BY DEF confirmPendingClose, TypeInv, WindowInv
<1>2. kind \in CloseKinds
  BY <1>1 DEF ClosePrompt
<1>3. \/ tabsClosedBy(kind, t) # {} /\ runClose(kind, t)
      \/ UNCHANGED <<tabVars, active, selected, used>>
  BY DEF confirmPendingClose
<1>4. CASE tabsClosedBy(kind, t) # {} /\ runClose(kind, t)
  <2>1. t \in Open
    BY <1>2, <1>4, CloseEnds DEF TypeInv
  <2>2. /\ \E s, b : Retabs(s, b, selected)
        /\ selected' = selected \/ selected' \in live
        /\ \A c : Known(c) => KnownNext(c)
    BY <1>1, <1>2, <1>4, <2>1, RunCloseRetabs DEF TypeInv
  <2> QED
    BY <1>1, <2>2, Calm DEF Turn
<1>5. CASE UNCHANGED <<tabVars, active, selected, used>>
  <2>1. \A x : Known(x) => KnownNext(x)
    BY <1>1, <1>5 DEF Known, KnownNext
  <2> QED
    BY <1>1, <1>5, <2>1, Calm DEF Turn, TypeInv, StripInv
<1> QED
  BY <1>3, <1>4, <1>5

(* A tab moved to c, or the prompt that asks first. *)
LEMMA SetTabConnectionShape ==
  ASSUME TypeInv, ConnInv, NEW t \in TabIds, NEW c \in Conns, NEW sel \in Conns \cup {Null},
         \A x : Known(x) => KnownNext(x), KnownNext(c), sel # Null => KnownNext(sel),
         active' = active, used' = used, setTabConnection(t, c, sel)
  PROVE  /\ \/ UNCHANGED <<tabVars, used>> /\ active' \in Open
            \/ t \in Open /\ Retabs(strip, Bind(t, c), sel)
         /\ selected' \in live \cup {sel}
<1>1. CASE t \in Open
  <2>1. TabsChange(strip, Bind(t, c), sel) /\ selected' \in live \cup {sel}
    BY <1>1 DEF setTabConnection, Selects
  <2>2. bound \in [Open -> Conns \cup {Null}] /\ Null \notin Conns
    BY SessionsAssumption DEF TypeInv, StripInv, Conns
  <2>3. /\ Bind(t, c) \in [Open -> Conns \cup {Null}]
        /\ \A x \in Open : Bind(t, c)[x] = IF x = t THEN c ELSE bound[x]
    BY <2>2 DEF Bind
  <2>4. Retabs(strip, Bind(t, c), sel)
    BY <2>1, <2>2, <2>3, Rebinds DEF TypeInv, ConnInv
  <2> QED
    BY <1>1, <2>1, <2>4
<1>2. CASE t \notin Open
  BY <1>2 DEF setTabConnection, TypeInv, StripInv
<1> QED
  BY <1>1, <1>2

(* A tab asked to move to c moves, or the prompt asks: a tab whose transaction would go is
   never moved at once. *)
LEMMA RequestTabConnectionShape ==
  ASSUME TypeInv, ConnInv, NEW t \in Open, NEW c \in Conns, NEW sel \in Conns \cup {Null},
         \A x : Known(x) => KnownNext(x), KnownNext(c), sel # Null => KnownNext(sel),
         active' = active, used' = used, pendingClose' = pendingClose, requestTabConnection(t, c, sel)
  PROVE  /\ \/ UNCHANGED <<tabVars, used>> /\ active' \in Open
            \/ Retabs(strip, Bind(t, c), sel) /\ (bound[t] \in {Null, c} \/ Asks({t}) = {})
         /\ KeepsPrompts
         /\ selected' \in live \cup {sel}
<1>1. CASE bound[t] \notin {Null, c} /\ Asks({t}) # {}
  <2>1. /\ pendingSwitch' = [reconnects |-> FALSE, tab |-> t, conn |-> c, inTransaction |-> Asks({t})]
        /\ selected' = sel /\ UNCHANGED tabVars
    BY <1>1 DEF requestTabConnection
  <2>2. t \in TabIds /\ Asks({t}) \subseteq TabIds
    BY DEF TypeInv, StripInv, Open, ToSet, Asks, transactionsEndedBy
  <2>3. pendingSwitch' \in SwitchPrompt /\ pendingSwitch'.conn = c
    BY <2>1, <2>2 DEF SwitchPrompt
  <2> QED
    BY <2>1, <2>3, Calm DEF TypeInv, StripInv
<1>2. CASE ~(bound[t] \notin {Null, c} /\ Asks({t}) # {})
  <2>1. setTabConnection(t, c, sel) /\ UNCHANGED pendingSwitch
    BY <1>2 DEF requestTabConnection
  <2>2. t \in TabIds
    BY DEF TypeInv, StripInv, Open, ToSet
  <2> QED
    BY <1>2, <2>1, <2>2, SetTabConnectionShape, Calm DEF prompts
<1> QED
  BY <1>1, <1>2

(* selectDatabase is a turn. *)
LEMMA SelectDatabaseTurns == ASSUME TypeInv, ConnInv, selectDatabase PROVE Turn
<1>1. /\ selected \in live /\ requestTabConnection(active, selected, selected)
      /\ UNCHANGED <<active, pendingClose, live, attempts, backVars, used, runs>>
  BY DEF selectDatabase
<1>2. \A x : Known(x) => KnownNext(x)
  BY <1>1 DEF Known, KnownNext
<1>3. selected \in Conns /\ KnownNext(selected) /\ active \in Open
  BY <1>1, <1>2 DEF TypeInv, WindowInv, ConnInv, StripInv
<1>4. /\ \/ UNCHANGED <<tabVars, used>> /\ active' \in Open
         \/ Retabs(strip, Bind(active, selected), selected)
      /\ KeepsPrompts /\ selected' \in live \cup {selected}
  BY <1>1, <1>2, <1>3, RequestTabConnectionShape
<1> QED
  BY <1>1, <1>2, <1>4, Calm DEF Turn

(* selectConnection is a turn. *)
LEMMA SelectConnectionTurns == ASSUME TypeInv, ConnInv, NEW c \in Conns, selectConnection(c) PROVE Turn
<1>1. /\ c \in live /\ selected' = c /\ UNCHANGED <<prompts, live, attempts, backVars, runs>>
      /\ \/ UNCHANGED <<tabVars, active, used>>
         \/ (\E i \in DOMAIN strip : active' = strip[i]) /\ UNCHANGED <<tabVars, used>>
         \/ AddTab(c, c)
  BY DEF selectConnection
<1>2. \A x : Known(x) => KnownNext(x)
  BY <1>1 DEF Known, KnownNext, AddTab
<1>3. KnownNext(c)
  BY <1>1, <1>2 DEF ConnInv
<1>4. \/ UNCHANGED <<tabVars, used>> /\ active' \in Open
      \/ \E s, b : Retabs(s, b, c)
  <2>1. CASE AddTab(c, c)
    BY <1>2, <1>3, <2>1, AddTabShape DEF TypeInv
  <2> QED
    BY <1>1, <2>1 DEF TypeInv, StripInv, Open, ToSet
<1> QED
  BY <1>1, <1>2, <1>3, <1>4, Calm DEF Turn

(* A switch that is confirmed is a turn. *)
LEMMA ConfirmSwitchTurns ==
  ASSUME TypeInv, ConnInv, confirmPendingSwitch, ~pendingSwitch.reconnects
  PROVE  Turn
<1>1. /\ pendingSwitch # Null /\ pendingSwitch \in SwitchPrompt /\ pendingSwitch' = Null
      /\ setTabConnection(pendingSwitch.tab, pendingSwitch.conn, selected)
      /\ UNCHANGED <<active, pendingClose, live, attempts, backVars, used, runs>>
  BY DEF confirmPendingSwitch, TypeInv, WindowInv
<1>2. pendingSwitch.tab \in TabIds /\ pendingSwitch.conn \in Conns /\ Known(pendingSwitch.conn)
  BY <1>1 DEF SwitchPrompt, ConnInv
<1>3. \A x : Known(x) => KnownNext(x)
  BY <1>1 DEF Known, KnownNext
<1>4. selected \in Conns \cup {Null} /\ (selected # Null => KnownNext(selected))
  BY <1>3, Calm
<1>5. /\ \/ UNCHANGED <<tabVars, used>> /\ active' \in Open
         \/ Retabs(strip, Bind(pendingSwitch.tab, pendingSwitch.conn), selected)
      /\ selected' \in live \cup {selected}
  BY <1>1, <1>2, <1>3, <1>4, SetTabConnectionShape
<1> QED
  BY <1>1, <1>3, <1>5, Calm DEF Turn

(* A connect that goes on, and was not cancelled. *)
ConnectedTo(a) ==
  /\ a.stage = "made" /\ ~a.cancelled /\ attempts' = attempts \ {a} /\ live' = live \cup {a.conn}
  /\ IF a.reopens = Null THEN Attach(a.conn)
     ELSE /\ TabsChange(strip, [t \in Open |-> IF bound[t] = a.reopens THEN a.conn ELSE bound[t]],
                        IF bound[active] \in live THEN bound[active] ELSE a.conn)
          /\ selected' = a.conn
          /\ UNCHANGED <<active, pendingSwitch, used>>
  /\ UNCHANGED <<pendingClose, backVars, runs>>

(* A connect that was cancelled meanwhile: its connection is taken down again. *)
GivesUp(a) ==
  /\ a.stage = "made" /\ a.cancelled /\ attempts' = attempts \ {a}
  /\ inbox' = Append(inbox, Disconnection(a.conn, FALSE, FALSE))
  /\ UNCHANGED <<strip, bound, noted, flags, muddled, active, pendingSwitch, live, selected, used>>
  /\ UNCHANGED <<pendingClose, backVars, runs>>

(* Connected is one of the two. *)
LEMMA ConnectedIs == Connected => \E a \in attempts : ConnectedTo(a) \/ GivesUp(a)
BY DEF Connected, ConnectedTo, GivesUp

(* The connection made becomes known. *)
LEMMA ConnectedKnown ==
  ASSUME TypeInv, ConnInv, NEW a \in attempts, attempts' = attempts \ {a}, used \subseteq used'
  PROVE  /\ \A x : Known(x) => KnownNext(x)
         /\ a.conn \in Conns /\ KnownNext(a.conn) /\ a.reopens \in Servers \cup {Null}
<1>1. a \in Attempt
  BY DEF TypeInv, WindowInv
<1>2. \A b \in attempts \ {a} : b.conn # a.conn
  BY DEF ConnInv
<1> QED
  BY <1>1, <1>2 DEF Attempt, ConnInv, Known, KnownNext

(* A connect that goes on is a turn. *)
LEMMA ConnectedTurns == ASSUME TypeInv, ConnInv, NEW a \in attempts, ConnectedTo(a) PROVE Turn
<1> DEFINE c == a.conn
<1>1. /\ a.stage = "made" /\ attempts' = attempts \ {a} /\ live' = live \cup {c}
      /\ UNCHANGED <<pendingClose, backVars, runs>>
  BY DEF ConnectedTo
<1>2. used \subseteq used'
  BY DEF ConnectedTo, Attach, AddTab
<1>3. /\ \A x : Known(x) => KnownNext(x)
      /\ c \in Conns /\ KnownNext(c) /\ a.reopens \in Servers \cup {Null}
  BY <1>1, <1>2, ConnectedKnown
<1> HIDE DEF c
<1>4. Null \notin Conns /\ active \in Open /\ bound \in [Open -> Conns \cup {Null}]
  BY SessionsAssumption DEF TypeInv, StripInv, Conns
<1>5. /\ \/ UNCHANGED <<tabVars, used>> /\ active' \in Open
         \/ \E s, b, sel : Retabs(s, b, sel)
      /\ KeepsPrompts /\ selected' \in live \cup {c}
  <2>1. CASE a.reopens = Null /\ bound[active] \notin live
    <3>1. requestTabConnection(active, c, c) /\ UNCHANGED <<active, used>>
      BY <2>1 DEF ConnectedTo, Attach, c
    <3> QED
      BY <1>1, <1>3, <1>4, <3>1, RequestTabConnectionShape
  <2>2. CASE a.reopens = Null /\ bound[active] \in live
    <3>1. AddTab(c, c) /\ selected' = c /\ UNCHANGED pendingSwitch
      BY <2>2 DEF ConnectedTo, Attach, c
    <3> QED
      BY <1>1, <1>3, <3>1, AddTabShape, Calm DEF prompts, TypeInv
  <2>3. CASE a.reopens # Null
    <3> DEFINE b == [t \in Open |-> IF bound[t] = a.reopens THEN c ELSE bound[t]]
               sel == IF bound[active] \in live THEN bound[active] ELSE c
    <3>1. TabsChange(strip, b, sel) /\ selected' = c /\ UNCHANGED <<active, pendingSwitch, used>>
      BY <2>3 DEF ConnectedTo, c
    <3>2. /\ b \in [Open -> Conns \cup {Null}]
          /\ \A t \in Open : b[t] # Null => KnownNext(b[t])
          /\ \A t \in Open : bound[t] # Null => b[t] # Null
      BY <1>3, <1>4 DEF ConnInv
    <3> HIDE DEF b, sel
    <3>3. Retabs(strip, b, sel)
      BY <3>1, <3>2, Rebinds DEF TypeInv
    <3> QED
      BY <1>1, <1>3, <3>1, <3>3, Calm DEF prompts
  <2> QED
    BY <2>1, <2>2, <2>3
<1>6. selected' \in Conns \cup {Null} /\ (selected' # Null => KnownNext(selected'))
  BY <1>3, <1>5, Calm
<1>7. live' = live \cup {a.conn}
  BY <1>1 DEF c
<1> QED
  BY <1>1, <1>5, <1>6, <1>7 DEF Turn

(* The reconnect that a prompt asked about. *)
ReconnectConfirmed == confirmPendingSwitch /\ pendingSwitch.reconnects

(* Every step is a turn of the tabs or one of the other actions. *)
LEMMA NextIs ==
  ASSUME TypeInv, ConnInv, Next
  PROVE  \/ Turn
         \/ connect \/ cancelConnect \/ disconnect \/ handleReconnect \/ ReconnectConfirmed
         \/ (\E a \in attempts : GivesUp(a))
         \/ Connects \/ Disconnected \/ Run \/ Answer \/ Take \/ RunEnds
<1>1. CASE \E t \in Open, kind \in {"close", "others", "right"} : requestClose(kind, t)
  BY <1>1, RequestCloseTurns DEF CloseKinds
<1>2. CASE Connected
  BY <1>2, ConnectedIs, ConnectedTurns
<1>3. CASE \E c \in Conns : selectConnection(c)
  BY <1>3, SelectConnectionTurns
<1>4. CASE confirmPendingSwitch
  BY <1>4, ConfirmSwitchTurns DEF ReconnectConfirmed
<1> QED
  BY <1>1, <1>2, <1>3, <1>4, OpenTabTurns, StripTurns, ConfirmCloseTurns, SelectDatabaseTurns DEF Next

(* The image of a finite set is finite. *)
LEMMA ImageFinite ==
  ASSUME NEW S, IsFiniteSet(S), NEW f, DOMAIN f = S, NEW T, T = {f[x] : x \in S}
  PROVE  IsFiniteSet(T)
<1> DEFINE g == [x \in S |-> f[x]]
<1>1. g \in Surjection(S, T)
  BY DEF Surjection
<1> QED
  BY <1>1, FS_Surjection

(* Tabs, servers and files are different things. *)
LEMMA Distinct ==
  /\ Conns = Servers \cup Files /\ Servers \cap Files = {} /\ Null \notin Conns
  /\ TabIds \cap Conns = {} /\ Null \notin TabIds
BY SessionsAssumption DEF Conns

(* What a change of the tabs sends, and what it forgets. *)
Ends(s, b) == {CloseSession(p) : p \in noted \ noted'} \cup {RollBack(f) : f \in connectionsLeft(ToSet(s), b)}

(* A change of the tabs forgets the stale sessions and sends their ends, and the rollbacks
   of the files left. *)
LEMMA TabsChangeSends ==
  ASSUME TypeInv, NEW s, NEW b, NEW sel, TabsChange(s, b, sel)
  PROVE  /\ noted \ noted' = sessionsToClose(ToSet(s), b, sel)
         /\ noted' = noted \ sessionsToClose(ToSet(s), b, sel)
         /\ inbox' \in Seq(Command) /\ Extends(inbox, inbox', Ends(s, b))
<1> DEFINE stale == sessionsToClose(ToSet(s), b, sel)
           left  == connectionsLeft(ToSet(s), b)
           C == {CloseSession(p) : p \in stale}
           R == {RollBack(f) : f \in left}
<1>1. noted' = noted \ stale /\ stale \subseteq noted
  BY DEF TabsChange, sessionsToClose
<1>2. noted \ noted' = stale
  BY <1>1
<1>3. inbox' = inbox \o SetToSeq(C) \o SetToSeq(R)
  BY DEF TabsChange
<1>4. stale \subseteq Open \X Conns /\ IsFiniteSet(stale) /\ Open \subseteq TabIds
  BY <1>1, FS_Subset DEF TypeInv, WindowInv, StripInv, Open, ToSet
<1>5. left \subseteq Files /\ IsFiniteSet(left)
  <2>1. left \subseteq flags /\ left \subseteq Files
    BY DEF connectionsLeft
  <2> QED
    BY <2>1, FS_Subset DEF TypeInv, WindowInv
<1>6. IsFiniteSet(C) /\ C \subseteq Command
  <2> HIDE DEF stale
  <2> DEFINE f == [p \in stale |-> CloseSession(p)]
  <2>1. DOMAIN f = stale /\ \A p \in stale : f[p] = CloseSession(p)
    OBVIOUS
  <2>2. C \subseteq CloseCommand
    BY <1>4 DEF CloseSession, CloseCommand
  <2> HIDE DEF f
  <2>3. C = {f[p] : p \in stale}
    BY <2>1
  <2> QED
    BY <1>4, <2>1, <2>2, <2>3, ImageFinite DEF Command
<1>7. IsFiniteSet(R) /\ R \subseteq Command
  <2> HIDE DEF left
  <2> DEFINE f == [p \in left |-> RollBack(p)]
  <2>1. DOMAIN f = left /\ \A p \in left : f[p] = RollBack(p)
    OBVIOUS
  <2>2. R \subseteq RollbackCommand
    BY <1>5 DEF RollBack, RollbackCommand
  <2> HIDE DEF f
  <2>3. R = {f[p] : p \in left}
    BY <2>1
  <2> QED
    BY <1>5, <2>1, <2>2, <2>3, ImageFinite DEF Command
<1>8. C \cap R = {}
  BY DEF CloseSession, RollBack
<1> HIDE DEF stale, left, C, R
<1>9. inbox \in Seq(Command)
  BY DEF TypeInv, WindowInv
<1> DEFINE q == inbox \o SetToSeq(C)  r == q \o SetToSeq(R)
<1>10. q \in Seq(Command) /\ Extends(inbox, q, C)
  BY <1>6, <1>9, ConcatExtends
<1> HIDE DEF q
<1>11. r \in Seq(Command) /\ Extends(q, r, R)
  BY <1>7, <1>10, ConcatExtends
<1> HIDE DEF r
<1>12. Extends(inbox, r, C \cup R)
  BY <1>8, <1>9, <1>10, <1>11, ExtendsTwice
<1>13. r = inbox'
  BY <1>3 DEF q, r
<1>14. Ends(s, b) = C \cup R
  BY <1>2 DEF Ends, C, R, left
<1> QED
  BY <1>1, <1>2, <1>11, <1>12, <1>13, <1>14 DEF stale

(* A change of the tabs keeps the types. *)
LEMMA RetabsTypes ==
  ASSUME TypeInv, NEW s, NEW b, NEW sel, Retabs(s, b, sel)
  PROVE  /\ StripInv' /\ used' \subseteq TabIds \cup Conns
         /\ noted' \subseteq (Open \X Conns)' /\ IsFiniteSet(noted')
         /\ flags' \subseteq TabIds \cup Files /\ IsFiniteSet(flags')
         /\ inbox' \in Seq(Command) /\ muddled' \subseteq TabIds \cup Files
<1>1. /\ strip' = s /\ bound' = b /\ Open' = ToSet(s)
      /\ noted' = noted \ sessionsToClose(ToSet(s), b, sel)
      /\ inbox' \in Seq(Command)
  BY TabsChangeSends DEF Retabs, TabsChange, Open
<1>2. /\ used \subseteq TabIds \cup Conns /\ noted \subseteq Open \X Conns /\ IsFiniteSet(noted)
      /\ flags \subseteq TabIds \cup Files /\ IsFiniteSet(flags) /\ muddled \subseteq TabIds \cup Files
      /\ Open \subseteq TabIds /\ strip \in Seq(TabIds)
  BY DEF TypeInv, WindowInv, StripInv, Open, ToSet
<1>3. StripInv'
  BY <1>1, <1>2 DEF Retabs, StripInv
<1>4. ToSet(s) \subseteq TabIds /\ used' = used \cup ToSet(s)
  BY <1>2 DEF Retabs
<1>5. noted' \subseteq ToSet(s) \X Conns
  BY <1>1, <1>2 DEF sessionsToClose
<1>6. IsFiniteSet(noted') /\ noted' \subseteq noted
  BY <1>1, <1>2, FS_Subset
<1>7. flags' \subseteq flags
  BY DEF Retabs, TabsChange
<1>8. IsFiniteSet(flags')
  BY <1>2, <1>7, FS_Subset
<1>9. muddled' \subseteq TabIds \cup Files
  <2> DEFINE stale == sessionsToClose(ToSet(s), b, sel)
             spared == {p \in noted \ stale : p[1] \in ToSet(s) /\ b[p[1]] \notin {Null, p[2]}}
  <2>1. muddled' = muddled \cup {t \in {p[1] : p \in stale} : Busy(t)}
                    \cup {f \in connectionsLeft(ToSet(s), b) : FileBusy(f)} \cup {p[1] : p \in spared}
    BY DEF Retabs, TabsChange
  <2>2. stale \subseteq noted /\ spared \subseteq noted /\ connectionsLeft(ToSet(s), b) \subseteq Files
    BY DEF sessionsToClose, connectionsLeft
  <2>3. \A p \in noted : p[1] \in TabIds
    BY <1>2
  <2> HIDE DEF stale, spared
  <2> QED
    BY <1>2, <2>1, <2>2, <2>3
<1> QED
  BY <1>1, <1>2, <1>3, <1>4, <1>5, <1>6, <1>7, <1>8, <1>9

(* A turn keeps the type invariant. *)
LEMMA TurnTypes == ASSUME TypeInv, ConnInv, Turn PROVE TypeInv'
<1>1. BackendInv'
  <2>1. UNCHANGED <<work, up, sessions, files>>
    BY DEF Turn, backVars
  <2> QED
    BY <2>1 DEF TypeInv, BackendInv, Begun
<1>2. /\ StripInv' /\ used' \subseteq TabIds \cup Conns
      /\ noted' \subseteq (Open \X Conns)' /\ IsFiniteSet(noted')
      /\ flags' \subseteq TabIds \cup Files /\ IsFiniteSet(flags')
      /\ inbox' \in Seq(Command) /\ muddled' \subseteq TabIds \cup Files
  <2>1. CASE UNCHANGED <<tabVars, used>> /\ active' \in Open
    BY <2>1 DEF tabVars, TypeInv, StripInv, WindowInv, Open
  <2> QED
    BY <2>1, RetabsTypes DEF Turn
<1>3. /\ pendingClose' \in ClosePrompt \cup {Null} /\ pendingSwitch' \in SwitchPrompt \cup {Null}
      /\ selected' \in Conns \cup {Null}
  BY DEF Turn, KeepsPrompts
<1>4. live' \subseteq Conns /\ attempts' \subseteq Attempt /\ runs' \in Nat
  BY DEF Turn, TypeInv, WindowInv, Attempt
<1> QED
  BY <1>1, <1>2, <1>3, <1>4 DEF TypeInv, WindowInv

(* A command's record, by its op. *)
LEMMA CommandIs ==
  ASSUME NEW m \in Command
  PROVE  /\ m.op \in {"run", "close", "rollback", "disconnect"} /\ m.conn \in Conns
         /\ m.op = "run" => m \in RunCommand
         /\ m.op = "close" => m \in CloseCommand
         /\ m.op = "rollback" => m \in RollbackCommand
         /\ m.op = "disconnect" => m \in DisconnectCommand
BY DEF Command, RunCommand, CloseCommand, RollbackCommand, DisconnectCommand, Conns

(* A piece of work's record, by its op. *)
LEMMA WorkIs ==
  ASSUME NEW w \in Work
  PROVE  /\ w.op \in {"run", "rollback", "disconnect"} /\ w.conn \in Conns
         /\ w.op = "run" => w \in RunWork
         /\ w.op = "rollback" => w \in RollbackWork
         /\ w.op = "disconnect" => w \in DisconnectWork
BY DEF Work, RunWork, RollbackWork, DisconnectWork, Conns

(* The backend left alone keeps its types. *)
LEMMA BackendSame == ASSUME BackendInv, UNCHANGED backVars PROVE BackendInv'
BY DEF BackendInv, backVars, Begun

(* So do the tabs. *)
LEMMA StripSame == ASSUME StripInv, UNCHANGED <<strip, active, bound>>, used \subseteq used' PROVE StripInv' /\ Open' = Open
BY DEF StripInv, Open

(* A connect is sent with an id not used before. *)
LEMMA StartConnectTypes ==
  ASSUME TypeInv, NEW c \in Connectable, NEW r \in Servers \cup {Null}, StartConnect(c, r)
  PROVE  /\ c \in Conns \ used /\ used' = used \cup {c} /\ used' \subseteq TabIds \cup Conns
         /\ attempts' = attempts \cup {[conn |-> c, stage |-> "sent", cancelled |-> FALSE, reopens |-> r]}
         /\ attempts' \subseteq Attempt
<1>1. c \in Conns \ used
  BY DEF Connectable
<1>2. [conn |-> c, stage |-> "sent", cancelled |-> FALSE, reopens |-> r] \in Attempt
  BY <1>1 DEF Attempt
<1> QED
  BY <1>1, <1>2 DEF StartConnect, TypeInv, WindowInv

(* connect, its cancel and the backend's connect keep the types. *)
LEMMA ConnectTypes ==
  ASSUME TypeInv, connect \/ cancelConnect \/ Connects
  PROVE  TypeInv'
<1>1. UNCHANGED <<tabVars, active, prompts, live, selected, work, sessions, files, runs>>
  BY DEF connect, cancelConnect, Connects, backVars
<1>2. attempts' \subseteq Attempt /\ used' \subseteq TabIds \cup Conns /\ (used \subseteq used' \/ used' = used \ (used \ used'))
      /\ up \subseteq up' /\ up' \subseteq Conns /\ Open \subseteq used'
  <2>1. CASE connect
    <3>1. PICK c \in Connectable : StartConnect(c, Null)
      BY <2>1 DEF connect
    <3> QED
      BY <2>1, <3>1, StartConnectTypes DEF connect, backVars, TypeInv, BackendInv, StripInv
  <2>2. CASE cancelConnect
    <3>1. PICK a \in attempts : attempts' = (attempts \ {a}) \cup {[a EXCEPT !.cancelled = TRUE]}
      BY <2>2 DEF cancelConnect
    <3>2. [a EXCEPT !.cancelled = TRUE] \in Attempt
      BY DEF TypeInv, WindowInv, Attempt
    <3> QED
      BY <2>2, <3>1, <3>2 DEF cancelConnect, backVars, TypeInv, WindowInv, BackendInv, StripInv
  <2>3. CASE Connects
    <3>1. PICK a \in attempts : \/ /\ attempts' = (attempts \ {a}) \cup {[a EXCEPT !.stage = "made"]}
                                   /\ up' = up \cup {a.conn} /\ UNCHANGED used
                                \/ attempts' = attempts \ {a} /\ used' = used \ {a.conn} /\ UNCHANGED up
      BY <2>3 DEF Connects
    <3>2. a \in Attempt /\ attempts \subseteq Attempt /\ a.conn \in Conns /\ [a EXCEPT !.stage = "made"] \in Attempt
      BY DEF TypeInv, WindowInv, Attempt
    <3>3. Open \subseteq TabIds /\ a.conn \notin Open
      BY <3>2, Distinct DEF TypeInv, StripInv, Open, ToSet
    <3> QED
      BY <3>1, <3>2, <3>3 DEF TypeInv, WindowInv, BackendInv, StripInv
  <2> QED
    BY <2>1, <2>2, <2>3
<1>3. StripInv' /\ Open' = Open
  BY <1>1, <1>2 DEF TypeInv, StripInv, Open, tabVars
<1>4. BackendInv'
  BY <1>1, <1>2 DEF TypeInv, BackendInv, Begun
<1>5. WindowInv'
  BY <1>1, <1>2, <1>3 DEF TypeInv, WindowInv, tabVars, prompts
<1> QED
  BY <1>3, <1>4, <1>5 DEF TypeInv

(* A disconnect is sent. *)
LEMMA SendDisconnectTypes ==
  ASSUME TypeInv, NEW c \in Conns, NEW again \in BOOLEAN, SendDisconnect(c, again)
  PROVE  inbox' \in Seq(Command) /\ muddled' \subseteq TabIds \cup Files
<1>1. Disconnection(c, again, TRUE) \in Command
  BY DEF Disconnection, Command, DisconnectCommand
<1>2. inbox' \in Seq(Command)
  BY <1>1, AppendExtends DEF SendDisconnect, TypeInv, WindowInv
<1>3. Open \subseteq TabIds /\ muddled \subseteq TabIds \cup Files
  BY DEF TypeInv, WindowInv, StripInv, Open, ToSet
<1>4. muddled' \subseteq muddled \cup Open \cup Files
  BY DEF SendDisconnect
<1> QED
  BY <1>2, <1>3, <1>4

(* The disconnects of the window keep the types. *)
LEMMA DisconnectTypes ==
  ASSUME TypeInv, disconnect \/ handleReconnect \/ ReconnectConfirmed
  PROVE  TypeInv'
<1>1. UNCHANGED <<strip, bound, noted, active, attempts, backVars, used, runs>>
  BY DEF disconnect, handleReconnect, ReconnectConfirmed, confirmPendingSwitch
<1>2. StripInv' /\ BackendInv' /\ Open' = Open
  BY <1>1, StripSame, BackendSame DEF TypeInv
<1>3. CASE disconnect
  <2>1. PICK c \in live : /\ SendDisconnect(c, FALSE) /\ live' = live \ (Files \cap {c}) /\ flags' = flags \ (Files \cap {c})
                          /\ selected' = IF c \in Files /\ bound[active] \in live' THEN bound[active] ELSE selected
                          /\ UNCHANGED prompts
    BY <1>3 DEF disconnect
  <2>2. inbox' \in Seq(Command) /\ muddled' \subseteq TabIds \cup Files
    BY <2>1, SendDisconnectTypes DEF TypeInv, WindowInv
  <2>3. flags' \subseteq flags /\ live' \subseteq live /\ selected' \in Conns \cup {Null}
    BY <2>1 DEF TypeInv, WindowInv
  <2>4. IsFiniteSet(flags')
    BY <2>3, FS_Subset DEF TypeInv, WindowInv
  <2> QED
    BY <1>1, <1>2, <2>1, <2>2, <2>3, <2>4 DEF TypeInv, WindowInv, prompts
<1>4. CASE handleReconnect
  <2>1. PICK c \in live \cap Servers :
          \/ /\ pendingSwitch' = [reconnects |-> TRUE, tab |-> Null, conn |-> c,
                                  inTransaction |-> Asks({t \in Open : bound[t] = c})]
             /\ UNCHANGED <<inbox, muddled>>
          \/ SendDisconnect(c, TRUE) /\ UNCHANGED pendingSwitch
    BY <1>4 DEF handleReconnect
  <2>2. UNCHANGED <<flags, pendingClose, live, selected>>
    BY <1>4 DEF handleReconnect
  <2>3. pendingSwitch' \in SwitchPrompt \cup {Null} /\ inbox' \in Seq(Command) /\ muddled' \subseteq TabIds \cup Files
    <3>1. CASE SendDisconnect(c, TRUE) /\ UNCHANGED pendingSwitch
      BY <3>1, SendDisconnectTypes DEF TypeInv, WindowInv
    <3>2. CASE /\ pendingSwitch' = [reconnects |-> TRUE, tab |-> Null, conn |-> c,
                                    inTransaction |-> Asks({t \in Open : bound[t] = c})]
               /\ UNCHANGED <<inbox, muddled>>
      <4>1. Asks({t \in Open : bound[t] = c}) \subseteq TabIds
        BY DEF Asks, transactionsEndedBy, TypeInv, StripInv, Open, ToSet
      <4> QED
        BY <3>2, <4>1 DEF SwitchPrompt, TypeInv, WindowInv
    <3> QED
      BY <2>1, <3>1, <3>2
  <2> QED
    BY <1>1, <1>2, <2>2, <2>3 DEF TypeInv, WindowInv
<1>5. CASE ReconnectConfirmed
  <2>1. /\ pendingSwitch \in SwitchPrompt /\ pendingSwitch.reconnects /\ pendingSwitch' = Null
        /\ UNCHANGED <<flags, pendingClose, live, selected>>
        /\ SendDisconnect(pendingSwitch.conn, TRUE) \/ UNCHANGED <<inbox, muddled>>
    BY <1>5 DEF ReconnectConfirmed, confirmPendingSwitch, TypeInv, WindowInv
  <2>2. pendingSwitch.conn \in Conns
    BY <2>1, Distinct DEF SwitchPrompt
  <2>3. inbox' \in Seq(Command) /\ muddled' \subseteq TabIds \cup Files
    BY <2>1, <2>2, SendDisconnectTypes DEF TypeInv, WindowInv
  <2> QED
    BY <1>1, <1>2, <2>1, <2>3 DEF TypeInv, WindowInv
<1> QED
  BY <1>3, <1>4, <1>5

(* A cancelled connect keeps the types. *)
LEMMA GivesUpTypes == ASSUME TypeInv, NEW a \in attempts, GivesUp(a) PROVE TypeInv'
<1>1. Disconnection(a.conn, FALSE, FALSE) \in Command
  BY DEF Disconnection, Command, DisconnectCommand, TypeInv, WindowInv, Attempt
<1>2. inbox' \in Seq(Command)
  BY <1>1, AppendExtends DEF GivesUp, TypeInv, WindowInv
<1>3. StripInv' /\ BackendInv' /\ Open' = Open
  BY StripSame, BackendSame DEF GivesUp, TypeInv
<1> QED
  BY <1>2, <1>3 DEF GivesUp, TypeInv, WindowInv

(* The answer to a disconnect keeps the types. *)
LEMMA DisconnectedTypes == ASSUME TypeInv, Disconnected PROVE TypeInv'
<1>1. PICK w \in work :
        /\ w.op = "disconnect" /\ work' = work \ {w}
        /\ live' \subseteq live /\ flags' \subseteq flags /\ selected' \in live \cup {Null, selected}
        /\ \/ \E c \in Connectable \cap Servers : StartConnect(c, w.conn)
           \/ UNCHANGED <<used, attempts>>
  BY DEF Disconnected
<1>2. UNCHANGED <<strip, bound, noted, inbox, muddled, active, prompts, up, sessions, files, runs>>
  BY DEF Disconnected
<1>3. w.conn \in Servers
  BY <1>1, WorkIs DEF TypeInv, BackendInv, DisconnectWork
<1>4. used \subseteq used' /\ used' \subseteq TabIds \cup Conns /\ attempts' \subseteq Attempt
  BY <1>1, <1>3, StartConnectTypes DEF TypeInv, WindowInv
<1>5. StripInv' /\ Open' = Open
  BY <1>2, <1>4, StripSame DEF TypeInv
<1>6. BackendInv'
  BY <1>1, <1>2 DEF TypeInv, BackendInv, Begun
<1>7. IsFiniteSet(flags')
  BY <1>1, FS_Subset DEF TypeInv, WindowInv
<1> QED
  BY <1>1, <1>2, <1>4, <1>5, <1>6, <1>7 DEF TypeInv, WindowInv, prompts

(* A run keeps the types. *)
LEMMA RunTypes == ASSUME TypeInv, Run PROVE TypeInv'
<1> DEFINE c == runConnectionId(active, selected)
           m == [op |-> "run", id |-> runs + 1, tab |-> active, conn |-> c]
<1>1. /\ c # Null /\ runs' = runs + 1 /\ bound' = IF bound[active] = Null THEN Bind(active, c) ELSE bound
      /\ inbox' = Append(inbox, m) /\ noted' = noted \cup IF c \in Files \cap live THEN {} ELSE {<<active, c>>}
      /\ muddled' \subseteq muddled \cup {active} \cup Files
      /\ UNCHANGED <<strip, flags, active, prompts, live, selected, attempts, backVars, used>>
  BY DEF Run, Started
<1>2. /\ active \in Open /\ Open \subseteq TabIds /\ bound \in [Open -> Conns \cup {Null}]
      /\ live \subseteq Conns /\ selected \in Conns \cup {Null}
  BY DEF TypeInv, StripInv, WindowInv, Open, ToSet
<1>3. c \in Conns
  BY <1>1, <1>2 DEF runConnectionId
<1>4. m \in RunCommand /\ RunCommand \subseteq Command
  BY <1>2, <1>3 DEF RunCommand, Command, TypeInv, WindowInv
<1> HIDE DEF c, m
<1>5. inbox' \in Seq(Command)
  BY <1>1, <1>4, AppendExtends DEF TypeInv, WindowInv
<1>6. StripInv' /\ Open' = Open
  BY <1>1, <1>2, <1>3 DEF Bind, TypeInv, StripInv, Open
<1>7. noted' \subseteq Open \X Conns /\ IsFiniteSet(noted')
  <2>1. noted' = noted \/ noted' = noted \cup {<<active, c>>}
    BY <1>1
  <2>2. noted \subseteq Open \X Conns /\ IsFiniteSet(noted)
    BY DEF TypeInv, WindowInv
  <2>3. <<active, c>> \in Open \X Conns
    BY <1>2, <1>3
  <2>4. IsFiniteSet(noted \cup {<<active, c>>})
    BY <2>2, FS_AddElement
  <2> QED
    BY <2>1, <2>2, <2>3, <2>4
<1>8. BackendInv'
  BY <1>1, BackendSame DEF TypeInv
<1>9. muddled' \subseteq TabIds \cup Files
  BY <1>1, <1>2 DEF TypeInv, WindowInv
<1> QED
  BY <1>1, <1>5, <1>6, <1>7, <1>8, <1>9 DEF TypeInv, WindowInv, prompts

(* An answer keeps the types. *)
LEMMA AnswerTypes == ASSUME TypeInv, Answer PROVE TypeInv'
<1>1. PICK w \in work :
        /\ w.op \in {"run", "rollback"} /\ work' = work \ {w}
        /\ flags' \in {flags, flags \cup {Owner(w)}, flags \ {Owner(w)}}
        /\ muddled' \in {muddled, muddled \cup {Owner(w)}}
  BY DEF Answer
<1>2. UNCHANGED <<strip, bound, noted, inbox, active, prompts, live, selected, attempts, up, sessions, files, used, runs>>
  BY DEF Answer
<1>3. Owner(w) \in TabIds \cup Files
  <2>1. CASE w.op = "run"
    BY <2>1, WorkIs DEF Owner, TypeInv, BackendInv, RunWork
  <2>2. CASE w.op = "rollback"
    BY <2>2, WorkIs DEF Owner, TypeInv, BackendInv, RollbackWork
  <2> QED
    BY <1>1, <2>1, <2>2
<1>4. IsFiniteSet(flags') /\ flags' \subseteq TabIds \cup Files /\ muddled' \subseteq TabIds \cup Files
  <2>1. IsFiniteSet(flags) /\ flags \subseteq TabIds \cup Files /\ muddled \subseteq TabIds \cup Files
    BY DEF TypeInv, WindowInv
  <2>2. IsFiniteSet(flags \cup {Owner(w)}) /\ IsFiniteSet(flags \ {Owner(w)})
    BY <2>1, FS_AddElement, FS_Subset
  <2> QED
    BY <1>1, <1>3, <2>1, <2>2
<1>5. StripInv' /\ Open' = Open
  BY <1>2, StripSame DEF TypeInv
<1>6. BackendInv'
  BY <1>1, <1>2 DEF TypeInv, BackendInv, Begun
<1> QED
  BY <1>2, <1>4, <1>5, <1>6 DEF TypeInv, WindowInv, prompts

(* A step of the backend alone leaves the window as it is. *)
LEMMA BackendOnly ==
  ASSUME TypeInv, BackendInv', inbox' \in Seq(Command),
         UNCHANGED <<strip, bound, noted, flags, muddled, active, prompts, live, selected, attempts, used, runs>>
  PROVE  TypeInv'
<1>1. StripInv' /\ Open' = Open
  BY StripSame DEF TypeInv
<1> QED
  BY <1>1 DEF TypeInv, WindowInv, prompts

(* A run taken up keeps the backend's types. *)
LEMMA TakeRunTypes ==
  ASSUME TypeInv, NEW m \in RunCommand, TakeRun(m) PROVE BackendInv'
<1> DEFINE w == [op |-> "run", id |-> m.id, tab |-> m.tab, conn |-> m.conn, stage |-> "begun",
                 attached |-> TRUE, says |-> "nothing"]
           x == IF m.conn \in up THEN w ELSE [w EXCEPT !.stage = "answered"]
<1>1. /\ work' = work \cup {x} /\ UNCHANGED <<up, files>>
      /\ sessions' = IF m.conn \notin up \cap Servers \/ <<m.tab, m.conn>> \in DOMAIN sessions THEN sessions
                     ELSE With(sessions, <<m.tab, m.conn>>, FALSE)
  BY DEF TakeRun
<1>2. m.tab \in TabIds /\ m.conn \in Conns
  BY DEF RunCommand
<1>3. w \in RunWork /\ [w EXCEPT !.stage = "answered"] \in RunWork /\ RunWork \subseteq Work
  BY DEF RunWork, Work, RunCommand
<1>4. /\ x \in Work /\ x.conn = m.conn /\ x.tab = m.tab
      /\ Begun(x) => m.conn \in up
  BY <1>3 DEF Begun
<1> HIDE DEF w, x
<1>5. /\ DOMAIN sessions' \subseteq TabIds \X (up \cap Servers) /\ sessions' \in [DOMAIN sessions' -> BOOLEAN]
      /\ DOMAIN sessions \subseteq DOMAIN sessions'
      /\ m.conn \in up \cap Servers => <<m.tab, m.conn>> \in DOMAIN sessions'
  <2> DEFINE s == <<m.tab, m.conn>>
  <2>1. /\ DOMAIN sessions \subseteq TabIds \X (up \cap Servers)
        /\ sessions \in [DOMAIN sessions -> BOOLEAN]
    BY DEF TypeInv, BackendInv
  <2>2. CASE m.conn \notin up \cap Servers \/ s \in DOMAIN sessions
    BY <1>1, <2>1, <2>2
  <2>3. CASE m.conn \in up \cap Servers /\ s \notin DOMAIN sessions
    <3>1. sessions' = With(sessions, s, FALSE)
      BY <1>1, <2>3
    <3>2. s \in TabIds \X (up \cap Servers)
      BY <1>2, <2>3
    <3> HIDE DEF s
    <3>3. sessions' = [y \in DOMAIN sessions \cup {s} |-> IF y = s THEN FALSE ELSE sessions[y]]
      BY <3>1 DEF With
    <3>4. DOMAIN sessions' = DOMAIN sessions \cup {s}
      BY <3>3
    <3>5. sessions' \in [DOMAIN sessions' -> BOOLEAN]
      BY <2>1, <3>3
    <3>6. s \in DOMAIN sessions'
      BY <3>4
    <3> QED
      BY <2>1, <3>2, <3>4, <3>5, <3>6 DEF s
  <2> QED
    BY <2>2, <2>3
<1>6. m.conn \in up /\ m.conn \notin Files => m.conn \in Servers
  BY <1>2, Distinct
<1>7. work' \subseteq Work /\ up' \subseteq Conns /\ files' \subseteq up' \cap Files
  BY <1>1, <1>4 DEF TypeInv, BackendInv
<1>8. ASSUME NEW v \in work', Begun(v), v.attached
      PROVE  IF v.conn \in Files THEN v.conn \in up' ELSE <<v.tab, v.conn>> \in DOMAIN sessions'
  <2>1. CASE v = x
    BY <1>1, <1>4, <1>5, <1>6, <1>8, <2>1
  <2>2. CASE v \in work
    BY <1>1, <1>5, <1>8, <2>2 DEF TypeInv, BackendInv
  <2> QED
    BY <1>1, <2>1, <2>2
<1>9. DOMAIN sessions' \subseteq TabIds \X (up' \cap Servers)
  BY <1>1, <1>5
<1> QED
  BY <1>5, <1>7, <1>8, <1>9 DEF BackendInv, Begun

(* Detached, of the statements of a set. *)
DetachedOf(X) == {IF w.op = "run" /\ w.stage = "begun" /\ w \in X THEN [w EXCEPT !.attached = FALSE] ELSE w : w \in work}

(* v is w, or w with its session gone. *)
Becomes(w, v, X) ==
  /\ v.op = w.op /\ v.conn = w.conn
  /\ w.op = "run" => v.tab = w.tab /\ v.stage = w.stage /\ v.says = w.says /\ v.id = w.id
  /\ ~(Begun(w) /\ w \in X) => v = w
  /\ Begun(w) /\ w \in X => v.attached = FALSE

(* Each statement is there as before, or without its session. *)
LEMMA DetachedIs ==
  ASSUME work \subseteq Work, NEW X
  PROVE  /\ DetachedOf(X) \subseteq Work
         /\ \A v \in DetachedOf(X) : \E w \in work : Becomes(w, v, X)
         /\ \A w \in work : \E v \in DetachedOf(X) : Becomes(w, v, X)
<1> DEFINE d(w) == IF w.op = "run" /\ w.stage = "begun" /\ w \in X THEN [w EXCEPT !.attached = FALSE] ELSE w
<1>1. DetachedOf(X) = {d(w) : w \in work}
  BY DEF DetachedOf
<1>2. ASSUME NEW w \in work PROVE d(w) \in Work /\ Becomes(w, d(w), X)
  <2>1. CASE w.op = "run" /\ w.stage = "begun" /\ w \in X
    <3>1. w \in RunWork /\ d(w) = [w EXCEPT !.attached = FALSE]
      BY <2>1, WorkIs
    <3>2. d(w) \in RunWork
      BY <3>1 DEF RunWork
    <3>3. Becomes(w, d(w), X)
      BY <2>1, <3>1 DEF RunWork, Becomes, Begun
    <3> QED
      BY <3>2, <3>3 DEF Work
  <2>2. CASE ~(w.op = "run" /\ w.stage = "begun" /\ w \in X)
    BY <2>2 DEF Becomes, Begun
  <2> QED
    BY <2>1, <2>2
<1> HIDE DEF d
<1> QED
  BY <1>1, <1>2

(* close_session, by what it detaches. *)
LEMMA CloseSessionIs ==
  ASSUME NEW m, close_session(m)
  PROVE  /\ sessions' = Restrict(sessions, DOMAIN sessions \ {<<m.tab, m.conn>>})
         /\ work' = DetachedOf({w \in work : w.tab = m.tab /\ w.conn = m.conn}) /\ UNCHANGED <<up, files>>
BY DEF close_session, Detached, DetachedOf

(* A disconnect, by what it detaches. *)
LEMMA TakeDisconnectIs ==
  ASSUME NEW m, TakeDisconnect(m)
  PROVE  /\ up' = up \ {m.conn} /\ sessions' = Restrict(sessions, {s \in DOMAIN sessions : s[2] # m.conn})
         /\ files' = files \ {m.conn}
         /\ work' = DetachedOf({w \in work : w.conn = m.conn}) \cup IF m.conn \in Files THEN {} ELSE {m}
BY DEF TakeDisconnect, Detached, DetachedOf

(* A session's end keeps the backend's types. *)
LEMMA CloseSessionTypes ==
  ASSUME TypeInv, NEW m \in CloseCommand, close_session(m) PROVE BackendInv'
<1> DEFINE X == {w \in work : w.tab = m.tab /\ w.conn = m.conn}
           gone == <<m.tab, m.conn>>
<1>1. /\ sessions' = Restrict(sessions, DOMAIN sessions \ {gone}) /\ work' = DetachedOf(X) /\ UNCHANGED <<up, files>>
  BY CloseSessionIs
<1>2. work \subseteq Work
  BY DEF TypeInv, BackendInv
<1>3. /\ work' \subseteq Work
      /\ \A v \in work' : \E w \in work : Becomes(w, v, X)
  BY <1>1, <1>2, DetachedIs
<1>4. DOMAIN sessions' = DOMAIN sessions \ {gone} /\ \A s \in DOMAIN sessions' : sessions'[s] = sessions[s]
  BY <1>1 DEF Restrict
<1>5. sessions' \in [DOMAIN sessions' -> BOOLEAN]
  BY <1>1 DEF Restrict, TypeInv, BackendInv
<1>6. ASSUME NEW v \in work', v.op = "run", v.stage = "begun", v.attached
      PROVE  IF v.conn \in Files THEN v.conn \in up ELSE <<v.tab, v.conn>> \in DOMAIN sessions'
  <2>1. v \in work /\ ~(v.tab = m.tab /\ v.conn = m.conn)
    BY <1>3, <1>6 DEF Becomes, Begun
  <2>2. IF v.conn \in Files THEN v.conn \in up ELSE <<v.tab, v.conn>> \in DOMAIN sessions
    BY <1>6, <2>1 DEF TypeInv, BackendInv, Begun
  <2> QED
    BY <1>4, <2>1, <2>2
<1>7. DOMAIN sessions' \subseteq TabIds \X (up' \cap Servers) /\ up' \subseteq Conns /\ files' \subseteq up' \cap Files
  BY <1>1, <1>4 DEF TypeInv, BackendInv
<1>8. work' \subseteq Work
  BY <1>3
<1>9. \A v \in work' : Begun(v) /\ v.attached =>
        IF v.conn \in Files THEN v.conn \in up' ELSE <<v.tab, v.conn>> \in DOMAIN sessions'
  BY <1>1, <1>6 DEF Begun
<1> QED
  BY <1>5, <1>7, <1>8, <1>9 DEF BackendInv, Begun

(* A disconnect keeps the backend's types. *)
LEMMA TakeDisconnectTypes ==
  ASSUME TypeInv, NEW m \in DisconnectCommand, TakeDisconnect(m) PROVE BackendInv'
<1> DEFINE X == {w \in work : w.conn = m.conn}
           D == DetachedOf(X)
<1>1. /\ up' = up \ {m.conn} /\ sessions' = Restrict(sessions, {s \in DOMAIN sessions : s[2] # m.conn})
      /\ files' = files \ {m.conn} /\ work' = D \cup IF m.conn \in Files THEN {} ELSE {m}
  BY TakeDisconnectIs
<1>2. work \subseteq Work
  BY DEF TypeInv, BackendInv
<1>3. /\ D \subseteq Work
      /\ \A v \in D : \E w \in work : Becomes(w, v, X)
  BY <1>2, DetachedIs
<1> HIDE DEF D
<1>4. m.conn \notin Files => m \in Work
  BY Distinct DEF DisconnectCommand, Work, DisconnectWork
<1>5. work' \subseteq Work /\ m.op # "run"
  BY <1>1, <1>3, <1>4 DEF DisconnectCommand
<1>6. /\ DOMAIN sessions' = {s \in DOMAIN sessions : s[2] # m.conn}
      /\ sessions' \in [DOMAIN sessions' -> BOOLEAN]
  BY <1>1 DEF Restrict, TypeInv, BackendInv
<1>7. DOMAIN sessions' \subseteq TabIds \X (up' \cap Servers) /\ files' \subseteq up' \cap Files /\ up' \subseteq Conns
  BY <1>1, <1>6 DEF TypeInv, BackendInv
<1>8. ASSUME NEW v \in work', v.op = "run", v.stage = "begun", v.attached
      PROVE  IF v.conn \in Files THEN v.conn \in up' ELSE <<v.tab, v.conn>> \in DOMAIN sessions'
  <2>1. v \in D
    BY <1>1, <1>5, <1>8
  <2>2. v \in work /\ v.conn # m.conn
    BY <1>3, <1>8, <2>1 DEF Becomes, Begun
  <2>3. IF v.conn \in Files THEN v.conn \in up ELSE <<v.tab, v.conn>> \in DOMAIN sessions
    BY <1>8, <2>2 DEF TypeInv, BackendInv, Begun
  <2>4. <<v.tab, v.conn>>[2] = v.conn
    OBVIOUS
  <2> QED
    BY <1>1, <1>6, <2>2, <2>3, <2>4
<1>9. \A v \in work' : Begun(v) /\ v.attached =>
        IF v.conn \in Files THEN v.conn \in up' ELSE <<v.tab, v.conn>> \in DOMAIN sessions'
  BY <1>8 DEF Begun
<1>10. work' \subseteq Work
  BY <1>5
<1> QED
  BY <1>6, <1>7, <1>9, <1>10 DEF BackendInv, Begun

(* A rollback keeps the backend's types. *)
LEMMA TakeRollbackTypes ==
  ASSUME TypeInv, NEW m \in RollbackCommand, TakeRollback(m) PROVE BackendInv'
<1> DEFINE r == [op |-> "rollback", conn |-> m.conn, stage |-> "answered", says |-> "closed"]
<1>1. files' = files \ {m.conn} /\ work' \in {work, work \cup {r}} /\ UNCHANGED <<up, sessions>>
  BY DEF TakeRollback
<1>2. r \in Work /\ r.op = "rollback"
  BY DEF RollbackCommand, Work, RollbackWork
<1> HIDE DEF r
<1> QED
  BY <1>1, <1>2 DEF TypeInv, BackendInv, Begun

(* Any command taken up keeps the type invariant. *)
LEMMA TakeTypes == ASSUME TypeInv, Take PROVE TypeInv'
<1>1. PICK i \in DOMAIN inbox :
        /\ inbox' = RemoveAt(inbox, i)
        /\ \/ inbox[i].op = "run" /\ TakeRun(inbox[i])
           \/ inbox[i].op = "close" /\ close_session(inbox[i])
           \/ inbox[i].op = "disconnect" /\ TakeDisconnect(inbox[i])
           \/ inbox[i].op = "rollback" /\ TakeRollback(inbox[i])
  BY DEF Take
<1>2. UNCHANGED <<strip, bound, noted, flags, muddled, active, prompts, live, selected, attempts, used, runs>>
  BY DEF Take
<1>3. inbox \in Seq(Command) /\ inbox[i] \in Command
  BY DEF TypeInv, WindowInv
<1>4. inbox' \in Seq(Command)
  BY <1>1, <1>3, RemoveDrops
<1>5. BackendInv'
  BY <1>1, <1>3, CommandIs, TakeRunTypes, CloseSessionTypes, TakeDisconnectTypes, TakeRollbackTypes
<1> QED
  BY <1>2, <1>4, <1>5, BackendOnly

(* What the session had, and has once the statement with that effect has ended. *)
Before(w) == IF w.conn \in Files THEN w.conn \in files ELSE w.attached /\ sessions[<<w.tab, w.conn>>]

(* After the statement there is a transaction if it began one, or ended none. *)
After(w, effect) == effect = "begin" \/ (effect = "none" /\ Before(w))

(* RunEnds, of one statement, one effect and one thing it says. *)
EndsWith(w, effect, says) ==
  /\ w.op = "run" /\ w.stage = "begun"
  /\ says \in IF w.attached THEN {IF After(w, effect) THEN "open" ELSE "closed"}
                                \cup IF effect = "none" THEN {"nothing"} ELSE {}
              ELSE {"open", "closed", "nothing"}
  /\ work' = (work \ {w}) \cup {[w EXCEPT !.stage = "answered", !.says = says]}
  /\ files' = IF ~(w.conn \in Files /\ w.attached) THEN files
              ELSE IF After(w, effect) THEN files \cup {w.conn} ELSE files \ {w.conn}
  /\ sessions' = IF w.conn \in Files \/ ~w.attached THEN sessions
                 ELSE [sessions EXCEPT ![<<w.tab, w.conn>>] = After(w, effect)]

(* RunEnds is that, of some statement. *)
LEMMA RunEndsIs ==
  ASSUME RunEnds
  PROVE  \E w \in work, effect \in {"begin", "end", "none"}, says \in {"open", "closed", "nothing"} :
           EndsWith(w, effect, says)
<1>1. PICK w \in work, effect \in {"begin", "end", "none"} :
        /\ w.op = "run" /\ w.stage = "begun"
        /\ \E says \in IF w.attached THEN {IF After(w, effect) THEN "open" ELSE "closed"}
                                          \cup IF effect = "none" THEN {"nothing"} ELSE {}
                       ELSE {"open", "closed", "nothing"} :
             work' = (work \ {w}) \cup {[w EXCEPT !.stage = "answered", !.says = says]}
        /\ files' = IF ~(w.conn \in Files /\ w.attached) THEN files
                    ELSE IF After(w, effect) THEN files \cup {w.conn} ELSE files \ {w.conn}
        /\ sessions' = IF w.conn \in Files \/ ~w.attached THEN sessions
                       ELSE [sessions EXCEPT ![<<w.tab, w.conn>>] = After(w, effect)]
  BY Zenon DEF RunEnds, After, Before
<1> QED
  BY <1>1 DEF EndsWith

(* A statement's end keeps the types. *)
LEMMA RunEndsTypes == ASSUME TypeInv, RunEnds PROVE TypeInv'
<1>1. PICK w \in work, effect \in {"begin", "end", "none"}, says \in {"open", "closed", "nothing"} :
        EndsWith(w, effect, says)
  BY RunEndsIs
<1>2. UNCHANGED <<tabVars, active, prompts, live, selected, attempts, up, used, runs>>
  BY DEF RunEnds
<1> DEFINE v == [w EXCEPT !.stage = "answered", !.says = says]
<1>0. w.op = "run" /\ w.stage = "begun"
  BY <1>1 DEF EndsWith
<1>3. w \in RunWork
  BY <1>0, WorkIs DEF TypeInv, BackendInv
<1>4. v \in Work /\ ~Begun(v)
  BY <1>3 DEF RunWork, Work, Begun
<1>5. work' = (work \ {w}) \cup {v}
  BY <1>1 DEF EndsWith
<1> HIDE DEF v
<1>6. /\ work \subseteq Work /\ up \subseteq Conns /\ files \subseteq up \cap Files
      /\ DOMAIN sessions \subseteq TabIds \X (up \cap Servers)
      /\ sessions \in [DOMAIN sessions -> BOOLEAN]
      /\ \A x \in work : Begun(x) /\ x.attached =>
           IF x.conn \in Files THEN x.conn \in up ELSE <<x.tab, x.conn>> \in DOMAIN sessions
  BY DEF TypeInv, BackendInv
<1>7. work' \subseteq Work
  BY <1>4, <1>5, <1>6
<1>8. files' \subseteq up \cap Files
  <2>1. files' \subseteq files \/ (w.attached /\ w.conn \in Files /\ files' = files \cup {w.conn})
    BY <1>1 DEF EndsWith
  <2> QED
    BY <1>0, <1>6, <2>1 DEF Begun
<1>9. DOMAIN sessions' = DOMAIN sessions /\ sessions' \in [DOMAIN sessions' -> BOOLEAN]
  <2>1. After(w, effect) \in BOOLEAN
    BY DEF After
  <2>2. sessions' = sessions \/ sessions' = [sessions EXCEPT ![<<w.tab, w.conn>>] = After(w, effect)]
    BY <1>1 DEF EndsWith
  <2> QED
    BY <1>6, <2>1, <2>2
<1>10. BackendInv'
  BY <1>2, <1>4, <1>5, <1>6, <1>7, <1>8, <1>9 DEF BackendInv
<1>11. inbox' \in Seq(Command) /\ UNCHANGED <<strip, bound, noted, flags, muddled, active, prompts, live, selected, attempts, used, runs>>
  BY <1>2 DEF tabVars, TypeInv, WindowInv
<1> QED
  BY <1>10, <1>11, BackendOnly

(* The type invariant holds initially. *)
LEMMA InitTypes == ASSUME Init PROVE TypeInv
<1>1. FirstTab \in TabIds /\ First \in Servers /\ First \in Conns
  BY SessionsAssumption, Distinct
<1>2. Open = {FirstTab} /\ StripInv
  BY <1>1, StripOne DEF Init, Open, StripInv
<1>3. IsFiniteSet(noted) /\ IsFiniteSet(flags) /\ inbox \in Seq(Command)
  BY FS_EmptySet DEF Init
<1>4. WindowInv
  BY <1>1, <1>2, <1>3 DEF Init, WindowInv
<1>5. BackendInv
  BY <1>1 DEF Init, BackendInv
<1> QED
  BY <1>2, <1>4, <1>5 DEF TypeInv

(* Every step keeps the type invariant. *)
LEMMA NextTypes == ASSUME TypeInv, ConnInv, Next PROVE TypeInv'
BY NextIs, TurnTypes, ConnectTypes, DisconnectTypes, GivesUpTypes, DisconnectedTypes, RunTypes, AnswerTypes,
   TakeTypes, RunEndsTypes

(* The parts of ConnInv, to be proved of the next state one by one. *)
AttemptsNext ==
  /\ \A a \in attempts' : a.conn \in used' /\ (a.stage = "sent" => a.conn \notin up')
                          /\ (a.reopens # Null => KnownNext(a.reopens) /\ a.reopens \notin up')
  /\ \A a, b \in attempts' : a.conn = b.conn => a = b
  /\ up' \subseteq used'
  /\ \A w \in work' : w.op = "disconnect" => w.conn \notin up'

(* The connections the window names, in the next state. *)
WindowNext ==
  /\ \A c \in live' \cup (flags' \cap Files) : KnownNext(c)
  /\ \A t \in Open' : bound'[t] # Null => KnownNext(bound'[t])
  /\ selected' # Null => KnownNext(selected')
  /\ pendingSwitch' # Null => KnownNext(pendingSwitch'.conn)
  /\ \A s \in noted' : KnownNext(s[2])
  /\ \A i \in DOMAIN inbox' : KnownNext(inbox'[i].conn)

(* The connections the backend names, in the next state. *)
BackendNext ==
  /\ \A c \in files' : KnownNext(c)
  /\ \A s \in DOMAIN sessions' : KnownNext(s[2])
  /\ \A w \in work' : KnownNext(w.conn)

(* The three parts are the whole. *)
LEMMA ConnParts == AttemptsNext /\ WindowNext /\ BackendNext => ConnInv'
BY DEF AttemptsNext, WindowNext, BackendNext, ConnInv, Known, KnownNext

(* The backend left alone names what it named. *)
LEMMA BackendKnown ==
  ASSUME ConnInv, \A c : Known(c) => KnownNext(c), UNCHANGED <<work, sessions, files>>
  PROVE  BackendNext
BY DEF ConnInv, BackendNext

(* Fewer connects in flight, or the same. *)
LEMMA FewerAttempts ==
  ASSUME ConnInv, \A c : Known(c) => KnownNext(c), attempts' \subseteq attempts, used \subseteq used', UNCHANGED <<work, up>>
  PROVE  AttemptsNext
BY DEF ConnInv, AttemptsNext

(* A turn keeps ConnInv. *)
LEMMA TurnConn == ASSUME TypeInv, ConnInv, Turn PROVE ConnInv'
<1>1. used \subseteq used' /\ UNCHANGED <<work, up, sessions, files>>
  BY DEF Turn, Retabs, backVars
<1>2. /\ attempts' \subseteq attempts
      /\ live' = live \/ \E a \in attempts : attempts' = attempts \ {a} /\ live' = live \cup {a.conn}
  BY DEF Turn
<1>3. \A c : Known(c) => KnownNext(c)
  BY <1>1, <1>2 DEF Known, KnownNext
<1>4. \A c \in live' : KnownNext(c)
  <2>1. CASE live' = live
    BY <1>3, <2>1 DEF ConnInv
  <2>2. CASE \E a \in attempts : attempts' = attempts \ {a} /\ live' = live \cup {a.conn}
    <3>1. PICK a \in attempts : attempts' = attempts \ {a} /\ live' = live \cup {a.conn}
      BY <2>2
    <3>2. KnownNext(a.conn)
      BY <1>1, <3>1, ConnectedKnown
    <3> QED
      BY <1>3, <3>1, <3>2 DEF ConnInv
  <2> QED
    BY <1>2, <2>1, <2>2
<1>5. /\ \A c \in flags' \cap Files : KnownNext(c)
      /\ \A t \in Open' : bound'[t] # Null => KnownNext(bound'[t])
      /\ \A s \in noted' : KnownNext(s[2])
      /\ \A i \in DOMAIN inbox' : KnownNext(inbox'[i].conn)
  <2>1. CASE UNCHANGED <<tabVars, used>>
    BY <1>3, <2>1 DEF ConnInv, tabVars, Open
  <2>2. CASE \E s, b, sel : Retabs(s, b, sel)
    <3>1. PICK s, b, sel : Retabs(s, b, sel)
      BY <2>2
    <3>2. /\ strip' = s /\ bound' = b /\ flags' \subseteq flags /\ \A t \in ToSet(s) : b[t] # Null => KnownNext(b[t])
      BY <3>1 DEF Retabs, TabsChange
    <3>3. /\ noted' \subseteq noted /\ Extends(inbox, inbox', Ends(s, b)) /\ inbox' \in Seq(Command)
      BY <3>1, TabsChangeSends DEF Retabs
    <3>4. \A m \in Ends(s, b) : KnownNext(m.conn)
      <4>1. \A p \in noted : CloseSession(p).conn = p[2] /\ KnownNext(p[2])
        BY <1>3 DEF CloseSession, ConnInv
      <4>2. \A f \in connectionsLeft(ToSet(s), b) : RollBack(f).conn = f /\ KnownNext(f)
        BY <1>3 DEF RollBack, ConnInv, connectionsLeft
      <4> QED
        BY <4>1, <4>2 DEF Ends
    <3>5. \A i \in DOMAIN inbox' : KnownNext(inbox'[i].conn)
      BY <1>3, <3>3, <3>4 DEF Extends, ConnInv
    <3> QED
      BY <1>3, <3>2, <3>3, <3>5 DEF ConnInv, Open
  <2> QED
    BY <2>1, <2>2 DEF Turn
<1>6. WindowNext
  BY <1>4, <1>5 DEF WindowNext, Turn, KeepsPrompts
<1> QED
  BY <1>1, <1>2, <1>3, <1>6, BackendKnown, FewerAttempts, ConnParts

(* A connect is sent: its id is new to everything. *)
LEMMA StartConnectConn ==
  ASSUME TypeInv, ConnInv, NEW c \in Connectable, NEW r \in Servers \cup {Null}, StartConnect(c, r),
         r # Null => Known(r) /\ r \notin up, up' = up, work' \subseteq work
  PROVE  AttemptsNext /\ \A x : Known(x) => KnownNext(x)
<1> DEFINE n == [conn |-> c, stage |-> "sent", cancelled |-> FALSE, reopens |-> r]
<1>1. c \in Conns \ used /\ used' = used \cup {c} /\ attempts' = attempts \cup {n}
  BY StartConnectTypes
<1>2. n.conn = c /\ n.stage = "sent" /\ n.reopens = r
  OBVIOUS
<1> HIDE DEF n
<1>3. \A x : Known(x) => KnownNext(x)
  BY <1>1, <1>2 DEF Known, KnownNext
<1>4. \A a \in attempts : a.conn # c
  BY <1>1 DEF ConnInv
<1>5. \A a, b \in attempts' : a.conn = b.conn => a = b
  BY <1>1, <1>2, <1>4 DEF ConnInv
<1>6. \A a \in attempts' : a.conn \in used' /\ (a.stage = "sent" => a.conn \notin up')
                           /\ (a.reopens # Null => KnownNext(a.reopens) /\ a.reopens \notin up')
  BY <1>1, <1>2, <1>3 DEF ConnInv
<1> QED
  BY <1>1, <1>3, <1>5, <1>6 DEF AttemptsNext, ConnInv

(* The window as it was. *)
LEMMA WindowKnown ==
  ASSUME ConnInv, \A c : Known(c) => KnownNext(c), UNCHANGED <<tabVars, pendingSwitch, live, selected>>
  PROVE  WindowNext
BY DEF ConnInv, WindowNext, tabVars, Open

(* connect, its cancel and the backend's connect keep ConnInv. *)
LEMMA ConnectConn == ASSUME TypeInv, ConnInv, connect \/ cancelConnect \/ Connects PROVE ConnInv'
<1>1. UNCHANGED <<tabVars, pendingSwitch, live, selected, work, sessions, files>>
  BY DEF connect, cancelConnect, Connects, backVars, prompts
<1>2. AttemptsNext /\ \A x : Known(x) => KnownNext(x)
  <2>1. CASE connect
    <3>1. PICK c \in Connectable : StartConnect(c, Null)
      BY <2>1 DEF connect
    <3> QED
      BY <2>1, <3>1, StartConnectConn DEF connect, backVars
  <2>2. CASE cancelConnect
    <3>1. PICK a \in attempts : attempts' = (attempts \ {a}) \cup {[a EXCEPT !.cancelled = TRUE]}
      BY <2>2 DEF cancelConnect
    <3> DEFINE n == [a EXCEPT !.cancelled = TRUE]
    <3>2. n.conn = a.conn /\ n.stage = a.stage /\ n.reopens = a.reopens
      BY DEF TypeInv, WindowInv, Attempt
    <3>3. attempts' = (attempts \ {a}) \cup {n} /\ UNCHANGED <<used, up>>
      BY <2>2, <3>1 DEF cancelConnect, backVars
    <3> HIDE DEF n
    <3>4. \A x : Known(x) => KnownNext(x)
      BY <3>2, <3>3 DEF Known, KnownNext
    <3>5. \A b, d \in attempts' : b.conn = d.conn => b = d
      BY <3>2, <3>3 DEF ConnInv
    <3> QED
      BY <1>1, <3>2, <3>3, <3>4, <3>5 DEF AttemptsNext, ConnInv
  <2>3. CASE Connects
    <3>1. PICK a \in attempts :
            /\ a.stage = "sent"
            /\ \/ /\ attempts' = (attempts \ {a}) \cup {[a EXCEPT !.stage = "made"]}
                  /\ up' = up \cup {a.conn} /\ UNCHANGED used
               \/ attempts' = attempts \ {a} /\ used' = used \ {a.conn} /\ UNCHANGED up
      BY <2>3 DEF Connects
    <3>2. /\ \A b \in attempts \ {a} : b.conn # a.conn
          /\ \A x : Known(x) => x # a.conn
      BY DEF ConnInv, Known
    <3>3. CASE attempts' = attempts \ {a} /\ used' = used \ {a.conn} /\ UNCHANGED up
      <4>1. \A x : Known(x) => KnownNext(x)
        BY <3>2, <3>3 DEF Known, KnownNext
      <4>2. a.conn \notin up
        BY <3>1 DEF ConnInv
      <4> QED
        BY <1>1, <3>2, <3>3, <4>1, <4>2 DEF AttemptsNext, ConnInv
    <3>4. CASE /\ attempts' = (attempts \ {a}) \cup {[a EXCEPT !.stage = "made"]}
               /\ up' = up \cup {a.conn} /\ UNCHANGED used
      <4> DEFINE n == [a EXCEPT !.stage = "made"]
      <4>1. n.conn = a.conn /\ n.stage = "made" /\ n.reopens = a.reopens
        BY DEF TypeInv, WindowInv, Attempt
      <4>2. attempts' = (attempts \ {a}) \cup {n} /\ up' = up \cup {a.conn} /\ UNCHANGED used
        BY <3>4
      <4> HIDE DEF n
      <4>3. \A x : Known(x) => KnownNext(x)
        BY <4>1, <4>2 DEF Known, KnownNext
      <4>4. \A b, d \in attempts' : b.conn = d.conn => b = d
        BY <4>1, <4>2 DEF ConnInv
      <4>5. \A b \in attempts' : b.conn \in used' /\ (b.stage = "sent" => b.conn \notin up')
                                 /\ (b.reopens # Null => KnownNext(b.reopens) /\ b.reopens \notin up')
        BY <3>2, <4>1, <4>2, <4>3 DEF ConnInv
      <4>6. \A w \in work' : w.op = "disconnect" => w.conn \notin up'
        BY <1>1, <3>2, <4>2 DEF ConnInv
      <4>7. up' \subseteq used'
        BY <4>2 DEF ConnInv
      <4> QED
        BY <4>3, <4>4, <4>5, <4>6, <4>7 DEF AttemptsNext
    <3> QED
      BY <3>1, <3>3, <3>4
  <2> QED
    BY <2>1, <2>2, <2>3
<1> QED
  BY <1>1, <1>2, WindowKnown, BackendKnown, ConnParts

(* The inbox, with a command of a known connection at its end. *)
LEMMA SentKnown ==
  ASSUME TypeInv, ConnInv, \A c : Known(c) => KnownNext(c), NEW m \in Command, KnownNext(m.conn),
         inbox' = Append(inbox, m) \/ inbox' = inbox
  PROVE  \A i \in DOMAIN inbox' : KnownNext(inbox'[i].conn)
<1>1. CASE inbox' = inbox
  BY <1>1 DEF ConnInv
<1>2. CASE inbox' = Append(inbox, m)
  <2>1. Extends(inbox, inbox', {m})
    BY <1>2, AppendExtends DEF TypeInv, WindowInv
  <2> QED
    BY <2>1 DEF Extends, ConnInv
<1> QED
  BY <1>1, <1>2

(* The disconnects of the window keep ConnInv. *)
LEMMA DisconnectConn ==
  ASSUME TypeInv, ConnInv, disconnect \/ handleReconnect \/ ReconnectConfirmed
  PROVE  ConnInv'
<1>1. UNCHANGED <<strip, bound, noted, attempts, used, work, up, sessions, files>>
  BY DEF disconnect, handleReconnect, ReconnectConfirmed, confirmPendingSwitch, backVars
<1>2. \A c : Known(c) => KnownNext(c)
  BY <1>1 DEF Known, KnownNext
<1>3. \E c \in Conns, again \in BOOLEAN :
        /\ Known(c) /\ inbox' \in {inbox, Append(inbox, Disconnection(c, again, TRUE))}
        /\ live' \subseteq live /\ flags' \subseteq flags
        /\ selected' = selected \/ selected' \in live
        /\ pendingSwitch' = pendingSwitch \/ pendingSwitch' = Null \/ pendingSwitch'.conn = c
  <2>1. CASE disconnect
    <3>1. PICK c \in live : /\ SendDisconnect(c, FALSE) /\ live' = live \ (Files \cap {c}) /\ flags' = flags \ (Files \cap {c})
                            /\ selected' = IF c \in Files /\ bound[active] \in live' THEN bound[active] ELSE selected
                            /\ UNCHANGED prompts
      BY <2>1 DEF disconnect
    <3>2. c \in Conns /\ Known(c)
      BY DEF TypeInv, WindowInv, ConnInv
    <3> QED
      BY <3>1, <3>2 DEF SendDisconnect, prompts
  <2>2. CASE handleReconnect
    <3>1. PICK c \in live \cap Servers :
            \/ /\ pendingSwitch' = [reconnects |-> TRUE, tab |-> Null, conn |-> c,
                                    inTransaction |-> Asks({t \in Open : bound[t] = c})]
               /\ UNCHANGED <<inbox, muddled>>
            \/ SendDisconnect(c, TRUE) /\ UNCHANGED pendingSwitch
      BY <2>2 DEF handleReconnect
    <3>2. c \in Conns /\ Known(c) /\ UNCHANGED <<live, flags, selected>>
      BY <2>2 DEF TypeInv, WindowInv, ConnInv, handleReconnect
    <3>3. pendingSwitch' = pendingSwitch \/ pendingSwitch'.conn = c
      <4> DEFINE p == [reconnects |-> TRUE, tab |-> Null, conn |-> c,
                       inTransaction |-> Asks({t \in Open : bound[t] = c})]
      <4>1. p.conn = c
        OBVIOUS
      <4>2. pendingSwitch' = pendingSwitch \/ pendingSwitch' = p
        BY <3>1
      <4> HIDE DEF p
      <4> QED
        BY <4>1, <4>2
    <3>4. inbox' \in {inbox, Append(inbox, Disconnection(c, TRUE, TRUE))}
      BY <3>1 DEF SendDisconnect
    <3> QED
      BY <3>2, <3>3, <3>4
  <2>3. CASE ReconnectConfirmed
    <3>1. /\ pendingSwitch # Null /\ pendingSwitch \in SwitchPrompt /\ pendingSwitch' = Null
          /\ UNCHANGED <<flags, live, selected>>
          /\ SendDisconnect(pendingSwitch.conn, TRUE) \/ UNCHANGED <<inbox, muddled>>
      BY <2>3 DEF ReconnectConfirmed, confirmPendingSwitch, TypeInv, WindowInv
    <3>2. pendingSwitch.conn \in Conns /\ Known(pendingSwitch.conn)
      BY <3>1, Distinct DEF SwitchPrompt, ConnInv
    <3>3. inbox' \in {inbox, Append(inbox, Disconnection(pendingSwitch.conn, TRUE, TRUE))}
      BY <3>1 DEF SendDisconnect
    <3> QED
      BY <3>1, <3>2, <3>3
  <2> QED
    BY <2>1, <2>2, <2>3
<1>4. PICK c \in Conns, again \in BOOLEAN :
        /\ Known(c) /\ inbox' \in {inbox, Append(inbox, Disconnection(c, again, TRUE))}
        /\ live' \subseteq live /\ flags' \subseteq flags
        /\ selected' = selected \/ selected' \in live
        /\ pendingSwitch' = pendingSwitch \/ pendingSwitch' = Null \/ pendingSwitch'.conn = c
  BY <1>3
<1>5. Disconnection(c, again, TRUE) \in Command /\ Disconnection(c, again, TRUE).conn = c
  BY DEF Disconnection, Command, DisconnectCommand
<1>6. \A i \in DOMAIN inbox' : KnownNext(inbox'[i].conn)
  BY <1>2, <1>4, <1>5, SentKnown
<1>7. WindowNext
  BY <1>1, <1>2, <1>4, <1>6 DEF WindowNext, ConnInv, Open
<1> QED
  BY <1>1, <1>2, <1>7, BackendKnown, FewerAttempts, ConnParts

(* A cancelled connect keeps ConnInv. *)
LEMMA GivesUpConn == ASSUME TypeInv, ConnInv, NEW a \in attempts, GivesUp(a) PROVE ConnInv'
<1>1. /\ attempts' = attempts \ {a} /\ inbox' = Append(inbox, Disconnection(a.conn, FALSE, FALSE))
      /\ UNCHANGED <<strip, bound, noted, flags, pendingSwitch, live, selected, used, work, up, sessions, files>>
  BY DEF GivesUp, backVars
<1>2. /\ \A c : Known(c) => KnownNext(c)
      /\ a.conn \in Conns /\ KnownNext(a.conn)
  BY <1>1, ConnectedKnown
<1>3. Disconnection(a.conn, FALSE, FALSE) \in Command /\ Disconnection(a.conn, FALSE, FALSE).conn = a.conn
  BY <1>2 DEF Disconnection, Command, DisconnectCommand
<1>4. \A i \in DOMAIN inbox' : KnownNext(inbox'[i].conn)
  BY <1>1, <1>2, <1>3, SentKnown
<1>5. WindowNext
  BY <1>1, <1>2, <1>4 DEF WindowNext, ConnInv, Open
<1> QED
  BY <1>1, <1>2, <1>5, BackendKnown, FewerAttempts, ConnParts

(* The answer to a disconnect keeps ConnInv. *)
LEMMA DisconnectedConn == ASSUME TypeInv, ConnInv, Disconnected PROVE ConnInv'
<1>1. PICK w \in work :
        /\ w.op = "disconnect" /\ work' = work \ {w}
        /\ live' \subseteq live /\ flags' \subseteq flags /\ selected' \in live \cup {Null, selected}
        /\ \/ \E c \in Connectable \cap Servers : StartConnect(c, w.conn)
           \/ UNCHANGED <<used, attempts>>
  BY DEF Disconnected
<1>2. UNCHANGED <<strip, bound, noted, inbox, pendingSwitch, up, sessions, files>>
  BY DEF Disconnected, prompts
<1>3. w.conn \in Servers /\ Known(w.conn) /\ w.conn \notin up
  BY <1>1, WorkIs DEF TypeInv, BackendInv, DisconnectWork, ConnInv
<1>4. AttemptsNext /\ \A c : Known(c) => KnownNext(c)
  <2>1. CASE \E c \in Connectable \cap Servers : StartConnect(c, w.conn)
    BY <1>1, <1>2, <1>3, <2>1, StartConnectConn
  <2>2. CASE UNCHANGED <<used, attempts>>
    <3>1. \A c : Known(c) => KnownNext(c)
      BY <2>2 DEF Known, KnownNext
    <3> QED
      BY <1>1, <1>2, <2>2, <3>1 DEF AttemptsNext, ConnInv
  <2> QED
    BY <1>1, <2>1, <2>2
<1>5. WindowNext
  BY <1>1, <1>2, <1>4 DEF WindowNext, ConnInv, Open
<1>6. BackendNext
  BY <1>1, <1>2, <1>4 DEF BackendNext, ConnInv
<1> QED
  BY <1>4, <1>5, <1>6, ConnParts

(* A run keeps ConnInv. *)
LEMMA RunConn == ASSUME TypeInv, ConnInv, Run PROVE ConnInv'
<1> DEFINE c == runConnectionId(active, selected)
           m == [op |-> "run", id |-> runs + 1, tab |-> active, conn |-> c]
<1>1. /\ c # Null /\ bound' = IF bound[active] = Null THEN Bind(active, c) ELSE bound
      /\ inbox' = Append(inbox, m) /\ noted' = noted \cup IF c \in Files \cap live THEN {} ELSE {<<active, c>>}
      /\ UNCHANGED <<strip, flags, pendingSwitch, live, selected, attempts, used, work, up, sessions, files>>
  BY DEF Run, Started, prompts, backVars
<1>2. /\ active \in Open /\ Open \subseteq TabIds /\ bound \in [Open -> Conns \cup {Null}]
      /\ live \subseteq Conns /\ selected \in Conns \cup {Null}
  BY DEF TypeInv, StripInv, WindowInv, Open, ToSet
<1>3. c \in Conns /\ Known(c)
  BY <1>1, <1>2, Distinct DEF runConnectionId, ConnInv
<1>4. m \in Command /\ m.conn = c
  BY <1>2, <1>3 DEF RunCommand, Command, TypeInv, WindowInv
<1> HIDE DEF c, m
<1>5. \A x : Known(x) => KnownNext(x)
  BY <1>1 DEF Known, KnownNext
<1>6. \A i \in DOMAIN inbox' : KnownNext(inbox'[i].conn)
  BY <1>1, <1>3, <1>4, <1>5, SentKnown
<1>7. \A t \in Open' : bound'[t] # Null => KnownNext(bound'[t])
  BY <1>1, <1>2, <1>3, <1>5 DEF Bind, ConnInv, Open
<1>8. \A s \in noted' : KnownNext(s[2])
  BY <1>1, <1>3, <1>5 DEF ConnInv
<1>9. WindowNext
  BY <1>1, <1>5, <1>6, <1>7, <1>8 DEF WindowNext, ConnInv
<1> QED
  BY <1>1, <1>5, <1>9, BackendKnown, FewerAttempts, ConnParts

(* An answer keeps ConnInv. *)
LEMMA AnswerConn == ASSUME TypeInv, ConnInv, Answer PROVE ConnInv'
<1>1. PICK w \in work : work' = work \ {w} /\ flags' \in {flags, flags \cup {Owner(w)}, flags \ {Owner(w)}}
  BY DEF Answer
<1>2. UNCHANGED <<strip, bound, noted, inbox, pendingSwitch, live, selected, attempts, up, sessions, files, used>>
  BY DEF Answer, prompts
<1>3. \A c : Known(c) => KnownNext(c)
  BY <1>2 DEF Known, KnownNext
<1>4. \A c \in flags' \cap Files : KnownNext(c)
  <2>1. w \in Work /\ Known(w.conn)
    BY DEF TypeInv, BackendInv, ConnInv
  <2>2. Owner(w) \in Files => Owner(w) = w.conn
    <3>1. CASE w.op = "disconnect"
      BY <3>1, <1>1, Distinct DEF Answer, Owner
    <3>2. CASE w.op # "disconnect"
      BY <2>1, <3>2, WorkIs, Distinct DEF Owner, RunWork, RollbackWork
    <3> QED
      BY <3>1, <3>2
  <2> QED
    BY <1>1, <1>3, <2>1, <2>2 DEF ConnInv
<1>5. WindowNext
  BY <1>2, <1>3, <1>4 DEF WindowNext, ConnInv, Open
<1>6. BackendNext /\ AttemptsNext
  BY <1>1, <1>2, <1>3 DEF BackendNext, AttemptsNext, ConnInv
<1> QED
  BY <1>5, <1>6, ConnParts

(* A command taken up keeps ConnInv. *)
LEMMA TakeConn == ASSUME TypeInv, ConnInv, Take PROVE ConnInv'
<1>1. PICK i \in DOMAIN inbox :
        /\ inbox' = RemoveAt(inbox, i)
        /\ \/ inbox[i].op = "run" /\ TakeRun(inbox[i])
           \/ inbox[i].op = "close" /\ close_session(inbox[i])
           \/ inbox[i].op = "disconnect" /\ TakeDisconnect(inbox[i])
           \/ inbox[i].op = "rollback" /\ TakeRollback(inbox[i])
  BY DEF Take
<1> DEFINE m == inbox[i]
<1>2. UNCHANGED <<strip, bound, noted, flags, pendingSwitch, live, selected, attempts, used>>
  BY DEF Take, prompts
<1>3. \A c : Known(c) => KnownNext(c)
  BY <1>2 DEF Known, KnownNext
<1>4. inbox \in Seq(Command) /\ m \in Command /\ Known(m.conn)
  BY DEF TypeInv, WindowInv, ConnInv
<1>5. \A j \in DOMAIN inbox' : \E k \in DOMAIN inbox : inbox'[j] = inbox[k]
  <2>1. Drops(inbox, i, inbox')
    BY <1>1, <1>4, RemoveDrops
  <2> QED
    BY <2>1 DEF Drops
<1>6. WindowNext
  BY <1>2, <1>3, <1>5 DEF WindowNext, ConnInv, Open
<1>7. work \subseteq Work
  BY DEF TypeInv, BackendInv
<1> HIDE DEF m
<1>8. /\ up' \subseteq up /\ files' \subseteq files
      /\ DOMAIN sessions' \subseteq DOMAIN sessions \cup {<<m.tab, m.conn>>}
      /\ \A w \in work' : /\ w.conn = m.conn \/ \E v \in work : w.conn = v.conn
                          /\ w.op = "disconnect" => w.conn \notin up'
  <2>1. CASE m.op = "run" /\ TakeRun(m)
    <3> DEFINE w == [op |-> "run", id |-> m.id, tab |-> m.tab, conn |-> m.conn, stage |-> "begun",
                 attached |-> TRUE, says |-> "nothing"]
           x == IF m.conn \in up THEN w ELSE [w EXCEPT !.stage = "answered"]
    <3>1. work' = work \cup {x} /\ UNCHANGED <<up, files>>
      BY <2>1 DEF TakeRun
    <3>2. DOMAIN sessions' \subseteq DOMAIN sessions \cup {<<m.tab, m.conn>>}
      BY <2>1 DEF TakeRun, With
    <3>3. x.op = "run" /\ x.conn = m.conn
      OBVIOUS
    <3> HIDE DEF x
    <3> QED
      BY <3>1, <3>2, <3>3 DEF ConnInv
  <2>2. CASE m.op = "close" /\ close_session(m)
    <3> DEFINE X == {w \in work : w.tab = m.tab /\ w.conn = m.conn}
    <3>1. /\ sessions' = Restrict(sessions, DOMAIN sessions \ {<<m.tab, m.conn>>})
          /\ work' = DetachedOf(X) /\ UNCHANGED <<up, files>>
      BY <2>2, CloseSessionIs
    <3> HIDE DEF X
    <3>2. \A v \in work' : \E w \in work : v.op = w.op /\ v.conn = w.conn
      <4>1. \A v \in DetachedOf(X) : \E w \in work : Becomes(w, v, X)
        BY <1>7, DetachedIs
      <4> QED
        BY <3>1, <4>1 DEF Becomes
    <3>3. DOMAIN sessions' \subseteq DOMAIN sessions
      BY <3>1 DEF Restrict
    <3>4. \A w \in work : w.op = "disconnect" => w.conn \notin up
      BY DEF ConnInv
    <3> QED
      BY <2>2, <3>1, <3>2, <3>3, <3>4
  <2>3. CASE m.op = "disconnect" /\ TakeDisconnect(m)
    <3> DEFINE X == {w \in work : w.conn = m.conn}
    <3>1. /\ up' = up \ {m.conn} /\ sessions' = Restrict(sessions, {s \in DOMAIN sessions : s[2] # m.conn})
          /\ files' = files \ {m.conn}
          /\ work' = DetachedOf(X) \cup IF m.conn \in Files THEN {} ELSE {m}
      BY <2>3, TakeDisconnectIs
    <3> HIDE DEF X
    <3>2. \A v \in DetachedOf(X) : \E w \in work : v.op = w.op /\ v.conn = w.conn
      <4>1. \A v \in DetachedOf(X) : \E w \in work : Becomes(w, v, X)
        BY <1>7, DetachedIs
      <4> QED
        BY <4>1 DEF Becomes
    <3>3. DOMAIN sessions' \subseteq DOMAIN sessions
      BY <3>1 DEF Restrict
    <3> QED
      BY <3>1, <3>2, <3>3 DEF ConnInv
  <2>4. CASE m.op = "rollback" /\ TakeRollback(m)
    <3> DEFINE r == [op |-> "rollback", conn |-> m.conn, stage |-> "answered", says |-> "closed"]
    <3>1. files' = files \ {m.conn} /\ work' \in {work, work \cup {r}} /\ UNCHANGED <<up, sessions>>
      BY <2>4 DEF TakeRollback
    <3>2. r.op = "rollback" /\ r.conn = m.conn
      OBVIOUS
    <3> HIDE DEF r
    <3> QED
      BY <3>1, <3>2 DEF ConnInv
  <2> QED
    BY <1>1, <2>1, <2>2, <2>3, <2>4 DEF m
<1>9. BackendNext
  <2>1. <<m.tab, m.conn>>[2] = m.conn
    OBVIOUS
  <2> QED
    BY <1>3, <1>4, <1>8, <2>1 DEF BackendNext, ConnInv
<1>10. AttemptsNext
  BY <1>2, <1>3, <1>8 DEF AttemptsNext, ConnInv
<1> QED
  BY <1>6, <1>9, <1>10, ConnParts

(* A statement's end keeps ConnInv. *)
LEMMA RunEndsConn == ASSUME TypeInv, ConnInv, RunEnds PROVE ConnInv'
<1>1. PICK w \in work, effect \in {"begin", "end", "none"}, says \in {"open", "closed", "nothing"} :
        EndsWith(w, effect, says)
  BY RunEndsIs
<1>2. UNCHANGED <<tabVars, pendingSwitch, live, selected, attempts, used, up>>
  BY DEF RunEnds, prompts
<1>3. \A c : Known(c) => KnownNext(c)
  BY <1>2 DEF Known, KnownNext
<1> DEFINE v == [w EXCEPT !.stage = "answered", !.says = says]
<1>4. /\ work' = (work \ {w}) \cup {v} /\ files' \subseteq files \cup {w.conn}
      /\ DOMAIN sessions' = DOMAIN sessions
  <2>1. sessions' = sessions \/ sessions' = [sessions EXCEPT ![<<w.tab, w.conn>>] = After(w, effect)]
    BY <1>1 DEF EndsWith
  <2>2. sessions \in [DOMAIN sessions -> BOOLEAN]
    BY DEF TypeInv, BackendInv
  <2> HIDE DEF v
  <2>3. work' = (work \ {w}) \cup {v}
    BY <1>1 DEF EndsWith, v
  <2>4. files' \subseteq files \cup {w.conn}
    BY <1>1 DEF EndsWith
  <2> QED
    BY <2>1, <2>2, <2>3, <2>4
<1>5. v.op = "run" /\ v.conn = w.conn
  BY <1>1, WorkIs DEF EndsWith, TypeInv, BackendInv, RunWork
<1> HIDE DEF v
<1>6. BackendNext
  BY <1>3, <1>4, <1>5 DEF BackendNext, ConnInv
<1>7. AttemptsNext
  BY <1>2, <1>3, <1>4, <1>5 DEF AttemptsNext, ConnInv
<1> QED
  BY <1>2, <1>3, <1>6, <1>7, WindowKnown, ConnParts

(* ConnInv holds initially. *)
LEMMA InitConn == ASSUME Init PROVE ConnInv
<1>1. Open = {FirstTab}
  BY SessionsAssumption, StripOne DEF Init, Open
<1>2. Known(First)
  BY DEF Init, Known
<1> QED
  BY <1>1, <1>2 DEF Init, ConnInv

(* Every step keeps ConnInv. *)
LEMMA NextConn == ASSUME TypeInv, ConnInv, Next PROVE ConnInv'
BY NextIs, TurnConn, ConnectConn, DisconnectConn, GivesUpConn, DisconnectedConn, RunConn, AnswerConn,
   TakeConn, RunEndsConn

(* So does no step at all. *)
LEMMA Stutter == ASSUME TypeInv, ConnInv, UNCHANGED vars PROVE TypeInv' /\ ConnInv'
<1>1. TypeInv'
  BY StripSame, BackendSame DEF TypeInv, vars, tabVars, backVars, prompts, WindowInv, StripInv, BackendInv, Begun, Open
<1>2. ConnInv'
  BY DEF ConnInv, vars, tabVars, backVars, prompts, Known, Open
<1> QED
  BY <1>1, <1>2

(* TypeInv and ConnInv hold in every reachable state, in whatever order commands are taken
   up: a connection's id is one connect's, and nothing names a connection still to come. *)
THEOREM Invariance == Spec => [](TypeInv /\ ConnInv)
<1>1. Init => TypeInv /\ ConnInv
  BY InitTypes, InitConn
<1>2. TypeInv /\ ConnInv /\ [Next]_vars => (TypeInv /\ ConnInv)'
  BY NextTypes, NextConn, Stutter
<1> QED
  BY <1>1, <1>2, PTL DEF Spec

(* In every reachable state the window and the backend keep what their types say: the strip
   has a tab and no tab twice, the active tab is open, each tab has a connection or none, and
   the backend has sessions and file transactions of connections that are up only. *)
THEOREM TypeCorrect == Spec => []TypeOK
<1>1. TypeInv => TypeOK
  BY DEF TypeInv, StripInv, WindowInv, BackendInv, TypeOK, Open, ToSet
<1> QED
  BY <1>1, Invariance, PTL

(* A disconnect of c is on its way. *)
Dropping(c) == \E i \in DOMAIN inbox : inbox[i].op = "disconnect" /\ inbox[i].conn = c

(* What is up is listed, about to be taken down, or the connect that made it is unanswered. *)
Reachable(c) == c \in live \/ Dropping(c) \/ \E a \in attempts : a.conn = c

(* Everything up is reachable. *)
ReachInv == \A c \in up : Reachable(c)

(* It is NothingUnreachable, and more. *)
LEMMA ReachIs == ReachInv => NothingUnreachable
BY DEF ReachInv, Reachable, Dropping, NothingUnreachable, Disconnecting, Pending

(* What was on its way still is, the inbox having only grown. *)
LEMMA StillDropping ==
  ASSUME NEW M, Extends(inbox, inbox', M)
  PROVE  \A c : Dropping(c) => Dropping(c)'
BY DEF Extends, Dropping

(* A turn keeps ReachInv. *)
LEMMA TurnReach == ASSUME TypeInv, ReachInv, Turn PROVE ReachInv'
<1>1. up' = up
  BY DEF Turn, backVars
<1>2. \A c : Dropping(c) => Dropping(c)'
  <2>1. CASE UNCHANGED <<tabVars, used>>
    BY <2>1 DEF tabVars, Dropping
  <2>2. CASE \E s, b, sel : Retabs(s, b, sel)
    <3>1. \E s, b : Extends(inbox, inbox', Ends(s, b))
      BY <2>2, TabsChangeSends DEF Retabs
    <3> QED
      BY <3>1, StillDropping
  <2> QED
    BY <2>1, <2>2 DEF Turn
<1>3. \/ UNCHANGED <<live, attempts>>
      \/ \E a \in attempts : attempts' = attempts \ {a} /\ live' = live \cup {a.conn}
  BY DEF Turn
<1> QED
  BY <1>1, <1>2, <1>3 DEF ReachInv, Reachable

(* connect, its cancel and the backend's connect keep ReachInv. *)
LEMMA ConnectReach == ASSUME TypeInv, ConnInv, ReachInv, connect \/ cancelConnect \/ Connects PROVE ReachInv'
<1>1. UNCHANGED <<live, inbox>>
  BY DEF connect, cancelConnect, Connects, tabVars
<1>2. CASE connect
  BY <1>1, <1>2 DEF connect, StartConnect, backVars, ReachInv, Reachable, Dropping
<1>3. CASE cancelConnect
  <2>1. PICK a \in attempts : attempts' = (attempts \ {a}) \cup {[a EXCEPT !.cancelled = TRUE]}
    BY <1>3 DEF cancelConnect
  <2> DEFINE n == [a EXCEPT !.cancelled = TRUE]
  <2>2. n.conn = a.conn /\ up' = up
    BY <1>3 DEF TypeInv, WindowInv, Attempt, cancelConnect, backVars
  <2> HIDE DEF n
  <2>3. attempts' = (attempts \ {a}) \cup {n}
    BY <2>1 DEF n
  <2>4. \A b \in attempts : \E d \in attempts' : d.conn = b.conn
    BY <2>2, <2>3
  <2> QED
    BY <1>1, <2>2, <2>4 DEF ReachInv, Reachable, Dropping
<1>4. CASE Connects
  <2>1. PICK a \in attempts :
          /\ a.stage = "sent"
          /\ \/ attempts' = (attempts \ {a}) \cup {[a EXCEPT !.stage = "made"]} /\ up' = up \cup {a.conn}
             \/ attempts' = attempts \ {a} /\ up' = up
    BY <1>4 DEF Connects
  <2> DEFINE n == [a EXCEPT !.stage = "made"]
  <2>2. a.conn \notin up /\ n.conn = a.conn
    BY <2>1 DEF ConnInv, TypeInv, WindowInv, Attempt
  <2>3. \/ attempts' = (attempts \ {a}) \cup {n} /\ up' = up \cup {a.conn}
        \/ attempts' = attempts \ {a} /\ up' = up
    BY <2>1
  <2> HIDE DEF n
  <2> QED
    BY <1>1, <2>2, <2>3 DEF ReachInv, Reachable, Dropping
<1> QED
  BY <1>2, <1>3, <1>4

(* The disconnects of the window, a cancelled connect's included, keep ReachInv. *)
LEMMA DisconnectReach ==
  ASSUME TypeInv, ReachInv, disconnect \/ handleReconnect \/ ReconnectConfirmed \/ \E a \in attempts : GivesUp(a)
  PROVE  ReachInv'
<1> DEFINE D(c, again, known) == Disconnection(c, again, known)
<1>1. up' = up
  BY DEF disconnect, handleReconnect, ReconnectConfirmed, confirmPendingSwitch, GivesUp, backVars
<1>2. \E c, again, known :
        /\ inbox' = inbox \/ (inbox' = Append(inbox, D(c, again, known)))
        /\ UNCHANGED <<live, attempts>> \/ inbox' = Append(inbox, D(c, again, known))
        /\ live \subseteq live' \cup {c}
        /\ \A a \in attempts : a \in attempts' \/ a.conn = c
  <2>1. CASE disconnect
    <3>1. PICK c \in live : SendDisconnect(c, FALSE) /\ live' = live \ (Files \cap {c}) /\ UNCHANGED attempts
      BY <2>1 DEF disconnect
    <3> QED
      BY <3>1 DEF SendDisconnect
  <2>2. CASE handleReconnect
    <3>1. PICK c : SendDisconnect(c, TRUE) \/ UNCHANGED inbox
      BY <2>2 DEF handleReconnect
    <3>2. UNCHANGED <<live, attempts>>
      BY <2>2 DEF handleReconnect
    <3> QED
      BY <3>1, <3>2 DEF SendDisconnect
  <2>3. CASE ReconnectConfirmed
    <3>1. PICK c : SendDisconnect(c, TRUE) \/ UNCHANGED inbox
      BY <2>3 DEF ReconnectConfirmed, confirmPendingSwitch
    <3>2. UNCHANGED <<live, attempts>>
      BY <2>3 DEF ReconnectConfirmed, confirmPendingSwitch
    <3> QED
      BY <3>1, <3>2 DEF SendDisconnect
  <2>4. CASE \E a \in attempts : GivesUp(a)
    BY <2>4 DEF GivesUp
  <2> QED
    BY <2>1, <2>2, <2>3, <2>4
<1>3. PICK c, again, known :
        /\ inbox' = inbox \/ (inbox' = Append(inbox, D(c, again, known)))
        /\ UNCHANGED <<live, attempts>> \/ inbox' = Append(inbox, D(c, again, known))
        /\ live \subseteq live' \cup {c}
        /\ \A a \in attempts : a \in attempts' \/ a.conn = c
  BY <1>2
<1>4. D(c, again, known).op = "disconnect" /\ D(c, again, known).conn = c
  BY DEF Disconnection
<1> DEFINE m == D(c, again, known)
<1>5. inbox' = Append(inbox, m) => Dropping(c)' /\ \A x : Dropping(x) => Dropping(x)'
  <2> SUFFICES ASSUME inbox' = Append(inbox, m) PROVE Dropping(c)' /\ \A x : Dropping(x) => Dropping(x)'
    OBVIOUS
  <2> HIDE DEF D
  <2>1. inbox \in Seq(Command \cup {m})
    BY DEF TypeInv, WindowInv
  <2>2. Extends(inbox, inbox', {m})
    BY <2>1, AppendExtends
  <2> QED
    BY <1>4, <2>2, StillDropping DEF Extends, Dropping
<1> HIDE DEF D
<1> QED
  BY <1>1, <1>3, <1>5 DEF ReachInv, Reachable, Dropping

(* The answer to a disconnect keeps ReachInv: its connection is down. *)
LEMMA DisconnectedReach == ASSUME TypeInv, ConnInv, ReachInv, Disconnected PROVE ReachInv'
<1>1. PICK w \in work : /\ w.op = "disconnect" /\ live \subseteq live' \cup {w.conn}
                        /\ (\E c : StartConnect(c, w.conn)) \/ UNCHANGED <<used, attempts>>
  BY DEF Disconnected
<1>2. w.conn \notin up /\ attempts \subseteq attempts' /\ UNCHANGED <<up, inbox>>
  BY <1>1 DEF ConnInv, StartConnect, Disconnected
<1> QED
  BY <1>1, <1>2 DEF ReachInv, Reachable, Dropping

(* A command taken up keeps ReachInv: only a disconnect's connection goes. *)
LEMMA TakeReach == ASSUME TypeInv, ReachInv, Take PROVE ReachInv'
<1>1. PICK i \in DOMAIN inbox :
        /\ inbox' = RemoveAt(inbox, i)
        /\ \/ inbox[i].op = "run" /\ TakeRun(inbox[i])
           \/ inbox[i].op = "close" /\ close_session(inbox[i])
           \/ inbox[i].op = "disconnect" /\ TakeDisconnect(inbox[i])
           \/ inbox[i].op = "rollback" /\ TakeRollback(inbox[i])
  BY DEF Take
<1>2. UNCHANGED <<live, attempts>>
  BY DEF Take
<1>3. Drops(inbox, i, inbox')
  BY <1>1, RemoveDrops DEF TypeInv, WindowInv
<1>4. \A j \in DOMAIN inbox \ {i} : \E k \in DOMAIN inbox' : inbox'[k] = inbox[j]
  BY <1>3 DEF Drops
<1>5. up' \subseteq up /\ (inbox[i].op = "disconnect" => inbox[i].conn \notin up')
  BY <1>1 DEF TakeRun, close_session, TakeDisconnect, TakeRollback
<1> QED
  BY <1>2, <1>4, <1>5 DEF ReachInv, Reachable, Dropping

(* Every step keeps ReachInv. *)
LEMMA NextReach == ASSUME TypeInv, ConnInv, ReachInv, [Next]_vars PROVE ReachInv'
<1>1. CASE Run
  <2>1. UNCHANGED <<up, live, attempts>>
    BY <1>1 DEF Run, backVars
  <2>2. PICK m : inbox' = Append(inbox, m)
    BY <1>1 DEF Run, Started
  <2>3. inbox \in Seq(Command \cup {m})
    BY DEF TypeInv, WindowInv
  <2>4. Extends(inbox, inbox', {m})
    BY <2>2, <2>3, AppendExtends
  <2>5. \A c : Dropping(c) => Dropping(c)'
    BY <2>4, StillDropping
  <2> QED
    BY <2>1, <2>5 DEF ReachInv, Reachable
<1>2. CASE Answer \/ RunEnds \/ UNCHANGED vars
  BY <1>2 DEF Answer, RunEnds, vars, tabVars, backVars, ReachInv, Reachable, Dropping
<1> QED
  BY <1>1, <1>2, NextIs, TurnReach, ConnectReach, DisconnectReach, DisconnectedReach, TakeReach

(* Every connection the backend holds is listed, or its connect or disconnect is under way:
   connection/manager.rs keeps no pool nobody can close, a cancelled connect's included. *)
THEOREM Reaches == Spec => []NothingUnreachable
<1>1. Init => ReachInv
  BY DEF Init, ReachInv, Reachable
<1>2. TypeInv /\ ConnInv /\ ReachInv /\ [Next]_vars => ReachInv'
  BY NextReach
<1> QED
  BY <1>1, <1>2, Invariance, ReachIs, PTL DEF Spec

(* The i-th command's session, if it is a run, is noted or to be ended behind it. *)
RunNoted(i) ==
  inbox[i].op = "run" /\ inbox[i].conn \in Servers =>
    LET s == <<inbox[i].tab, inbox[i].conn>> IN s \in noted \/ ClosedLater(i, s)

(* SessionInv, run by run. *)
LEMMA SessionInvIs ==
  SessionInv <=> /\ \A i \in DOMAIN inbox : RunNoted(i)
                 /\ \A s \in DOMAIN sessions : s \in noted \/ Sent(CloseSession(s))
BY DEF SessionInv, RunNoted

(* The inbox grows; what is forgotten is sent its end. *)
LEMMA GrowsSessions ==
  ASSUME TypeInv, SessionInv, NEW M, inbox' \in Seq(Command), Extends(inbox, inbox', M), DOMAIN sessions' \subseteq DOMAIN sessions,
         \A s \in noted \ noted' : CloseSession(s) \in M,
         \A m \in M : m.op = "run" /\ m.conn \in Servers => <<m.tab, m.conn>> \in noted'
  PROVE  SessionInv'
<1>1. DOMAIN inbox = 1..Len(inbox) /\ DOMAIN inbox' = 1..Len(inbox')
  BY DEF TypeInv, WindowInv
<1>2. ASSUME NEW i \in DOMAIN inbox' PROVE RunNoted(i)'
  <2> DEFINE m == inbox'[i]
             s == <<m.tab, m.conn>>
  <2>1. SUFFICES ASSUME m.op = "run", m.conn \in Servers, s \notin noted'
                 PROVE  \E j \in DOMAIN inbox' : i < j /\ inbox'[j] = CloseSession(s)
    BY DEF RunNoted, ClosedLater
  <2>2. i \in DOMAIN inbox /\ m = inbox[i]
    BY <2>1 DEF Extends
  <2>3. s \in noted \/ ClosedLater(i, s)
    BY <2>1, <2>2 DEF SessionInv
  <2>4. CASE ClosedLater(i, s)
    BY <2>4 DEF ClosedLater, Extends
  <2>5. CASE s \in noted
    <3>1. PICK j \in DOMAIN inbox' \ DOMAIN inbox : inbox'[j] = CloseSession(s)
      BY <2>1, <2>5 DEF Extends
    <3> QED
      BY <2>2, <3>1 DEF Extends
  <2> QED
    BY <2>3, <2>4, <2>5
<1>3. ASSUME NEW s \in DOMAIN sessions' PROVE s \in noted' \/ Sent(CloseSession(s))'
  <2>1. s \in noted \/ Sent(CloseSession(s))
    BY DEF SessionInv
  <2> QED
    BY <2>1 DEF Extends, Sent
<1> QED
  BY <1>2, <1>3 DEF SessionInv, RunNoted

(* Nothing sent, nothing forgotten, no session new. *)
LEMMA StaysSessions ==
  ASSUME SessionInv, UNCHANGED <<inbox, noted>>, DOMAIN sessions' \subseteq DOMAIN sessions
  PROVE  SessionInv'
BY DEF SessionInv, ClosedLater, Sent

(* A turn keeps SessionInv: what it forgets it ends. *)
LEMMA TurnSessions == ASSUME TypeInv, SessionInv, Turn PROVE SessionInv'
<1>1. sessions' = sessions
  BY DEF Turn, backVars
<1>2. CASE UNCHANGED <<tabVars, used>>
  BY <1>1, <1>2, StaysSessions DEF tabVars
<1>3. CASE \E s, b, sel : Retabs(s, b, sel)
  <2>1. PICK s, b : inbox' \in Seq(Command) /\ Extends(inbox, inbox', Ends(s, b))
    BY <1>3, TabsChangeSends DEF Retabs
  <2>2. \A p \in noted \ noted' : CloseSession(p) \in Ends(s, b)
    BY DEF Ends
  <2>3. \A m \in Ends(s, b) : m.op # "run"
    BY DEF Ends, CloseSession, RollBack
  <2> QED
    BY <1>1, <2>1, <2>2, <2>3, GrowsSessions
<1> QED
  BY <1>2, <1>3 DEF Turn

(* A step that appends a command that is no run, or none. *)
LEMMA SendsSessions ==
  ASSUME TypeInv, TypeInv', SessionInv, UNCHANGED <<noted, sessions>>, NEW m, m.op # "run", inbox' = Append(inbox, m)
  PROVE  SessionInv'
<1>1. inbox \in Seq(Command \cup {m})
  BY DEF TypeInv, WindowInv
<1>2. Extends(inbox, inbox', {m}) /\ inbox' \in Seq(Command)
  BY <1>1, AppendExtends DEF TypeInv, WindowInv
<1> QED
  BY <1>2, GrowsSessions

(* A command taken up keeps SessionInv: in order, an end that was behind a run still is. *)
LEMMA TakeSessions == ASSUME TypeInv, SessionInv, ~Overtakes, Take PROVE SessionInv'
<1> DEFINE m == inbox[1]
<1>1. /\ 1 \in DOMAIN inbox /\ inbox' = RemoveAt(inbox, 1) /\ noted' = noted
      /\ \/ m.op = "run" /\ TakeRun(m)
         \/ m.op = "close" /\ close_session(m)
         \/ m.op = "disconnect" /\ TakeDisconnect(m)
         \/ m.op = "rollback" /\ TakeRollback(m)
  BY DEF Take
<1>2. inbox \in Seq(Command) /\ m \in Command /\ DOMAIN inbox = 1..Len(inbox)
  BY <1>1 DEF TypeInv, WindowInv
<1>3. Drops(inbox, 1, inbox') /\ DOMAIN inbox' = 1..Len(inbox')
  BY <1>1, <1>2, RemoveDrops
<1>4. /\ \A j \in DOMAIN inbox' : j + 1 \in DOMAIN inbox /\ inbox'[j] = inbox[j + 1]
      /\ \A j \in DOMAIN inbox : j > 1 => j - 1 \in DOMAIN inbox' /\ inbox'[j - 1] = inbox[j]
  BY <1>2, <1>3 DEF Drops
<1> HIDE DEF m
<1>5. ASSUME NEW i \in DOMAIN inbox' PROVE RunNoted(i)'
  <2>1. i + 1 \in DOMAIN inbox /\ inbox'[i] = inbox[i + 1] /\ RunNoted(i + 1)
    BY <1>4, SessionInvIs
  <2>2. \A s : ClosedLater(i + 1, s) => ClosedLater(i, s)'
    <3> SUFFICES ASSUME NEW s, NEW j \in DOMAIN inbox, i + 1 < j, inbox[j] = CloseSession(s)
                 PROVE  \E k \in DOMAIN inbox' : i < k /\ inbox'[k] = CloseSession(s)
      BY DEF ClosedLater
    <3>1. j > 1 /\ i < j - 1
      BY <1>2, <1>3
    <3> QED
      BY <1>4, <3>1
  <2> QED
    BY <1>1, <2>1, <2>2 DEF RunNoted
<1>6. \A s : Sent(CloseSession(s)) => CloseSession(s) = m \/ Sent(CloseSession(s))'
  <2> SUFFICES ASSUME NEW s, NEW j \in DOMAIN inbox, inbox[j] = CloseSession(s), CloseSession(s) # m
               PROVE  \E k \in DOMAIN inbox' : inbox'[k] = CloseSession(s)
    BY DEF Sent
  <2>1. j > 1
    BY <1>2 DEF m
  <2> QED
    BY <1>4, <2>1
<1>7. ASSUME NEW s \in DOMAIN sessions' PROVE s \in noted' \/ Sent(CloseSession(s))'
  <2>1. CASE m.op = "run" /\ TakeRun(m) /\ s \notin DOMAIN sessions
    <3>1. s = <<m.tab, m.conn>> /\ m.conn \in Servers
      BY <2>1 DEF TakeRun, With
    <3>2. s \in noted \/ ClosedLater(1, s)
      BY <1>1, <2>1, <3>1 DEF SessionInv, m
    <3>3. ClosedLater(1, s) => Sent(CloseSession(s))'
      BY <1>2, <1>4 DEF ClosedLater, Sent
    <3> QED
      BY <1>1, <3>2, <3>3
  <2>2. CASE m.op # "close" /\ s \in DOMAIN sessions
    <3>1. CloseSession(s) # m
      BY <2>2 DEF CloseSession
    <3> QED
      BY <1>1, <1>6, <2>2, <3>1 DEF SessionInv
  <2>3. CASE m.op = "close" /\ close_session(m)
    <3>1. s \in DOMAIN sessions /\ s # <<m.tab, m.conn>>
      BY <2>3 DEF close_session, Restrict
    <3>2. s = <<s[1], s[2]>>
      BY <3>1 DEF TypeInv, BackendInv
    <3>3. CloseSession(s) # m
      BY <3>1, <3>2 DEF CloseSession
    <3> QED
      BY <1>1, <1>6, <3>1, <3>3 DEF SessionInv
  <2>4. CASE m.op = "disconnect" /\ TakeDisconnect(m)
    <3>1. s \in DOMAIN sessions
      BY <2>4 DEF TakeDisconnect, Restrict
    <3> QED
      BY <2>2, <2>4, <3>1
  <2>5. CASE m.op = "rollback" /\ TakeRollback(m)
    <3>1. s \in DOMAIN sessions
      BY <2>5 DEF TakeRollback
    <3> QED
      BY <2>2, <2>5, <3>1
  <2> QED
    BY <1>1, <2>1, <2>2, <2>3, <2>4, <2>5
<1> QED
  BY <1>5, <1>7, SessionInvIs DEF SessionInv, RunNoted

(* Every step keeps SessionInv. *)
LEMMA NextSessions == ASSUME TypeInv, ConnInv, SessionInv, ~Overtakes, [Next]_vars PROVE SessionInv'
<1>0. TypeInv'
  BY NextTypes, Stutter
<1>1. CASE Run
  <2> DEFINE c == runConnectionId(active, selected)
             m == [op |-> "run", id |-> runs + 1, tab |-> active, conn |-> c]
  <2>1. /\ inbox' = Append(inbox, m) /\ noted' = noted \cup IF c \in Files \cap live THEN {} ELSE {<<active, c>>}
        /\ UNCHANGED sessions
    BY <1>1 DEF Run, Started, backVars
  <2>2. m.op = "run" /\ m.conn = c /\ m.tab = active
    OBVIOUS
  <2> HIDE DEF m, c
  <2>3. inbox \in Seq(Command \cup {m}) /\ inbox' \in Seq(Command)
    BY <1>0 DEF TypeInv, WindowInv
  <2>4. Extends(inbox, inbox', {m})
    BY <2>1, <2>3, AppendExtends
  <2>5. c \in Servers => <<active, c>> \in noted'
    BY <2>1, Distinct
  <2>6. noted \subseteq noted'
    BY <2>1
  <2> QED
    BY <2>1, <2>2, <2>3, <2>4, <2>5, <2>6, GrowsSessions
<1>2. CASE connect \/ cancelConnect \/ Connects \/ Disconnected \/ Answer \/ UNCHANGED vars
  <2>1. UNCHANGED <<inbox, noted, sessions>>
    BY <1>2 DEF connect, cancelConnect, Connects, Disconnected, Answer, vars, tabVars, backVars
  <2> QED
    BY <2>1, StaysSessions
<1>3. CASE RunEnds
  <2>1. PICK w \in work, effect \in {"begin", "end", "none"}, says \in {"open", "closed", "nothing"} : EndsWith(w, effect, says)
    BY <1>3, RunEndsIs
  <2>2. sessions' = sessions \/ sessions' = [sessions EXCEPT ![<<w.tab, w.conn>>] = After(w, effect)]
    BY <2>1 DEF EndsWith
  <2>3. DOMAIN sessions' = DOMAIN sessions
    BY <2>2 DEF TypeInv, BackendInv
  <2>4. UNCHANGED <<inbox, noted>>
    BY <1>3 DEF RunEnds, tabVars
  <2> QED
    BY <2>3, <2>4, StaysSessions
<1>4. CASE disconnect \/ handleReconnect \/ ReconnectConfirmed \/ \E a \in attempts : GivesUp(a)
  <2>1. UNCHANGED <<noted, sessions>>
    BY <1>4 DEF disconnect, handleReconnect, ReconnectConfirmed, confirmPendingSwitch, GivesUp, backVars
  <2>2. inbox' = inbox \/ \E c, again, known : inbox' = Append(inbox, Disconnection(c, again, known))
    <3>1. \A c, again : SendDisconnect(c, again) => \E d, e, known : inbox' = Append(inbox, Disconnection(d, e, known))
      BY DEF SendDisconnect
    <3>2. CASE \E a \in attempts : GivesUp(a)
      BY <3>2 DEF GivesUp
    <3>3. CASE disconnect \/ handleReconnect \/ ReconnectConfirmed
      <4>1. (\E c, again : SendDisconnect(c, again)) \/ inbox' = inbox
        BY <3>3 DEF disconnect, handleReconnect, ReconnectConfirmed, confirmPendingSwitch
      <4> QED
        BY <3>1, <4>1
    <3> QED
      BY <1>4, <3>2, <3>3
  <2>3. \A c, again, known : Disconnection(c, again, known).op # "run"
    BY DEF Disconnection
  <2>4. CASE inbox' = inbox
    BY <2>1, <2>4, StaysSessions
  <2> QED
    BY <1>0, <2>1, <2>2, <2>3, <2>4, SendsSessions
<1> QED
  BY <1>1, <1>2, <1>3, <1>4, NextIs, TurnSessions, TakeSessions

(* Where commands are taken up in the order sent, no session outlives its tab, or its tab's
   stay on the connection, unless its end or its connection's is on the way: closeStale of
   server-sessions forgets none that is there or about to be opened. *)
THEOREM SessionsAreEnded == ASSUME ~Overtakes PROVE Spec => []SessionsEnd
<1>1. Init => SessionInv
  BY DEF Init, SessionInv
<1>2. TypeInv /\ ConnInv /\ SessionInv /\ [Next]_vars => SessionInv'
  BY NextSessions
<1>3. TypeInv /\ SessionInv => SessionsEnd
  BY DEF TypeInv, WindowInv, SessionInv, SessionsEnd
<1> QED
  BY <1>1, <1>2, <1>3, Invariance, PTL DEF Spec

(* A command about tab t's sessions. *)
Mine(m, t) == m.op \in {"run", "close"} /\ m.tab = t

(* Tab t's commands are in the inbox as they were, in their order, d places on. *)
Kept(t, d) ==
  \A i \in DOMAIN inbox' : Mine(inbox'[i], t) => i + d \in DOMAIN inbox /\ inbox[i + d] = inbox'[i]

(* And nothing of the tab's is gone. *)
SameMail(t, d) ==
  /\ Kept(t, d)
  /\ \A i \in DOMAIN inbox : Mine(inbox[i], t) => i - d \in DOMAIN inbox' /\ inbox'[i - d] = inbox[i]

(* Tab t's work is as it was. *)
SameWork(t) == \A w : Runs(w, t) => (w \in work <=> w \in work')

(* Tab t's work has become less, or only lost its session. *)
Fewer(t) ==
  /\ \A v \in work' : Runs(v, t) => \E w \in work : Runs(w, t)
  /\ \A v, w \in work' : Runs(v, t) /\ Runs(w, t) => v = w

(* Tab t's sessions noted are as they were. *)
SameNotes(t) == \A s : s[1] = t => (s \in noted <=> s \in noted')

(* The end of a session is on its way as before. *)
LEMMA SameSent ==
  ASSUME NEW t, NEW c, NEW d, SameMail(t, d)
  PROVE  Sent(CloseSession(<<t, c>>)) <=> Sent(CloseSession(<<t, c>>))'
<1> DEFINE m == CloseSession(<<t, c>>)
<1>1. Mine(m, t)
  BY DEF CloseSession, Mine
<1> HIDE DEF m
<1>2. (\E i \in DOMAIN inbox : inbox[i] = m) <=> \E i \in DOMAIN inbox' : inbox'[i] = m
  BY <1>1 DEF SameMail, Kept
<1>3. m' = m
  BY DEF m, CloseSession
<1> QED
  BY <1>2, <1>3 DEF Sent, m

(* With no more mail and no more work a tab still has one run, and its ends come first. *)
LEMMA MailFrame ==
  ASSUME NEW t, NEW d \in {0, 1}, TypeInv, TypeInv', OneRun(t), ClosedFirst(t), SameMail(t, d) \/ Kept(t, d),
         SameWork(t) \/ Fewer(t), t \in flags' => t \in flags
  PROVE  OneRun(t)' /\ ClosedFirst(t)'
<1>0. DOMAIN inbox = 1..Len(inbox) /\ DOMAIN inbox' = 1..Len(inbox')
  BY DEF TypeInv, WindowInv
<1>1. Kept(t, d) /\ Fewer(t)
  BY DEF SameMail, SameWork, OneRun, Fewer
<1>2. \A m : Runs(m, t) \/ Closes(m, t) => Mine(m, t)
  BY DEF Runs, Closes, Mine
<1>3. OneRun(t)'
  <2>1. ASSUME NEW i \in DOMAIN inbox', NEW j \in DOMAIN inbox', Runs(inbox'[i], t), Runs(inbox'[j], t) PROVE i = j
    <3>1. /\ i + d \in DOMAIN inbox /\ inbox[i + d] = inbox'[i]
          /\ j + d \in DOMAIN inbox /\ inbox[j + d] = inbox'[j]
      BY <1>1, <1>2, <2>1 DEF Kept
    <3>2. i + d = j + d
      BY <2>1, <3>1 DEF OneRun
    <3> QED
      BY <1>0, <3>2
  <2>2. \A v, w \in work' : Runs(v, t) /\ Runs(w, t) => v = w
    BY <1>1 DEF Fewer
  <2>3. \A i \in DOMAIN inbox' : Runs(inbox'[i], t) => \A w \in work' : ~Runs(w, t)
    BY <1>1, <1>2 DEF OneRun, Fewer, Kept
  <2> QED
    BY <2>1, <2>2, <2>3 DEF OneRun, Runs
<1>5. ClosedFirst(t)'
  <2>1. ASSUME NEW i \in DOMAIN inbox', Closes(inbox'[i], t)
        PROVE  /\ t \notin flags'
               /\ \A w \in work' : ~Runs(w, t)
               /\ \A j \in DOMAIN inbox' : Runs(inbox'[j], t) => i < j
    <3>1. i + d \in DOMAIN inbox /\ inbox[i + d] = inbox'[i]
      BY <1>1, <1>2, <2>1 DEF Kept
    <3>2. /\ t \notin flags
          /\ \A w \in work : ~Runs(w, t)
          /\ \A j \in DOMAIN inbox : Runs(inbox[j], t) => i + d < j
      BY <2>1, <3>1 DEF ClosedFirst
    <3>3. ASSUME NEW j \in DOMAIN inbox', Runs(inbox'[j], t) PROVE i < j
      <4>1. j + d \in DOMAIN inbox /\ i + d < j + d
        BY <1>1, <1>2, <3>2, <3>3 DEF Kept
      <4> QED
        BY <1>0, <4>1
    <3> QED
      BY <1>1, <3>2, <3>3 DEF Fewer
  <2> QED
    BY <2>1 DEF ClosedFirst, Runs, Closes
<1> QED
  BY <1>3, <1>5

(* What a tab sees is as it was; a flag may have gone with its connection. *)
LEMMA TabFrame ==
  ASSUME NEW t, NEW d \in {0, 1}, TypeInv, TypeInv', TabFlag(t), SameMail(t, d), SameWork(t), SameNotes(t),
         bound'[t] = bound[t], t \in flags' => t \in flags,
         bound[t] \in up' \cap Servers => /\ bound[t] \in up
                                          /\ t \in flags => t \in flags'
                                          /\ InTransaction(<<t, bound[t]>>)' <=> InTransaction(<<t, bound[t]>>),
         bound[t] \in Servers /\ bound[t] \in up' => bound[t] \in up
  PROVE  TabFlag(t)'
<1>1. Settles(t)'
  <2>1. <<t, bound[t]>>[1] = t
    OBVIOUS
  <2> QED
    BY <2>1 DEF TabFlag, Settles, SameNotes
<1>2. \A m : Runs(m, t) \/ Closes(m, t) => Mine(m, t)
  BY DEF Runs, Closes, Mine
<1>3. OneRun(t)' /\ ClosedFirst(t)'
  BY MailFrame DEF TabFlag
<1>4. Homely(t)'
  <2>1. <<t, bound[t]>>[1] = t
    OBVIOUS
  <2>2. \A i \in DOMAIN inbox' : Runs(inbox'[i], t) /\ inbox'[i].conn \in Servers
          => inbox'[i].conn = bound'[t] /\ <<t, bound'[t]>> \in noted'
    BY <1>2, <2>1 DEF TabFlag, Homely, SameMail, Kept, SameNotes
  <2>3. \A w \in work' : Runs(w, t) /\ w.conn \in Servers
          => w.conn = bound'[t] /\ <<t, bound'[t]>> \in noted' /\ (Begun(w) /\ w.conn \in up' => w.attached)
    BY <2>1 DEF TabFlag, Homely, SameWork, SameNotes
  <2> QED
    BY <2>2, <2>3 DEF Homely, Runs, Begun
<1>6. Truth(t)'
  <2> DEFINE now == InTransaction(<<t, bound[t]>>)'
  <2>0. InTransaction(<<t, bound[t]>>)' <=> /\ <<t, bound'[t]>> \in DOMAIN sessions'
                                            /\ sessions'[<<t, bound'[t]>>]
    BY DEF InTransaction
  <2> HIDE DEF now
  <2> SUFFICES ASSUME bound'[t] \in up' \cap Servers, ~Sent(CloseSession(<<t, bound[t]>>))'
               PROVE  /\ (\A w \in work' : Runs(w, t) /\ w.conn \in Servers => w.stage = "begun") => (t \in flags' <=> now)
                      /\ \A w \in work' : Runs(w, t) /\ w.conn \in Servers /\ w.stage = "answered" =>
                           /\ w.says = "open" => now
                           /\ w.says = "closed" => ~now
                           /\ w.says = "nothing" => (t \in flags' <=> now)
    BY <2>0 DEF Truth, Runs, now, Sent, CloseSession
  <2>1. ~Sent(CloseSession(<<t, bound[t]>>))
    BY SameSent
  <2>2. /\ (\A w \in work : Runs(w, t) /\ w.conn \in Servers => w.stage = "begun")
           => (t \in flags <=> InTransaction(<<t, bound[t]>>))
        /\ \A w \in work : Runs(w, t) /\ w.conn \in Servers /\ w.stage = "answered" =>
             /\ w.says = "open" => InTransaction(<<t, bound[t]>>)
             /\ w.says = "closed" => ~InTransaction(<<t, bound[t]>>)
             /\ w.says = "nothing" => (t \in flags <=> InTransaction(<<t, bound[t]>>))
    BY <2>1 DEF TabFlag, Truth
  <2>3. \A w : Runs(w, t) => (w \in work <=> w \in work')
    BY DEF SameWork
  <2>4. (t \in flags <=> t \in flags') /\ (InTransaction(<<t, bound[t]>>)' <=> InTransaction(<<t, bound[t]>>))
    OBVIOUS
  <2> QED
    BY <2>2, <2>3, <2>4 DEF now
<1> QED
  BY <1>1, <1>3, <1>4, <1>6 DEF TabFlag

(* A tab nothing runs for. *)
LEMMA Idle ==
  ASSUME NEW t, t \notin flags', \A i \in DOMAIN inbox' : ~Runs(inbox'[i], t), \A w \in work' : ~Runs(w, t)
  PROVE  OneRun(t)' /\ ClosedFirst(t)'
BY DEF OneRun, ClosedFirst, Runs, Closes

(* A tab with no session that is not about to be closed. *)
LEMMA Bare ==
  ASSUME NEW t, t \notin flags', \A s \in noted' : s[1] # t, OneRun(t)', ClosedFirst(t)',
         \A i \in DOMAIN inbox' : Runs(inbox'[i], t) => inbox'[i].conn \notin Servers,
         \A w \in work' : Runs(w, t) => w.conn \notin Servers,
         <<t, bound'[t]>> \in DOMAIN sessions' => \E i \in DOMAIN inbox' : inbox'[i] = CloseSession(<<t, bound'[t]>>)
  PROVE  TabFlag(t)'
<1>1. Settles(t)' /\ Homely(t)'
  BY DEF Settles, Homely, Runs
<1>2. Truth(t)'
  <2>1. ~Sent(CloseSession(<<t, bound[t]>>))' => ~InTransaction(<<t, bound[t]>>)'
    BY DEF Sent, InTransaction, CloseSession
  <2>2. \A w \in work' : Runs(w, t)' => ~(w.conn \in Servers)
    BY DEF Runs
  <2> QED
    BY <2>1, <2>2 DEF Truth
<1> QED
  BY <1>1, <1>2 DEF TabFlag

(* Take, in the order sent. *)
Taken(m) ==
  /\ 1 \in DOMAIN inbox /\ m = inbox[1] /\ inbox' = RemoveAt(inbox, 1)
  /\ \/ m.op = "run" /\ TakeRun(m)
     \/ m.op = "close" /\ close_session(m)
     \/ m.op = "disconnect" /\ TakeDisconnect(m)
     \/ m.op = "rollback" /\ TakeRollback(m)
  /\ UNCHANGED <<strip, bound, noted, flags, muddled, active, prompts, live, selected, attempts, used, runs>>

(* In order, Take takes the first command, and the others move up. *)
LEMMA TakenIs ==
  ASSUME TypeInv, ~Overtakes, Take
  PROVE  /\ Taken(inbox[1]) /\ inbox[1] \in Command
         /\ \A j \in DOMAIN inbox' : j + 1 \in DOMAIN inbox /\ inbox'[j] = inbox[j + 1]
         /\ \A j \in DOMAIN inbox : j # 1 => j - 1 \in DOMAIN inbox' /\ inbox'[j - 1] = inbox[j]
<1>1. 1 \in DOMAIN inbox /\ inbox' = RemoveAt(inbox, 1)
  BY DEF Take
<1>2. inbox \in Seq(Command) /\ DOMAIN inbox = 1..Len(inbox) /\ inbox[1] \in Command
  BY <1>1 DEF TypeInv, WindowInv
<1>3. Drops(inbox, 1, inbox') /\ DOMAIN inbox' = 1..Len(inbox')
  BY <1>1, <1>2, RemoveDrops
<1>4. /\ \A j \in DOMAIN inbox' : j + 1 \in DOMAIN inbox /\ inbox'[j] = inbox[j + 1]
      /\ \A j \in DOMAIN inbox : j # 1 => j - 1 \in DOMAIN inbox' /\ inbox'[j - 1] = inbox[j]
  BY <1>2, <1>3 DEF Drops
<1>5. Taken(inbox[1])
  BY <1>1 DEF Take, Taken
<1> QED
  BY <1>2, <1>4, <1>5

(* The run that TakeRun puts to work. *)
RunTaken(m) ==
  [op |-> "run", id |-> m.id, tab |-> m.tab, conn |-> m.conn, stage |-> IF m.conn \in up THEN "begun" ELSE "answered",
   attached |-> TRUE, says |-> "nothing"]

(* A run taken up is put to work, on its session or a new one with no transaction. *)
LEMMA TakeRunIs ==
  ASSUME TypeInv, NEW m \in RunCommand, TakeRun(m)
  PROVE  /\ work' = work \cup {RunTaken(m)} /\ UNCHANGED <<up, files>>
         /\ \/ m.conn \notin up \cap Servers /\ sessions' = sessions
            \/ m.conn \in up \cap Servers /\ <<m.tab, m.conn>> \in DOMAIN sessions /\ sessions' = sessions
            \/ /\ m.conn \in up \cap Servers /\ <<m.tab, m.conn>> \notin DOMAIN sessions
               /\ DOMAIN sessions' = DOMAIN sessions \cup {<<m.tab, m.conn>>}
               /\ sessions'[<<m.tab, m.conn>>] = FALSE
               /\ \A s \in DOMAIN sessions : sessions'[s] = sessions[s]
<1> DEFINE w == [op |-> "run", id |-> m.id, tab |-> m.tab, conn |-> m.conn, stage |-> "begun",
                 attached |-> TRUE, says |-> "nothing"]
<1>1. (IF m.conn \in up THEN w ELSE [w EXCEPT !.stage = "answered"]) = RunTaken(m)
  <2>1. CASE m.conn \in up
    BY <2>1 DEF RunTaken
  <2>2. CASE m.conn \notin up
    BY <2>2 DEF RunTaken
  <2> QED
    BY <2>1, <2>2
<1>2. work' = work \cup {RunTaken(m)} /\ UNCHANGED <<up, files>>
  BY <1>1 DEF TakeRun
<1>3. sessions' = IF m.conn \notin up \cap Servers \/ <<m.tab, m.conn>> \in DOMAIN sessions THEN sessions
                 ELSE With(sessions, <<m.tab, m.conn>>, FALSE)
  BY DEF TakeRun
<1>4. CASE m.conn \in up \cap Servers /\ <<m.tab, m.conn>> \notin DOMAIN sessions
  <2> DEFINE s == <<m.tab, m.conn>>
  <2>1. sessions' = With(sessions, s, FALSE)
    BY <1>3, <1>4
  <2>2. s \notin DOMAIN sessions
    BY <1>4
  <2> HIDE DEF s
  <2>3. DOMAIN sessions' = DOMAIN sessions \cup {s} /\ sessions'[s] = FALSE /\ \A x \in DOMAIN sessions : sessions'[x] = sessions[x]
    BY <2>1, <2>2 DEF With
  <2> QED
    BY <1>2, <1>4, <2>3 DEF s
<1> QED
  BY <1>2, <1>3, <1>4

(* A command taken up adds work of its own at most. *)
LEMMA TakenWork ==
  ASSUME TypeInv, NEW m \in Command, Taken(m)
  PROVE  \A w \in work' :
           \/ w.op = m.op /\ w.conn = m.conn /\ (w.op = "run" => w.tab = m.tab)
           \/ \E v \in work : w.op = v.op /\ w.conn = v.conn /\ (w.op = "run" => w.tab = v.tab)
<1>0. work \subseteq Work
  BY DEF TypeInv, BackendInv
<1>1. CASE m.op = "run" /\ TakeRun(m)
  <2>1. work' = work \cup {RunTaken(m)}
    BY <1>1, TakeRunIs, CommandIs
  <2>2. RunTaken(m).op = "run" /\ RunTaken(m).conn = m.conn /\ RunTaken(m).tab = m.tab
    BY DEF RunTaken
  <2> QED
    BY <1>1, <2>1, <2>2
<1>2. CASE m.op = "close" /\ close_session(m)
  <2> DEFINE X == {w \in work : w.tab = m.tab /\ w.conn = m.conn}
  <2>1. work' = DetachedOf(X)
    BY <1>2, CloseSessionIs
  <2> HIDE DEF X
  <2>2. \A v \in DetachedOf(X) : \E w \in work : Becomes(w, v, X)
    BY <1>0, DetachedIs
  <2> QED
    BY <2>1, <2>2 DEF Becomes
<1>3. CASE m.op = "disconnect" /\ TakeDisconnect(m)
  <2> DEFINE X == {w \in work : w.conn = m.conn}
  <2>1. work' = DetachedOf(X) \cup IF m.conn \in Files THEN {} ELSE {m}
    BY <1>3, TakeDisconnectIs
  <2> HIDE DEF X
  <2>2. \A v \in DetachedOf(X) : \E w \in work : Becomes(w, v, X)
    BY <1>0, DetachedIs
  <2> QED
    BY <1>3, <2>1, <2>2 DEF Becomes
<1>4. CASE m.op = "rollback" /\ TakeRollback(m)
  <2> DEFINE r == [op |-> "rollback", conn |-> m.conn, stage |-> "answered", says |-> "closed"]
  <2>1. work' = work \/ work' = work \cup {r}
    BY <1>4 DEF TakeRollback
  <2>2. r.op = "rollback" /\ r.conn = m.conn
    OBVIOUS
  <2> HIDE DEF r
  <2> QED
    BY <1>4, <2>1, <2>2
<1> QED
  BY <1>1, <1>2, <1>3, <1>4 DEF Taken

(* A tab once used stays used. *)
LEMMA TabsStayUsed == ASSUME TypeInv, ConnInv, [Next]_vars PROVE \A t \in TabIds \cap used : t \in used'
<1>1. CASE Connects
  <2>1. PICK a \in attempts : used' = used \/ used' = used \ {a.conn}
    BY <1>1 DEF Connects
  <2>2. a.conn \notin TabIds
    BY Distinct DEF TypeInv, WindowInv, Attempt
  <2> QED
    BY <2>1, <2>2
<1>2. CASE Turn
  BY <1>2 DEF Turn, Retabs
<1>3. CASE connect \/ Disconnected
  <2>1. UNCHANGED used \/ \E c, r : StartConnect(c, r)
    BY <1>3 DEF connect, Disconnected
  <2> QED
    BY <2>1 DEF StartConnect
<1> QED
  BY <1>1, <1>2, <1>3, NextIs
     DEF cancelConnect, disconnect, handleReconnect, ReconnectConfirmed, confirmPendingSwitch, GivesUp, Run, Answer,
         Take, RunEnds, vars

(* A command sent is a used tab's. *)
LEMMA AppendTabs ==
  ASSUME TypeInv, TabInv, NEW m, inbox' = Append(inbox, m), m.op \in {"run", "close"} => m.tab \in used',
         \A t \in TabIds \cap used : t \in used'
  PROVE  \A i \in DOMAIN inbox' : inbox'[i].op \in {"run", "close"} => inbox'[i].tab \in used'
<1>1. inbox \in Seq(Command \cup {m}) /\ \A i \in DOMAIN inbox : inbox[i] \in Command
  BY DEF TypeInv, WindowInv
<1>2. Extends(inbox, inbox', {m})
  BY <1>1, AppendExtends
<1>3. \A i \in DOMAIN inbox : inbox[i].op \in {"run", "close"} => inbox[i].tab \in TabIds \cap used
  BY <1>1, CommandIs DEF TabInv, RunCommand, CloseCommand
<1> QED
  BY <1>2, <1>3 DEF Extends

(* Every step keeps TabInv. *)
LEMMA NextTabs == ASSUME TypeInv, ConnInv, TabInv, ~Overtakes, [Next]_vars PROVE TabInv'
<1>0. \A t \in TabIds \cap used : t \in used'
  BY TabsStayUsed
<1>1. /\ \A i \in DOMAIN inbox : inbox[i].op \in {"run", "close"} => inbox[i].tab \in TabIds \cap used
      /\ \A w \in work : w.op = "run" => w.tab \in TabIds \cap used
      /\ flags \cap TabIds \subseteq used
  <2>1. \A i \in DOMAIN inbox : inbox[i] \in Command
    BY DEF TypeInv, WindowInv
  <2>2. \A w \in work : w \in Work
    BY DEF TypeInv, BackendInv
  <2> QED
    BY <2>1, <2>2, CommandIs, WorkIs DEF TabInv, RunCommand, CloseCommand, RunWork
<1>2. CASE Turn
  <2>1. work' = work
    BY <1>2 DEF Turn, backVars
  <2>2. CASE UNCHANGED <<tabVars, used>>
    BY <2>1, <2>2 DEF TabInv, tabVars
  <2>3. CASE \E s, b, sel : Retabs(s, b, sel)
    <3>1. PICK s, b, sel : Retabs(s, b, sel)
      BY <2>3
    <3>2. Extends(inbox, inbox', Ends(s, b)) /\ flags' \subseteq flags
      BY <3>1, TabsChangeSends DEF Retabs, TabsChange
    <3>3. \A m \in Ends(s, b) : m.op \in {"run", "close"} => m.tab \in TabIds \cap used
      <4>1. \A p \in noted : CloseSession(p).tab = p[1] /\ p[1] \in TabIds \cap used
        BY DEF CloseSession, TypeInv, WindowInv, StripInv, Open, ToSet
      <4>2. \A f : RollBack(f).op = "rollback"
        BY DEF RollBack
      <4> QED
        BY <4>1, <4>2 DEF Ends
    <3> QED
      BY <1>0, <1>1, <2>1, <3>2, <3>3 DEF TabInv, Extends
  <2> QED
    BY <1>2, <2>2, <2>3 DEF Turn
<1>3. CASE connect \/ cancelConnect \/ Connects \/ Disconnected \/ UNCHANGED vars
  <2>1. UNCHANGED inbox /\ work' \subseteq work /\ flags' \subseteq flags
    BY <1>3 DEF connect, cancelConnect, Connects, Disconnected, vars, tabVars, backVars
  <2> QED
    BY <1>0, <1>1, <2>1 DEF TabInv
<1>4. CASE disconnect \/ handleReconnect \/ ReconnectConfirmed \/ \E a \in attempts : GivesUp(a)
  <2>1. /\ UNCHANGED work /\ flags' \subseteq flags
        /\ inbox' = inbox \/ \E c, again, known : inbox' = Append(inbox, Disconnection(c, again, known))
    BY <1>4 DEF disconnect, handleReconnect, ReconnectConfirmed, confirmPendingSwitch, GivesUp, backVars, SendDisconnect
  <2>2. \A c, again, known : Disconnection(c, again, known).op = "disconnect"
    BY DEF Disconnection
  <2>3. \A i \in DOMAIN inbox' : inbox'[i].op \in {"run", "close"} => inbox'[i].tab \in used'
    BY <1>0, <1>1, <2>1, <2>2, AppendTabs
  <2> QED
    BY <1>0, <1>1, <2>1, <2>3 DEF TabInv
<1>5. CASE Run
  <2> DEFINE m == [op |-> "run", id |-> runs + 1, tab |-> active, conn |-> runConnectionId(active, selected)]
  <2>1. inbox' = Append(inbox, m) /\ UNCHANGED <<work, flags, used>>
    BY <1>5 DEF Run, Started, backVars
  <2>2. m.tab = active /\ active \in used
    BY DEF TypeInv, StripInv
  <2> HIDE DEF m
  <2>3. \A i \in DOMAIN inbox' : inbox'[i].op \in {"run", "close"} => inbox'[i].tab \in used'
    BY <1>0, <2>1, <2>2, AppendTabs
  <2> QED
    BY <1>0, <1>1, <2>1, <2>3 DEF TabInv
<1>6. CASE Answer
  <2>1. PICK w \in work : /\ w.op \in {"run", "rollback"} /\ work' = work \ {w}
                          /\ flags' \in {flags, flags \cup {Owner(w)}, flags \ {Owner(w)}} /\ UNCHANGED <<inbox, used>>
    BY <1>6 DEF Answer
  <2>2. Owner(w) \in Files \/ Owner(w) \in used
    <3>1. w.op = "rollback" => w.conn \in Files
      BY WorkIs DEF TypeInv, BackendInv, RollbackWork
    <3> QED
      BY <1>1, <2>1, <3>1 DEF Owner
  <2> QED
    BY <1>0, <1>1, <2>1, <2>2, Distinct DEF TabInv
<1>7. CASE Take
  <2> DEFINE m == inbox[1]
  <2>1. /\ Taken(m) /\ m \in Command /\ 1 \in DOMAIN inbox
        /\ \A j \in DOMAIN inbox' : j + 1 \in DOMAIN inbox /\ inbox'[j] = inbox[j + 1]
    BY <1>7, TakenIs DEF Taken
  <2>2. UNCHANGED <<flags, used>>
    BY <2>1 DEF Taken
  <2>3. m.op \in {"run", "close"} => m.tab \in used
    BY <1>1, <2>1
  <2> HIDE DEF m
  <2>4. \A w \in work' : w.op = "run" => w.tab \in used
    BY <1>1, <2>1, <2>3, TakenWork
  <2> QED
    BY <1>1, <2>1, <2>2, <2>4 DEF TabInv
<1>8. CASE RunEnds
  <2>1. PICK w \in work, effect \in {"begin", "end", "none"}, says \in {"open", "closed", "nothing"} : EndsWith(w, effect, says)
    BY <1>8, RunEndsIs
  <2> DEFINE v == [w EXCEPT !.stage = "answered", !.says = says]
  <2>2. work' = (work \ {w}) \cup {v} /\ w.op = "run"
    BY <2>1 DEF EndsWith
  <2>3. v.tab = w.tab
    BY <2>2, WorkIs DEF TypeInv, BackendInv, RunWork
  <2> HIDE DEF v
  <2>4. UNCHANGED <<inbox, flags, used>>
    BY <1>8 DEF RunEnds, tabVars
  <2> QED
    BY <1>1, <2>2, <2>3, <2>4 DEF TabInv
<1> QED
  BY <1>2, <1>3, <1>4, <1>5, <1>6, <1>7, <1>8, NextIs

(* A tab not used yet leaves no trace. *)
LEMMA Traceless ==
  ASSUME TypeInv, TabInv, SessionInv, NEW t \in TabIds, t \notin used
  PROVE  /\ t \notin flags /\ \A s \in noted : s[1] # t
         /\ \A i \in DOMAIN inbox : ~Mine(inbox[i], t)
         /\ \A w \in work : ~Runs(w, t)
         /\ \A c : <<t, c>> \notin DOMAIN sessions
<1>1. t \notin flags /\ \A s \in noted : s[1] # t
  BY DEF TabInv, TypeInv, WindowInv, StripInv
<1>2. \A i \in DOMAIN inbox : ~Mine(inbox[i], t)
  BY DEF TabInv, Mine
<1>3. \A w \in work : ~Runs(w, t)
  BY DEF TabInv, Runs
<1>4. ASSUME NEW c, <<t, c>> \in DOMAIN sessions PROVE FALSE
  <2>1. <<t, c>> \in noted \/ Sent(CloseSession(<<t, c>>))
    BY <1>4 DEF SessionInv
  <2>2. <<t, c>>[1] = t /\ Mine(CloseSession(<<t, c>>), t)
    BY DEF CloseSession, Mine
  <2> QED
    BY <1>1, <1>2, <2>1, <2>2 DEF Sent
<1> QED
  BY <1>1, <1>2, <1>3, <1>4

(* What a tab's change sends it: the end of a session it had noted. *)
LEMMA RetabsMail ==
  ASSUME TypeInv, NEW s, NEW b, NEW sel, Retabs(s, b, sel), NEW t
  PROVE  /\ \A i \in DOMAIN inbox : i \in DOMAIN inbox' /\ inbox'[i] = inbox[i]
         /\ \A i \in DOMAIN inbox' : Runs(inbox'[i], t) => i \in DOMAIN inbox /\ inbox[i] = inbox'[i]
         /\ (\A p \in noted \ noted' : p[1] # t) => SameMail(t, 0)
         /\ \A p \in noted \ noted' : \E i \in DOMAIN inbox' : inbox'[i] = CloseSession(p)
<1>1. Extends(inbox, inbox', Ends(s, b))
  BY TabsChangeSends DEF Retabs
<1>2. \A i \in DOMAIN inbox : i \in DOMAIN inbox' /\ inbox'[i] = inbox[i]
  BY <1>1 DEF Extends
<1>3. \A i \in DOMAIN inbox' : i \notin DOMAIN inbox => inbox'[i] \in Ends(s, b)
  BY <1>1 DEF Extends
<1>4. \A m \in Ends(s, b) : m.op # "run" /\ (m.op = "close" => \E p \in noted \ noted' : m.tab = p[1])
  BY DEF Ends, CloseSession, RollBack
<1>5. \A p \in noted \ noted' : CloseSession(p) \in Ends(s, b)
  BY DEF Ends
<1>6. \A i \in DOMAIN inbox' : Runs(inbox'[i], t) => i \in DOMAIN inbox /\ inbox[i] = inbox'[i]
  BY <1>2, <1>3, <1>4 DEF Runs
<1>7. ASSUME \A p \in noted \ noted' : p[1] # t PROVE SameMail(t, 0)
  <2>0. DOMAIN inbox = 1..Len(inbox)
    BY DEF TypeInv, WindowInv
  <2>1. \A i \in DOMAIN inbox' : Mine(inbox'[i], t) => i \in DOMAIN inbox
    BY <1>3, <1>4, <1>7 DEF Mine
  <2>2. DOMAIN inbox' \in {1..n : n \in Nat}
    <3>1. inbox' \in Seq(Command)
      BY TabsChangeSends DEF Retabs
    <3> QED
      BY <3>1
  <2>3. \A i \in DOMAIN inbox : i + 0 = i /\ i - 0 = i
    BY <2>0
  <2>4. \A i \in DOMAIN inbox' : i + 0 = i
    BY <2>2
  <2> QED
    BY <1>2, <2>1, <2>3, <2>4 DEF SameMail, Kept
<1>8. \A p \in noted \ noted' : \E i \in DOMAIN inbox' : inbox'[i] = CloseSession(p)
  BY <1>1, <1>5 DEF Extends
<1> QED
  BY <1>2, <1>6, <1>7, <1>8

(* The three things that can happen to a tab that stays and whose flag does not lie. *)
LEMMA RetabsTab ==
  ASSUME TypeInv, ConnInv, NEW s, NEW b, NEW sel, Retabs(s, b, sel), NEW t \in ToSet(s) \cap Open, t \notin muddled',
         Settles(t)
  PROVE  \/ \A p \in noted : p[1] # t
         \/ b[t] = bound[t] /\ <<t, bound[t]>> \in noted' /\ SameNotes(t) /\ (t \in flags <=> t \in flags')
         \/ b[t] # bound[t] /\ (\A p \in noted' : p[1] # t) /\ t \notin flags' /\ ~Busy(t)
            /\ \E i \in DOMAIN inbox' : inbox'[i] = CloseSession(<<t, bound[t]>>)
<1> DEFINE stale == sessionsToClose(ToSet(s), b, sel)
           spared == {p \in noted \ stale : p[1] \in ToSet(s) /\ b[p[1]] \notin {Null, p[2]}}
<1>1. /\ noted' = noted \ stale /\ flags' = flags \ {p[1] : p \in stale}
      /\ muddled' = muddled \cup {x \in {p[1] : p \in stale} : Busy(x)}
                    \cup {f \in connectionsLeft(ToSet(s), b) : FileBusy(f)} \cup {p[1] : p \in spared}
  BY DEF Retabs, TabsChange
<1>2. \A p \in noted : p \in stale <=> (p[1] \notin ToSet(s) \/ (b[p[1]] \notin {Null, p[2]} /\ p[2] # sel))
  BY DEF sessionsToClose
<1>3. stale \subseteq noted
  BY DEF sessionsToClose
<1>4. \A p \in noted : p = <<p[1], p[2]>> /\ p[2] \in Conns
  BY DEF TypeInv, WindowInv
<1> HIDE DEF stale
<1> SUFFICES ASSUME NEW q \in noted, q[1] = t
             PROVE \/ b[t] = bound[t] /\ <<t, bound[t]>> \in noted' /\ SameNotes(t) /\ (t \in flags <=> t \in flags')
                   \/ b[t] # bound[t] /\ (\A p \in noted' : p[1] # t) /\ t \notin flags' /\ ~Busy(t)
                      /\ \E i \in DOMAIN inbox' : inbox'[i] = CloseSession(<<t, bound[t]>>)
  OBVIOUS
<1>5. q = <<t, bound[t]>> /\ bound[t] \in Conns /\ bound[t] # Null /\ \A p \in noted : p[1] = t => p = q
  BY <1>4, Distinct DEF Settles
<1>6. b[t] # Null
  BY <1>5 DEF Retabs
<1>7. CASE b[t] = bound[t]
  <2>1. q \notin stale
    BY <1>2, <1>5, <1>7
  <2>2. \A p \in stale : p[1] # t
    BY <1>3, <1>5, <2>1
  <2>3. SameNotes(t)
    BY <1>1, <2>2 DEF SameNotes
  <2> QED
    BY <1>1, <1>5, <1>7, <2>1, <2>2, <2>3
<1>8. CASE b[t] # bound[t]
  <2>1. b[q[1]] \notin {Null, q[2]}
    BY <1>5, <1>6, <1>8
  <2>2. q \in stale
    <3>1. q \notin stale => q \in spared
      BY <2>1
    <3>2. q \in spared => t \in muddled'
      BY <1>1
    <3> QED
      BY <3>1, <3>2
  <2>3. ~Busy(t)
    BY <1>1, <2>2
  <2>4. t \notin flags' /\ q \notin noted' /\ \A p \in noted' : p[1] # t
    BY <1>1, <1>5, <2>2
  <2>5. \E i \in DOMAIN inbox' : inbox'[i] = CloseSession(q)
    BY <2>4, RetabsMail
  <2> QED
    BY <1>5, <1>8, <2>3, <2>4, <2>5
<1> QED
  BY <1>7, <1>8

(* The same work is the same for a tab. *)
LEMMA SameWorkSame == ASSUME work' = work, NEW t PROVE SameWork(t)
BY DEF SameWork

(* The same inbox is the same for a tab. *)
LEMMA SameInbox == ASSUME TypeInv, inbox' = inbox, NEW t PROVE SameMail(t, 0)
<1>1. DOMAIN inbox = 1..Len(inbox)
  BY DEF TypeInv, WindowInv
<1>2. \A i \in DOMAIN inbox : i + 0 = i /\ i - 0 = i
  BY <1>1
<1> QED
  BY <1>2 DEF SameMail, Kept

(* A turn keeps a tab's flag true. *)
LEMMA TurnFlags ==
  ASSUME TypeInv, TypeInv', ConnInv, TabInv, SessionInv, FlagInv, Turn, NEW t \in Open', t \notin muddled'
  PROVE  TabFlag(t)'
<1>1. UNCHANGED <<work, up, sessions, files>>
  BY DEF Turn, backVars
<1>2. CASE UNCHANGED <<tabVars, used>>
  <2>1. UNCHANGED <<strip, bound, noted, flags, inbox, muddled>> /\ t \in Open /\ TabFlag(t)
    BY <1>2 DEF tabVars, FlagInv, Open
  <2>2. SameMail(t, 0) /\ SameWork(t) /\ SameNotes(t)
    BY <1>1, <2>1, SameWorkSame, SameInbox DEF SameNotes
  <2>3. InTransaction(<<t, bound[t]>>)' <=> InTransaction(<<t, bound[t]>>)
    BY <1>1, <2>1 DEF InTransaction
  <2> QED
    BY <1>1, <2>1, <2>2, <2>3, TabFrame
<1>3. CASE \E s, b, sel : Retabs(s, b, sel)
  <2>1. PICK s, b, sel : Retabs(s, b, sel)
    BY <1>3
  <2>2. /\ strip' = s /\ bound' = b /\ Open' = ToSet(s) /\ flags' \subseteq flags /\ noted' \subseteq noted
        /\ muddled \subseteq muddled'
    BY <2>1 DEF Retabs, TabsChange, Open
  <2>3. /\ \A i \in DOMAIN inbox : i \in DOMAIN inbox' /\ inbox'[i] = inbox[i]
        /\ \A i \in DOMAIN inbox' : Runs(inbox'[i], t) => i \in DOMAIN inbox /\ inbox[i] = inbox'[i]
        /\ (\A p \in noted \ noted' : p[1] # t) => SameMail(t, 0)
    BY <2>1, RetabsMail
  <2>4. SameWork(t)
    BY <1>1, SameWorkSame
  <2>5. t \in TabIds
    BY DEF TypeInv, StripInv, Open, ToSet
  (* A session of a tab that notes none is about to be closed. *)
  <2>6. \A c : <<t, c>> \in DOMAIN sessions' =>
          <<t, c>> \in noted \/ \E i \in DOMAIN inbox' : inbox'[i] = CloseSession(<<t, c>>)
    BY <1>1, <2>3 DEF SessionInv, Sent
  <2>7. CASE t \notin Open
    <3>1. t \notin used
      BY <2>1, <2>2, <2>7 DEF Retabs
    <3>2. /\ t \notin flags /\ \A p \in noted : p[1] # t
          /\ \A i \in DOMAIN inbox : ~Mine(inbox[i], t)
          /\ \A w \in work : ~Runs(w, t)
          /\ \A c : <<t, c>> \notin DOMAIN sessions
      BY <2>5, <3>1, Traceless
    <3>3. \A i \in DOMAIN inbox' : ~Runs(inbox'[i], t)
      BY <2>3, <3>2 DEF Mine, Runs
    <3>4. OneRun(t)' /\ ClosedFirst(t)'
      BY <1>1, <2>2, <3>2, <3>3, Idle
    <3> QED
      BY <1>1, <2>2, <3>2, <3>3, <3>4, Bare
  <2>8. CASE t \in Open
    <3>1. TabFlag(t)
      BY <2>2, <2>8 DEF FlagInv
    <3>2. CASE \A p \in noted : p[1] # t
      <4>1. t \notin flags
        <5>1. <<t, bound[t]>>[1] = t
          OBVIOUS
        <5> QED
          BY <3>1, <3>2, <5>1 DEF TabFlag, Settles
      <4>2. /\ \A i \in DOMAIN inbox : Runs(inbox[i], t) => inbox[i].conn \notin Servers
            /\ \A w \in work : Runs(w, t) => w.conn \notin Servers
        <5>1. <<t, bound[t]>>[1] = t
          OBVIOUS
        <5> QED
          BY <3>1, <3>2, <5>1 DEF TabFlag, Homely
      <4>3. OneRun(t)' /\ ClosedFirst(t)'
        BY <2>2, <2>3, <2>4, <3>1, <3>2, MailFrame DEF TabFlag
      <4>4. \A i \in DOMAIN inbox' : Runs(inbox'[i], t) => inbox'[i].conn \notin Servers
        BY <2>3, <4>2
      <4>5. <<t, bound'[t]>> \in DOMAIN sessions' => \E i \in DOMAIN inbox' : inbox'[i] = CloseSession(<<t, bound'[t]>>)
        <5>1. <<t, bound'[t]>>[1] = t
          OBVIOUS
        <5> QED
          BY <2>6, <3>2, <5>1
      <4> QED
        BY <1>1, <2>2, <3>2, <4>1, <4>2, <4>3, <4>4, <4>5, Bare
    <3>3. CASE b[t] = bound[t] /\ <<t, bound[t]>> \in noted' /\ SameNotes(t) /\ (t \in flags <=> t \in flags')
      <4>1. SameMail(t, 0)
        BY <2>3, <3>3 DEF SameNotes
      <4>2. InTransaction(<<t, bound[t]>>)' <=> InTransaction(<<t, bound[t]>>)
        BY <1>1, <2>2, <3>3 DEF InTransaction
      <4> QED
        BY <1>1, <2>2, <2>4, <3>1, <3>3, <4>1, <4>2, TabFrame
    <3>4. CASE b[t] # bound[t] /\ (\A p \in noted' : p[1] # t) /\ t \notin flags' /\ ~Busy(t)
               /\ \E i \in DOMAIN inbox' : inbox'[i] = CloseSession(<<t, bound[t]>>)
      <4>1. (\A i \in DOMAIN inbox : ~Runs(inbox[i], t)) /\ (\A w \in work : ~Runs(w, t))
        BY <3>4 DEF Busy, Pending, Runs
      <4>2. \A i \in DOMAIN inbox' : ~Runs(inbox'[i], t)
        BY <2>3, <4>1
      <4>3. OneRun(t)' /\ ClosedFirst(t)'
        BY <1>1, <3>4, <4>1, <4>2, Idle
      <4>4. <<t, bound'[t]>> \in DOMAIN sessions' => \E i \in DOMAIN inbox' : inbox'[i] = CloseSession(<<t, bound'[t]>>)
        <5>1. <<t, b[t]>>[1] = t /\ <<t, b[t]>>[2] = b[t]
          OBVIOUS
        <5>2. <<t, b[t]>> \notin noted
          BY <3>1, <3>4, <5>1 DEF TabFlag, Settles
        <5> QED
          BY <2>2, <2>6, <5>2
      <4> QED
        BY <1>1, <3>4, <4>1, <4>2, <4>3, <4>4, Bare
    <3> QED
      BY <2>1, <2>2, <2>8, <3>1, <3>2, <3>3, <3>4, RetabsTab DEF TabFlag
  <2> QED
    BY <2>7, <2>8
<1> QED
  BY <1>2, <1>3 DEF Turn

(* A command that is not the tab's leaves its mail as it was. *)
LEMMA AppendMail ==
  ASSUME TypeInv, NEW m, inbox' = Append(inbox, m), NEW t, ~Mine(m, t)
  PROVE  SameMail(t, 0)
<1>1. inbox \in Seq(Command \cup {m}) /\ DOMAIN inbox = 1..Len(inbox)
  BY DEF TypeInv, WindowInv
<1>2. inbox' \in Seq(Command \cup {m}) /\ Extends(inbox, inbox', {m})
  BY <1>1, AppendExtends
<1>3. \A i \in DOMAIN inbox' : i + 0 = i /\ i - 0 = i
  BY <1>2
<1>4. \A i \in DOMAIN inbox : i + 0 = i /\ i - 0 = i
  BY <1>1
<1> QED
  BY <1>2, <1>3, <1>4 DEF SameMail, Kept, Extends

(* Connects, disconnects and their answers keep a tab's flag true. *)
LEMMA QuietFlags ==
  ASSUME TypeInv, TypeInv', ConnInv, FlagInv, [Next]_vars,
         connect \/ cancelConnect \/ Connects \/ Disconnected \/ disconnect \/ handleReconnect \/ ReconnectConfirmed
           \/ (\E a \in attempts : GivesUp(a)) \/ UNCHANGED vars,
         NEW t \in Open', t \notin muddled'
  PROVE  TabFlag(t)'
<1>1. UNCHANGED <<strip, bound, noted, sessions>> /\ muddled \subseteq muddled'
  BY DEF connect, cancelConnect, Connects, Disconnected, disconnect, handleReconnect, ReconnectConfirmed,
         confirmPendingSwitch, GivesUp, vars, tabVars, backVars, SendDisconnect
<1>2. t \in Open /\ TabFlag(t) /\ t \in TabIds
  BY <1>1 DEF FlagInv, Open, TypeInv, StripInv, ToSet
<1>3. inbox' = inbox \/ \E c, again, known : inbox' = Append(inbox, Disconnection(c, again, known))
  BY DEF connect, cancelConnect, Connects, Disconnected, disconnect, handleReconnect, ReconnectConfirmed,
         confirmPendingSwitch, GivesUp, vars, tabVars, SendDisconnect
<1>4. SameMail(t, 0)
  <2>1. \A c, again, known : ~Mine(Disconnection(c, again, known), t)
    BY DEF Disconnection, Mine
  <2> QED
    BY <1>3, <2>1, AppendMail, SameInbox
<1>5. SameWork(t)
  <2>1. work' = work \/ \E w \in work : w.op = "disconnect" /\ work' = work \ {w}
    BY DEF connect, cancelConnect, Connects, Disconnected, disconnect, handleReconnect, ReconnectConfirmed,
           confirmPendingSwitch, GivesUp, vars, backVars
  <2> QED
    BY <2>1 DEF SameWork, Runs
<1>6. SameNotes(t) /\ (InTransaction(<<t, bound[t]>>)' <=> InTransaction(<<t, bound[t]>>))
  BY <1>1 DEF SameNotes, InTransaction
<1>7. bound[t] \in Servers /\ bound[t] \in up' => bound[t] \in up
  <2>1. up' = up \/ \E a \in attempts : up' = up \cup {a.conn}
    BY DEF connect, cancelConnect, Connects, Disconnected, disconnect, handleReconnect, ReconnectConfirmed,
           confirmPendingSwitch, GivesUp, vars, backVars
  <2>2. bound[t] \in Servers => \A a \in attempts : a.conn # bound[t]
    BY <1>2, Distinct DEF ConnInv, Known
  <2> QED
    BY <2>1, <2>2
<1>8. /\ t \in flags' => t \in flags
      /\ bound[t] \in up' \cap Servers /\ t \in flags => t \in flags'
  <2>1. CASE Disconnected
    <3>1. PICK w \in work : w.op = "disconnect" /\ flags' \in {flags, flags \ {x \in Open : bound[x] = w.conn}} /\ up' = up
      BY <2>1 DEF Disconnected
    <3>2. w.conn \notin up
      BY <3>1 DEF ConnInv
    <3> QED
      BY <3>1, <3>2
  <2>2. CASE disconnect
    BY <1>2, <2>2, Distinct DEF disconnect
  <2>3. CASE ~Disconnected /\ ~disconnect
    <3>1. flags' = flags
      BY <2>3 DEF connect, cancelConnect, Connects, handleReconnect, ReconnectConfirmed,
           confirmPendingSwitch, GivesUp, vars, tabVars
    <3> QED
      BY <3>1
  <2> QED
    BY <2>1, <2>2, <2>3
<1> QED
  BY <1>1, <1>2, <1>4, <1>5, <1>6, <1>7, <1>8, TabFrame

(* A run sent keeps a tab's flag true: there was none, and its session is noted. *)
LEMMA RunFlags ==
  ASSUME TypeInv, TypeInv', ConnInv, SessionInv, FlagInv, Run, NEW t \in Open', t \notin muddled'
  PROVE  TabFlag(t)'
<1> DEFINE c == runConnectionId(active, selected)
           m == [op |-> "run", id |-> runs + 1, tab |-> active, conn |-> c]
<1>1. /\ c # Null /\ bound' = IF bound[active] = Null THEN Bind(active, c) ELSE bound
      /\ inbox' = Append(inbox, m)
      /\ noted' = noted \cup IF c \in Files \cap live THEN {} ELSE {<<active, c>>}
      /\ muddled' = muddled \cup {x \in {active} : Busy(active) \/ bound'[active] # c}
                            \cup {f \in {c} \cap Files : FileBusy(f)}
      /\ UNCHANGED <<strip, flags, work, up, sessions>>
  BY DEF Run, Started, backVars
<1>2. m.op = "run" /\ m.tab = active /\ m.conn = c
  OBVIOUS
<1> HIDE DEF c, m
<1>3. t \in Open /\ TabFlag(t) /\ bound \in [Open -> Conns \cup {Null}] /\ active \in Open
  BY <1>1 DEF FlagInv, Open, TypeInv, StripInv
<1>4. \A p \in noted : p = <<p[1], p[2]>> /\ p[2] \in Conns /\ p[2] # Null
  BY Distinct DEF TypeInv, WindowInv
<1>5. SameWork(t)
  BY <1>1, SameWorkSame
<1>6. CASE t # active
  <2>1. SameMail(t, 0)
    BY <1>1, <1>2, <1>6, AppendMail DEF Mine
  <2>2. bound'[t] = bound[t]
    BY <1>1, <1>3, <1>6 DEF Bind
  <2>3. SameNotes(t)
    <3>1. <<active, c>>[1] = active
      OBVIOUS
    <3> QED
      BY <1>1, <1>6, <3>1 DEF SameNotes
  <2>4. InTransaction(<<t, bound[t]>>)' <=> InTransaction(<<t, bound[t]>>)
    BY <1>1, <2>2 DEF InTransaction
  <2> QED
    BY <1>1, <1>3, <1>5, <2>1, <2>2, <2>3, <2>4, TabFrame
<1>7. CASE t = active
  <2>1. ~Busy(t) /\ bound'[t] = c
    BY <1>1, <1>7
  <2>2. (\A i \in DOMAIN inbox : ~Runs(inbox[i], t)) /\ (\A w \in work : ~Runs(w, t))
    BY <2>1 DEF Busy, Pending, Runs
  <2>3. bound[t] = Null \/ bound[t] = c
    BY <1>1, <1>7, <2>1
  <2>4. bound[t] = Null => t \notin flags /\ \A p \in noted : p[1] # t
    <3>1. <<t, bound[t]>>[2] = bound[t]
      OBVIOUS
    <3> QED
      BY <1>3, <1>4, <3>1 DEF TabFlag, Settles
  <2>5. Settles(t)'
    <3>1. <<active, c>>[1] = active /\ <<active, c>>[2] = c
      OBVIOUS
    <3>2. \A s \in noted' : s[1] = t => s[2] = c
      BY <1>1, <1>3, <2>3, <2>4, <3>1 DEF TabFlag, Settles
    <3>3. t \in flags => <<t, c>> \in noted'
      BY <1>1, <1>3, <2>3, <2>4 DEF TabFlag, Settles
    <3> QED
      BY <1>1, <2>1, <3>2, <3>3 DEF Settles
  <2>6. /\ DOMAIN inbox = 1..Len(inbox) /\ Len(inbox) \in Nat /\ DOMAIN inbox' = 1..(Len(inbox) + 1)
        /\ inbox'[Len(inbox) + 1] = m /\ \A i \in 1..Len(inbox) : inbox'[i] = inbox[i]
    <3>1. inbox \in Seq(Command \cup {m})
      BY DEF TypeInv, WindowInv
    <3> QED
      BY <1>1, <3>1
  <2>7. \A i \in DOMAIN inbox' : i \in DOMAIN inbox \/ i = Len(inbox) + 1
    BY <2>6
  <2>8. \A i \in DOMAIN inbox' : Runs(inbox'[i], t) => i = Len(inbox) + 1 /\ inbox'[i] = m
    BY <2>2, <2>6, <2>7
  <2>9. OneRun(t)'
    <3>1. \A i, j \in DOMAIN inbox' : Runs(inbox'[i], t) /\ Runs(inbox'[j], t) => i = j
      BY <2>8
    <3> QED
      BY <1>1, <2>2, <3>1 DEF OneRun, Runs
  <2>10. Homely(t)'
    <3>1. c \in Servers => <<t, c>> \in noted'
      BY <1>1, <1>7, Distinct
    <3>2. \A i \in DOMAIN inbox' : Runs(inbox'[i], t) /\ inbox'[i].conn \in Servers
            => inbox'[i].conn = bound'[t] /\ <<t, bound'[t]>> \in noted'
      BY <1>2, <2>1, <2>8, <3>1
    <3> QED
      BY <1>1, <2>2, <3>2 DEF Homely, Runs
  <2>11. ClosedFirst(t)'
    <3>1. ASSUME NEW i \in DOMAIN inbox', Closes(inbox'[i], t)
          PROVE  t \notin flags' /\ \A j \in DOMAIN inbox' : Runs(inbox'[j], t) => i < j
      <4>1. i \in DOMAIN inbox /\ inbox'[i] = inbox[i]
        BY <1>2, <2>6, <2>7, <3>1 DEF Closes
      <4>2. t \notin flags
        BY <1>3, <3>1, <4>1 DEF TabFlag, ClosedFirst
      <4>3. i < Len(inbox) + 1
        BY <2>6, <4>1
      <4> QED
        BY <1>1, <2>8, <4>2, <4>3
    <3> QED
      BY <1>1, <2>2, <3>1 DEF ClosedFirst, Runs, Closes
  <2>12. Truth(t)'
    <3> SUFFICES ASSUME c \in up \cap Servers, ~\E i \in DOMAIN inbox' : inbox'[i] = CloseSession(<<t, c>>)
                 PROVE  t \in flags <=> <<t, c>> \in DOMAIN sessions /\ sessions[<<t, c>>]
      BY <1>1, <2>1, <2>2 DEF Truth, Sent, CloseSession, InTransaction, Runs
    <3>1. ~Sent(CloseSession(<<t, c>>))
      BY <2>6 DEF Sent
    <3>2. CASE bound[t] = c
      BY <1>3, <2>2, <3>1, <3>2 DEF TabFlag, Truth, InTransaction
    <3>3. CASE bound[t] = Null
      <4>1. <<t, c>>[1] = t
        OBVIOUS
      <4>2. <<t, c>> \notin DOMAIN sessions
        BY <2>4, <3>1, <3>3, <4>1 DEF SessionInv
      <4> QED
        BY <2>4, <3>3, <4>2
    <3> QED
      BY <2>3, <3>2, <3>3
  <2> QED
    BY <2>5, <2>9, <2>10, <2>11, <2>12 DEF TabFlag
<1> QED
  BY <1>6, <1>7

(* A run at work is the only one of its tab, and no close waits behind it. *)
LEMMA Alone ==
  ASSUME NEW t, OneRun(t), ClosedFirst(t), NEW w \in work, Runs(w, t)
  PROVE  /\ \A v \in work : Runs(v, t) => v = w
         /\ \A i \in DOMAIN inbox : ~Runs(inbox[i], t) /\ ~Closes(inbox[i], t)
BY DEF OneRun, ClosedFirst

(* An answer keeps a tab's flag true: it sets the flag to what it says. *)
LEMMA AnswerFlags ==
  ASSUME TypeInv, TypeInv', FlagInv, Answer, NEW t \in Open', t \notin muddled'
  PROVE  TabFlag(t)'
<1>1. PICK w \in work :
        /\ w.op \in {"run", "rollback"} /\ w.stage = "answered" /\ work' = work \ {w}
        /\ flags' = CASE w.says = "open" -> flags \cup {Owner(w)} [] w.says = "closed" -> flags \ {Owner(w)} [] OTHER -> flags
        /\ muddled \subseteq muddled'
  BY DEF Answer
<1>2. UNCHANGED <<strip, bound, noted, inbox, up, sessions>>
  BY DEF Answer
<1>3. t \in Open /\ TabFlag(t) /\ t \in TabIds
  BY <1>1, <1>2 DEF FlagInv, Open, TypeInv, StripInv, ToSet
<1>4. /\ w.op = "rollback" => w.conn \in Files
      /\ w.op = "run" => w.says \in {"open", "closed", "nothing"} /\ w.conn \in Conns
  BY WorkIs DEF TypeInv, BackendInv, RollbackWork, RunWork
<1>5. SameMail(t, 0) /\ SameNotes(t)
  BY <1>2, SameInbox DEF SameNotes
<1>6. InTransaction(<<t, bound[t]>>)' <=> InTransaction(<<t, bound[t]>>)
  BY <1>2 DEF InTransaction
<1>7. CASE ~Runs(w, t)
  <2>1. Owner(w) # t
    BY <1>1, <1>3, <1>4, <1>7, Distinct DEF Owner, Runs
  <2>2. t \in flags' <=> t \in flags
    BY <1>1, <2>1
  <2>3. SameWork(t)
    BY <1>1, <1>7 DEF SameWork
  <2> QED
    BY <1>2, <1>3, <1>5, <1>6, <2>2, <2>3, TabFrame
<1>8. CASE Runs(w, t)
  <2>1. /\ \A v \in work : Runs(v, t) => v = w
        /\ \A i \in DOMAIN inbox : ~Runs(inbox[i], t) /\ ~Closes(inbox[i], t)
    BY <1>3, <1>8, Alone DEF TabFlag
  <2>2. /\ \A v \in work' : ~Runs(v, t)
        /\ \A i \in DOMAIN inbox' : ~Runs(inbox'[i], t) /\ ~Closes(inbox'[i], t)
    BY <1>1, <1>2, <2>1
  <2>3. OneRun(t)' /\ ClosedFirst(t)' /\ Homely(t)'
    BY <2>2 DEF OneRun, ClosedFirst, Homely, Runs, Closes
  <2>4. /\ w.conn \in Servers => Owner(w) = t
        /\ w.conn \notin Servers => t # Owner(w)
    BY <1>3, <1>4, <1>8, Distinct DEF Owner, Runs
  <2>5. Settles(t)'
    <3>1. w.conn \in Servers => <<t, bound[t]>> \in noted
      BY <1>3, <1>8 DEF TabFlag, Homely
    <3>2. t \in flags' => t \in flags \/ w.conn \in Servers
      BY <1>1, <2>4
    <3> QED
      BY <1>2, <1>3, <3>1, <3>2 DEF TabFlag, Settles
  <2>6. Truth(t)'
    <3> SUFFICES ASSUME bound[t] \in up \cap Servers, ~Sent(CloseSession(<<t, bound[t]>>))
                 PROVE  t \in flags' <=> InTransaction(<<t, bound[t]>>)
      BY <1>2, <1>6, <2>2 DEF Truth, Sent, CloseSession, Runs
    <3>1. CASE w.conn \in Servers
      <4>1. /\ w.says = "open" => InTransaction(<<t, bound[t]>>)
            /\ w.says = "closed" => ~InTransaction(<<t, bound[t]>>)
            /\ w.says = "nothing" => (t \in flags <=> InTransaction(<<t, bound[t]>>))
        BY <1>1, <1>3, <1>8, <3>1 DEF TabFlag, Truth
      <4> QED
        BY <1>1, <1>4, <1>8, <2>4, <3>1, <4>1 DEF Runs
    <3>2. CASE w.conn \notin Servers
      <4>1. t \in flags <=> InTransaction(<<t, bound[t]>>)
        BY <1>3, <2>1, <3>2 DEF TabFlag, Truth
      <4> QED
        BY <1>1, <2>4, <3>2, <4>1
    <3> QED
      BY <3>1, <3>2
  <2> QED
    BY <2>3, <2>5, <2>6 DEF TabFlag
<1> QED
  BY <1>7, <1>8

(* A statement's end keeps a tab's flag true: what it says is what there is. *)
LEMMA RunEndsFlags ==
  ASSUME TypeInv, TypeInv', FlagInv, RunEnds, NEW t \in Open', t \notin muddled'
  PROVE  TabFlag(t)'
<1>1. PICK w \in work, effect \in {"begin", "end", "none"}, says \in {"open", "closed", "nothing"} :
        EndsWith(w, effect, says)
  BY RunEndsIs
<1>2. UNCHANGED <<strip, bound, noted, flags, inbox, muddled, up>>
  BY DEF RunEnds, tabVars
<1>3. t \in Open /\ TabFlag(t) /\ t \in TabIds
  BY <1>2 DEF FlagInv, Open, TypeInv, StripInv, ToSet
<1> DEFINE v == [w EXCEPT !.stage = "answered", !.says = says]
<1>4. /\ w.op = "run" /\ w.stage = "begun" /\ work' = (work \ {w}) \cup {v}
      /\ sessions' = IF w.conn \in Files \/ ~w.attached THEN sessions
                     ELSE [sessions EXCEPT ![<<w.tab, w.conn>>] = After(w, effect)]
  BY <1>1 DEF EndsWith
<1>5. /\ v.op = "run" /\ v.tab = w.tab /\ v.conn = w.conn /\ v.stage = "answered" /\ v.says = says
      /\ w.conn \in Conns
  BY <1>4, WorkIs DEF TypeInv, BackendInv, RunWork
<1> HIDE DEF v
<1>6. sessions \in [DOMAIN sessions -> BOOLEAN]
  BY DEF TypeInv, BackendInv
<1>7. SameMail(t, 0) /\ SameNotes(t)
  BY <1>2, SameInbox DEF SameNotes
<1>8. CASE ~Runs(w, t)
  <2>1. ~Runs(v, t) /\ w.tab # t
    BY <1>4, <1>5, <1>8 DEF Runs
  <2>2. SameWork(t)
    BY <1>4, <1>8, <2>1 DEF SameWork
  <2>3. <<t, bound[t]>> # <<w.tab, w.conn>>
    BY <2>1
  <2>4. /\ <<t, bound[t]>> \in DOMAIN sessions' <=> <<t, bound[t]>> \in DOMAIN sessions
        /\ <<t, bound[t]>> \in DOMAIN sessions => sessions'[<<t, bound[t]>>] = sessions[<<t, bound[t]>>]
    BY <1>4, <1>6, <2>3
  <2>5. InTransaction(<<t, bound[t]>>)' <=> InTransaction(<<t, bound[t]>>)
    BY <1>2, <2>4 DEF InTransaction
  <2> QED
    BY <1>2, <1>3, <1>7, <2>2, <2>5, TabFrame
<1>9. CASE Runs(w, t)
  <2>1. /\ \A x \in work : Runs(x, t) => x = w
        /\ \A i \in DOMAIN inbox : ~Runs(inbox[i], t) /\ ~Closes(inbox[i], t)
    BY <1>3, <1>9, Alone DEF TabFlag
  <2>2. \A x \in work' : Runs(x, t) => x = v
    BY <1>4, <2>1
  <2>3. OneRun(t)' /\ ClosedFirst(t)'
    BY <1>2, <2>1, <2>2 DEF OneRun, ClosedFirst, Runs, Closes
  <2>4. Homely(t)'
    <3>1. w.conn \in Servers => w.conn = bound[t] /\ <<t, bound[t]>> \in noted
      BY <1>3, <1>9 DEF TabFlag, Homely
    <3> QED
      BY <1>2, <1>5, <2>1, <2>2, <3>1 DEF Homely, Begun, Runs
  <2>5. Settles(t)'
    BY <1>2, <1>3 DEF TabFlag, Settles
  <2>6. Truth(t)'
    <3> DEFINE now == <<t, bound[t]>> \in DOMAIN sessions' /\ sessions'[<<t, bound[t]>>]
    <3>0. v \in work' /\ Runs(v, t)
      BY <1>4, <1>5, <1>9 DEF Runs
    <3> SUFFICES ASSUME bound[t] \in up \cap Servers, ~Sent(CloseSession(<<t, bound[t]>>))
                 PROVE  /\ w.conn \notin Servers => (t \in flags <=> now)
                        /\ w.conn \in Servers => /\ says = "open" => now
                                                 /\ says = "closed" => ~now
                                                 /\ says = "nothing" => (t \in flags <=> now)
      BY <1>2, <1>5, <2>2, <3>0 DEF Truth, Sent, CloseSession, Runs, InTransaction
    <3>1. t \in flags <=> InTransaction(<<t, bound[t]>>)
      BY <1>3, <1>4, <2>1 DEF TabFlag, Truth
    <3>2. CASE w.conn \notin Servers
      <4>1. sessions' = sessions
        BY <1>4, <1>5, <3>2, Distinct
      <4> QED
        BY <3>1, <3>2, <4>1 DEF InTransaction
    <3>3. CASE w.conn \in Servers
      <4>1. w.conn = bound[t] /\ w.attached /\ w.tab = t /\ w.conn \notin Files
        BY <1>3, <1>4, <1>9, <3>3, Distinct DEF TabFlag, Homely, Begun, Runs
      <4>2. <<t, bound[t]>> \in DOMAIN sessions
        BY <1>4, <4>1 DEF TypeInv, BackendInv, Begun
      <4>3. DOMAIN sessions' = DOMAIN sessions /\ sessions'[<<t, bound[t]>>] = After(w, effect)
        BY <1>4, <1>6, <4>1, <4>2
      <4>4. Before(w) <=> InTransaction(<<t, bound[t]>>)
        BY <4>1, <4>2 DEF Before, InTransaction
      <4>5. /\ says = "open" => After(w, effect)
            /\ says = "closed" => ~After(w, effect)
            /\ says = "nothing" => (After(w, effect) <=> Before(w))
        BY <1>1, <4>1 DEF EndsWith, After
      <4> QED
        BY <3>1, <3>3, <4>2, <4>3, <4>4, <4>5
    <3> QED
      BY <3>2, <3>3
  <2> QED
    BY <2>3, <2>4, <2>5, <2>6 DEF TabFlag
<1> QED
  BY <1>8, <1>9

(* The inbox once its first command is taken, for a tab that command is not about. *)
LEMMA TakenMail ==
  ASSUME TypeInv, ~Overtakes, Take, NEW t
  PROVE  /\ Kept(t, 1) /\ (~Mine(inbox[1], t) => SameMail(t, 1))
         /\ \A x : Sent(x) /\ x # inbox[1] => \E i \in DOMAIN inbox' : inbox'[i] = x
<1>1. /\ \A j \in DOMAIN inbox' : j + 1 \in DOMAIN inbox /\ inbox'[j] = inbox[j + 1]
      /\ \A j \in DOMAIN inbox : j # 1 => j - 1 \in DOMAIN inbox' /\ inbox'[j - 1] = inbox[j]
  BY TakenIs
<1> QED
  BY <1>1 DEF Kept, SameMail, Sent

(* Detaching statements that are not the tab's leaves its work as it was. *)
LEMMA DetachedWork ==
  ASSUME work \subseteq Work, NEW X, NEW t, \A w \in X : Runs(w, t) => ~Begun(w)
  PROVE  \A w : Runs(w, t) => (w \in work <=> w \in DetachedOf(X))
<1>1. \A v \in DetachedOf(X) : \E w \in work : Becomes(w, v, X)
  BY DetachedIs
<1>2. \A w \in work : \E v \in DetachedOf(X) : Becomes(w, v, X)
  BY DetachedIs
<1>3. ASSUME NEW w \in work, NEW v, Becomes(w, v, X), Runs(w, t) \/ Runs(v, t) PROVE v = w
  <2>1. Runs(w, t)
    BY <1>3 DEF Becomes, Runs
  <2> QED
    BY <1>3, <2>1 DEF Becomes
<1> QED
  BY <1>1, <1>2, <1>3

(* One statement detached is one statement. *)
LEMMA DetachedOnce ==
  ASSUME work \subseteq Work, NEW X, NEW u \in DetachedOf(X), NEW v \in DetachedOf(X),
         NEW w \in work, w.op = "run", Becomes(w, u, X), Becomes(w, v, X)
  PROVE  u = v
<1>1. u \in Work /\ v \in Work
  BY DetachedIs
<1>2. CASE ~(Begun(w) /\ w \in X)
  BY <1>2 DEF Becomes
<1>3. CASE Begun(w) /\ w \in X
  <2>1. u.op = "run" /\ v.op = "run" /\ u.attached = v.attached /\ u.tab = v.tab /\ u.conn = v.conn
        /\ u.stage = v.stage /\ u.says = v.says /\ u.id = v.id
    BY <1>3 DEF Becomes
  <2>2. u \in RunWork /\ v \in RunWork
    BY <1>1, <2>1, WorkIs
  <2> QED
    BY <2>1, <2>2 DEF RunWork
<1> QED
  BY <1>2, <1>3

(* A run taken up keeps a tab's flag true. *)
LEMMA TakeRunFlag ==
  ASSUME TypeInv, TypeInv', ~Overtakes, Take, NEW t \in TabIds, TabFlag(t),
         NEW m \in RunCommand, m = inbox[1], 1 \in DOMAIN inbox, TakeRun(m), UNCHANGED <<bound, noted, flags>>
  PROVE  TabFlag(t)'
<1> DEFINE s == RunTaken(m)
<1>1. work' = work \cup {s} /\ UNCHANGED <<up, files>>
      /\ \/ m.conn \notin up \cap Servers /\ sessions' = sessions
         \/ m.conn \in up \cap Servers /\ <<m.tab, m.conn>> \in DOMAIN sessions /\ sessions' = sessions
         \/ /\ m.conn \in up \cap Servers /\ <<m.tab, m.conn>> \notin DOMAIN sessions
            /\ DOMAIN sessions' = DOMAIN sessions \cup {<<m.tab, m.conn>>}
            /\ sessions'[<<m.tab, m.conn>>] = FALSE
            /\ \A x \in DOMAIN sessions : sessions'[x] = sessions[x]
  BY TakeRunIs
<1>2. /\ s.op = "run" /\ s.tab = m.tab /\ s.conn = m.conn /\ s.attached = TRUE /\ s.says = "nothing"
      /\ s.stage = IF m.conn \in up THEN "begun" ELSE "answered"
      /\ m.op = "run"
  BY DEF RunTaken, RunCommand
<1> HIDE DEF s
(* No session begins or ends a transaction, and none is known to be in one that is not. *)
<1>3. InTransaction(<<t, bound[t]>>)' <=> InTransaction(<<t, bound[t]>>)
  <2> DEFINE p == <<t, bound[t]>>
  <2>1. (p \in DOMAIN sessions' /\ sessions'[p]) <=> (p \in DOMAIN sessions /\ sessions[p])
    BY <1>1
  <2> QED
    BY <2>1 DEF InTransaction
<1>4. CASE m.tab # t
  <2>1. SameMail(t, 1)
    BY <1>4, TakenMail DEF Mine
  <2>2. SameWork(t)
    BY <1>1, <1>2, <1>4 DEF SameWork, Runs
  <2>3. SameNotes(t)
    BY DEF SameNotes
  <2> QED
    BY <1>1, <1>3, <2>1, <2>2, <2>3, TabFrame
<1>5. CASE m.tab = t
  <2>1. Runs(m, t) /\ Runs(s, t)
    BY <1>2, <1>5 DEF Runs
  <2>2. /\ \A i \in DOMAIN inbox : Runs(inbox[i], t) => i = 1
        /\ \A w \in work : ~Runs(w, t)
    BY <2>1 DEF TabFlag, OneRun
  <2>3. \A i \in DOMAIN inbox : ~Closes(inbox[i], t)
    <3>1. DOMAIN inbox = 1..Len(inbox)
      BY DEF TypeInv, WindowInv
    <3>2. \A i \in DOMAIN inbox : Closes(inbox[i], t) => i < 1
      BY <2>1 DEF TabFlag, ClosedFirst
    <3> QED
      BY <3>1, <3>2
  <2>4. \A i \in DOMAIN inbox' : i + 1 \in DOMAIN inbox /\ inbox'[i] = inbox[i + 1] /\ i + 1 # 1
    <3>1. DOMAIN inbox' = 1..Len(inbox')
      BY DEF TypeInv, WindowInv
    <3> QED
      BY <3>1, TakenIs
  <2>5. \A i \in DOMAIN inbox' : ~Runs(inbox'[i], t) /\ ~Closes(inbox'[i], t)
    BY <2>2, <2>3, <2>4
  <2>6. \A w \in work' : Runs(w, t) <=> w = s
    BY <1>1, <2>1, <2>2
  <2>7. OneRun(t)' /\ ClosedFirst(t)'
    BY <2>5, <2>6 DEF OneRun, ClosedFirst, Runs, Closes
  <2>8. Homely(t)'
    <3>1. m.conn \in Servers => m.conn = bound[t] /\ <<t, bound[t]>> \in noted
      BY <2>1 DEF TabFlag, Homely
    <3> QED
      BY <1>2, <2>5, <2>6, <3>1 DEF Homely, Runs
  <2>9. Settles(t)'
    BY DEF TabFlag, Settles
  <2>10. Truth(t)'
    <3> SUFFICES ASSUME bound[t] \in up \cap Servers
                 PROVE  /\ t \in flags <=> InTransaction(<<t, bound[t]>>)
                        /\ s.conn \in Servers => s.stage = "begun"
      BY <1>1, <1>2, <1>3, <2>6 DEF Truth, Runs
    <3>1. ~Sent(CloseSession(<<t, bound[t]>>))
      <4>1. Closes(CloseSession(<<t, bound[t]>>), t)
        BY DEF Closes, CloseSession
      <4> QED
        BY <2>3, <4>1 DEF Sent
    <3>2. m.conn \in Servers => m.conn = bound[t]
      BY <2>1 DEF TabFlag, Homely
    <3> QED
      BY <1>2, <2>2, <3>1, <3>2 DEF TabFlag, Truth
  <2> QED
    BY <2>7, <2>8, <2>9, <2>10 DEF TabFlag
<1> QED
  BY <1>4, <1>5

(* A session's end taken up keeps a tab's flag true. *)
LEMMA TakeCloseFlag ==
  ASSUME TypeInv, TypeInv', ~Overtakes, Take, NEW t \in TabIds, TabFlag(t),
         NEW m \in CloseCommand, m = inbox[1], 1 \in DOMAIN inbox, close_session(m), UNCHANGED <<bound, noted, flags>>
  PROVE  TabFlag(t)'
<1> DEFINE X == {w \in work : w.tab = m.tab /\ w.conn = m.conn}
           gone == <<m.tab, m.conn>>
<1>1. work' = DetachedOf(X) /\ sessions' = Restrict(sessions, DOMAIN sessions \ {gone}) /\ UNCHANGED <<up, files>>
  BY CloseSessionIs
<1>2. DOMAIN sessions' = DOMAIN sessions \ {gone} /\ \A p \in DOMAIN sessions' : sessions'[p] = sessions[p]
  BY <1>1 DEF Restrict
<1>3. work \subseteq Work /\ m.op = "close"
  BY DEF TypeInv, BackendInv, CloseCommand
<1>4. CASE m.tab # t
  <2>1. SameMail(t, 1)
    BY <1>4, TakenMail DEF Mine
  <2>2. \A w \in X : ~Runs(w, t)
    BY <1>4 DEF Runs
  <2> HIDE DEF X
  <2>3. SameWork(t)
    BY <1>1, <1>3, <2>2, DetachedWork DEF SameWork
  <2>4. <<t, bound[t]>> # gone
    BY <1>4
  <2>5. InTransaction(<<t, bound[t]>>)' <=> InTransaction(<<t, bound[t]>>)
    <3> DEFINE p == <<t, bound[t]>>
    <3>1. (p \in DOMAIN sessions' /\ sessions'[p]) <=> (p \in DOMAIN sessions /\ sessions[p])
      BY <1>2, <2>4
    <3> QED
      BY <3>1 DEF InTransaction
  <2> QED
    BY <1>1, <2>1, <2>3, <2>5, TabFrame DEF SameNotes
<1>5. CASE m.tab = t
  <2>1. t \notin flags /\ \A w \in work : ~Runs(w, t)
    BY <1>3, <1>5 DEF TabFlag, ClosedFirst, Closes
  <2> HIDE DEF X
  <2>2. \A w \in work' : ~Runs(w, t)
    <3>1. \A v \in work' : \E w \in work : Becomes(w, v, X)
      BY <1>1, <1>3, DetachedIs
    <3> QED
      BY <2>1, <3>1 DEF Becomes, Runs
  <2>3. Kept(t, 1) /\ Fewer(t)
    BY <2>2, TakenMail DEF Fewer
  <2>4. OneRun(t)' /\ ClosedFirst(t)'
    BY <2>3, MailFrame DEF TabFlag
  <2>5. Settles(t)'
    BY DEF TabFlag, Settles
  <2>6. Homely(t)'
    <3>1. \A i \in DOMAIN inbox' : Runs(inbox'[i], t) => i + 1 \in DOMAIN inbox /\ inbox'[i] = inbox[i + 1]
      BY <2>3 DEF Kept, Mine, Runs
    <3>2. \A i \in DOMAIN inbox' : Runs(inbox'[i], t) /\ inbox'[i].conn \in Servers
            => inbox'[i].conn = bound[t] /\ <<t, bound[t]>> \in noted
      BY <3>1 DEF TabFlag, Homely
    <3> QED
      BY <2>2, <3>2 DEF Homely, Runs
  <2>7. Truth(t)'
    <3> DEFINE p == <<t, bound[t]>>
    <3> SUFFICES ASSUME bound[t] \in up \cap Servers, ~\E i \in DOMAIN inbox' : inbox'[i] = CloseSession(p),
                        p \in DOMAIN sessions', sessions'[p]
                 PROVE  FALSE
      BY <1>1, <2>1, <2>2 DEF Truth, Runs, Sent, CloseSession, InTransaction
    <3>1. p # gone /\ p \in DOMAIN sessions /\ sessions[p]
      BY <1>2
    <3>2. CloseSession(p) # m
      BY <1>5, <3>1 DEF CloseSession
    <3>3. ~Sent(CloseSession(p))
      BY <3>2, TakenMail
    <3> QED
      BY <2>1, <3>1, <3>3 DEF TabFlag, Truth, InTransaction
  <2> QED
    BY <2>4, <2>5, <2>6, <2>7 DEF TabFlag
<1> QED
  BY <1>4, <1>5

(* A disconnect taken up keeps a tab's flag true. *)
LEMMA TakeDisconnectFlag ==
  ASSUME TypeInv, TypeInv', ~Overtakes, Take, NEW t \in TabIds, TabFlag(t),
         NEW m \in DisconnectCommand, TakeDisconnect(m), UNCHANGED <<bound, noted, flags>>,
         Kept(t, 1), \A x : Sent(x) /\ x # m => \E i \in DOMAIN inbox' : inbox'[i] = x
  PROVE  TabFlag(t)'
<1> DEFINE X == {w \in work : w.conn = m.conn}
           D == DetachedOf(X)
<1>1. /\ up' = up \ {m.conn} /\ sessions' = Restrict(sessions, {s \in DOMAIN sessions : s[2] # m.conn})
      /\ files' = files \ {m.conn} /\ work' = D \cup IF m.conn \in Files THEN {} ELSE {m}
  BY TakeDisconnectIs
<1>2. /\ DOMAIN sessions' = {s \in DOMAIN sessions : s[2] # m.conn}
      /\ \A p \in DOMAIN sessions' : sessions'[p] = sessions[p]
  BY <1>1 DEF Restrict
<1>3. work \subseteq Work /\ m.op = "disconnect"
  BY DEF TypeInv, BackendInv, DisconnectCommand
<1>4. \A v \in D : \E w \in work : Becomes(w, v, X)
  BY <1>3, DetachedIs
<1>5. \A w \in work : \E v \in D : Becomes(w, v, X)
  BY <1>3, DetachedIs
<1>6. \A v \in work' : v.op = "run" => v \in D
  BY <1>1, <1>3
<1>7. D \subseteq work'
  BY <1>1
<1>8. \A w \in work : w \in X <=> w.conn = m.conn
  OBVIOUS
<1> HIDE DEF X, D
<1>9. ASSUME NEW v \in work', v.op = "run" PROVE \E w \in work : Becomes(w, v, X) /\ w.op = "run" /\ w.tab = v.tab
  <2>1. PICK w \in work : Becomes(w, v, X)
    BY <1>4, <1>6, <1>9
  <2> QED
    BY <1>9, <2>1 DEF Becomes
<1>10. \A u, v \in D : \A w \in work : w.op = "run" /\ Becomes(w, u, X) /\ Becomes(w, v, X) => u = v
  BY <1>3, DetachedOnce DEF D
<1>12. Fewer(t)
  <2>1. ASSUME NEW u \in work', NEW v \in work', Runs(u, t), Runs(v, t) PROVE u = v
    <3>1. PICK w \in work : Becomes(w, u, X) /\ w.op = "run" /\ w.tab = u.tab
      BY <1>9, <2>1 DEF Runs
    <3>2. PICK x \in work : Becomes(x, v, X) /\ x.op = "run" /\ x.tab = v.tab
      BY <1>9, <2>1 DEF Runs
    <3>3. w = x
      BY <2>1, <3>1, <3>2 DEF TabFlag, OneRun, Runs
    <3> QED
      BY <1>6, <1>10, <2>1, <3>1, <3>2, <3>3 DEF Runs
  <2>2. \A v \in work' : Runs(v, t) => \E w \in work : Runs(w, t)
    BY <1>9 DEF Runs
  <2> QED
    BY <2>1, <2>2 DEF Fewer
<1>13. OneRun(t)' /\ ClosedFirst(t)'
  BY <1>12, MailFrame DEF TabFlag
<1>14. Settles(t)'
  BY DEF TabFlag, Settles
<1>15. Homely(t)'
  <2>1. \A i \in DOMAIN inbox' : Runs(inbox'[i], t) => i + 1 \in DOMAIN inbox /\ inbox'[i] = inbox[i + 1]
    BY DEF Kept, Mine, Runs
  <2>2. \A i \in DOMAIN inbox' : Runs(inbox'[i], t) /\ inbox'[i].conn \in Servers
          => inbox'[i].conn = bound[t] /\ <<t, bound[t]>> \in noted
    BY <2>1 DEF TabFlag, Homely
  <2>3. ASSUME NEW v \in work', Runs(v, t), v.conn \in Servers
        PROVE  v.conn = bound[t] /\ <<t, bound[t]>> \in noted /\ (Begun(v) /\ v.conn \in up' => v.attached)
    <3>1. PICK w \in work : Becomes(w, v, X) /\ w.op = "run" /\ w.tab = v.tab
      BY <1>9, <2>3 DEF Runs
    <3>2. Runs(w, t) /\ w.conn = v.conn
      BY <2>3, <3>1 DEF Runs, Becomes
    <3>3. v.conn = bound[t] /\ <<t, bound[t]>> \in noted /\ (Begun(w) /\ w.conn \in up => w.attached)
      BY <2>3, <3>2 DEF TabFlag, Homely
    <3>4. v.conn \in up' => v = w /\ w.conn \in up
      BY <1>1, <1>8, <3>1, <3>2 DEF Becomes
    <3> QED
      BY <3>3, <3>4
  <2> QED
    BY <2>2, <2>3 DEF Homely, Runs, Begun
<1>16. Truth(t)'
  <2> DEFINE p == <<t, bound[t]>>
  <2> SUFFICES ASSUME bound[t] \in up' \cap Servers, ~\E i \in DOMAIN inbox' : inbox'[i] = CloseSession(p)
               PROVE  LET now == p \in DOMAIN sessions' /\ sessions'[p] IN
                      /\ (\A w \in work' : Runs(w, t) /\ w.conn \in Servers => w.stage = "begun") => (t \in flags <=> now)
                      /\ \A w \in work' : Runs(w, t) /\ w.conn \in Servers /\ w.stage = "answered" =>
                           /\ w.says = "open" => now
                           /\ w.says = "closed" => ~now
                           /\ w.says = "nothing" => (t \in flags <=> now)
    BY DEF Truth, Runs, Sent, CloseSession, InTransaction
  <2>1. bound[t] \in up \cap Servers /\ bound[t] # m.conn
    BY <1>1
  <2>2. CloseSession(p) # m
    BY <1>3 DEF CloseSession
  <2>3. ~Sent(CloseSession(p))
    BY <2>2
  <2>4. p[2] = bound[t]
    OBVIOUS
  <2>5. (p \in DOMAIN sessions' /\ sessions'[p]) <=> InTransaction(p)
    BY <1>2, <2>1, <2>4 DEF InTransaction
  <2>6. \A w \in work : Runs(w, t) /\ w.conn \in Servers => w.conn = bound[t]
    BY DEF TabFlag, Homely
  <2>7. \A w \in work : Runs(w, t) /\ w.conn \in Servers => w \in work'
    BY <1>5, <1>7, <1>8, <2>1, <2>6 DEF Becomes
  <2>8. ASSUME NEW v \in work', Runs(v, t), v.conn \in Servers PROVE v \in work
    <3>1. PICK w \in work : Becomes(w, v, X) /\ w.op = "run" /\ w.tab = v.tab
      BY <1>9, <2>8 DEF Runs
    <3> QED
      BY <1>8, <2>1, <2>6, <2>8, <3>1 DEF Becomes, Runs
  <2> HIDE DEF p
  <2>9. /\ (\A w \in work : Runs(w, t) /\ w.conn \in Servers => w.stage = "begun") => (t \in flags <=> InTransaction(p))
        /\ \A w \in work : Runs(w, t) /\ w.conn \in Servers /\ w.stage = "answered" =>
             /\ w.says = "open" => InTransaction(p)
             /\ w.says = "closed" => ~InTransaction(p)
             /\ w.says = "nothing" => (t \in flags <=> InTransaction(p))
    BY <2>1, <2>3 DEF TabFlag, Truth, p
  <2> QED
    BY <2>5, <2>7, <2>8, <2>9
<1> QED
  BY <1>13, <1>14, <1>15, <1>16 DEF TabFlag

(* Any command taken up does. *)
LEMMA TakeFlags ==
  ASSUME TypeInv, TypeInv', FlagInv, ~Overtakes, Take, NEW t \in Open', t \notin muddled'
  PROVE  TabFlag(t)'
<1> DEFINE m == inbox[1]
<1>1. Taken(m) /\ m \in Command
  BY TakenIs
<1>2. 1 \in DOMAIN inbox /\ UNCHANGED <<strip, bound, noted, flags, muddled>>
  BY <1>1 DEF Taken
<1>3. t \in Open /\ TabFlag(t) /\ t \in TabIds
  BY <1>2 DEF FlagInv, Open, TypeInv, StripInv, ToSet
<1>4. CASE m.op = "run" /\ TakeRun(m)
  BY <1>1, <1>2, <1>3, <1>4, CommandIs, TakeRunFlag
<1>5. CASE m.op = "close" /\ close_session(m)
  BY <1>1, <1>2, <1>3, <1>5, CommandIs, TakeCloseFlag
<1>6. CASE m.op = "disconnect" /\ TakeDisconnect(m)
  <2>1. Kept(t, 1) /\ \A x : Sent(x) /\ x # m => \E i \in DOMAIN inbox' : inbox'[i] = x
    BY TakenMail
  <2>2. m \in DisconnectCommand
    BY <1>1, <1>6, CommandIs
  <2> HIDE DEF m
  <2> QED
    BY <1>2, <1>3, <1>6, <2>1, <2>2, TakeDisconnectFlag
<1>7. CASE m.op = "rollback" /\ TakeRollback(m)
  <2>1. SameMail(t, 1)
    BY <1>7, TakenMail DEF Mine
  <2>2. SameWork(t) /\ SameNotes(t)
    BY <1>2, <1>7 DEF TakeRollback, SameWork, SameNotes, Runs
  <2>3. InTransaction(<<t, bound[t]>>)' <=> InTransaction(<<t, bound[t]>>)
    BY <1>2, <1>7 DEF TakeRollback, InTransaction
  <2>4. up' = up
    BY <1>7 DEF TakeRollback
  <2> QED
    BY <1>2, <1>3, <2>1, <2>2, <2>3, <2>4, TabFrame
<1> QED
  BY <1>1, <1>4, <1>5, <1>6, <1>7 DEF Taken

(* Every step keeps FlagInv. *)
LEMMA NextFlags ==
  ASSUME TypeInv, ConnInv, TabInv, SessionInv, FlagInv, ~Overtakes, [Next]_vars PROVE FlagInv'
<1>1. TypeInv'
  BY NextTypes, Stutter
<1>2. ASSUME NEW t \in Open', t \notin muddled' PROVE TabFlag(t)'
  BY <1>1, <1>2, NextIs, TurnFlags, QuietFlags, RunFlags, AnswerFlags, RunEndsFlags, TakeFlags
<1> QED
  BY <1>2 DEF FlagInv, Open

(* The flags of files listed and up are true, but for those known to lie. *)
FileTold == \A f \in (live \cap up \cap Files) \ muddled : FileFlag(f)

(* Of a file listed no session is noted, and none is closed. *)
FileNotes ==
  /\ \A s \in noted : s[2] \in Files => s[2] \notin live
  /\ \A i \in DOMAIN inbox : inbox[i].op = "close" /\ inbox[i].conn \in Files => inbox[i].conn \notin live

(* FileInv is both. *)
LEMMA FileInvIs == FileInv <=> FileNotes /\ FileTold
BY DEF FileInv, FileNotes, FileTold

(* What a step can add to the connections listed: none but one that was not known. *)
LEMMA LiveGrows ==
  ASSUME TypeInv, ConnInv, [Next]_vars
  PROVE  \A c \in live' : Known(c) => c \in live
<1>1. live' \subseteq live \/ \E a \in attempts : live' = live \cup {a.conn}
  <2>1. CASE Turn
    BY <2>1 DEF Turn
  <2>2. CASE ~Turn
    <3>1. live' \subseteq live
      BY <2>2, NextIs DEF connect, cancelConnect, disconnect, handleReconnect, ReconnectConfirmed, confirmPendingSwitch,
           GivesUp, Connects, Disconnected, Run, Answer, Take, RunEnds, vars
    <3> QED
      BY <3>1
  <2> QED
    BY <2>1, <2>2
<1> QED
  BY <1>1 DEF Known

(* Every step keeps FileNotes. *)
LEMMA NextFileNotes == ASSUME TypeInv, ConnInv, FileNotes, ~Overtakes, [Next]_vars PROVE FileNotes'
<1>0. TypeInv'
  BY NextTypes, Stutter
<1>1. /\ \A s \in noted : s[2] \in Files => s[2] \notin live'
      /\ \A i \in DOMAIN inbox : inbox[i].op = "close" /\ inbox[i].conn \in Files => inbox[i].conn \notin live'
  BY LiveGrows DEF FileNotes, ConnInv
<1>2. CASE Turn
  <2>1. CASE UNCHANGED <<tabVars, used>>
    BY <1>1, <2>1 DEF FileNotes, tabVars
  <2>2. CASE \E s, b, sel : Retabs(s, b, sel)
    <3>1. PICK s, b, sel : Retabs(s, b, sel)
      BY <2>2
    <3>2. noted' \subseteq noted /\ Extends(inbox, inbox', Ends(s, b))
      BY <3>1, TabsChangeSends DEF Retabs
    <3>3. \A m \in Ends(s, b) : m.op = "close" /\ m.conn \in Files => m.conn \notin live'
      <4>1. \A p \in noted : CloseSession(p).conn = p[2]
        BY DEF CloseSession
      <4>2. \A f : RollBack(f).op = "rollback"
        BY DEF RollBack
      <4> QED
        BY <1>1, <4>1, <4>2 DEF Ends
    <3> QED
      BY <1>1, <3>2, <3>3 DEF FileNotes, Extends
  <2> QED
    BY <1>2, <2>1, <2>2 DEF Turn
<1>3. CASE connect \/ cancelConnect \/ Connects \/ Disconnected \/ Answer \/ RunEnds \/ UNCHANGED vars
  <2>1. UNCHANGED <<inbox, noted>>
    BY <1>3 DEF connect, cancelConnect, Connects, Disconnected, Answer, RunEnds, vars, tabVars
  <2> QED
    BY <1>1, <2>1 DEF FileNotes
<1>4. CASE disconnect \/ handleReconnect \/ ReconnectConfirmed \/ \E a \in attempts : GivesUp(a)
  <2>1. /\ UNCHANGED noted
        /\ inbox' = inbox \/ \E c, again, known : inbox' = Append(inbox, Disconnection(c, again, known))
    BY <1>4 DEF disconnect, handleReconnect, ReconnectConfirmed, confirmPendingSwitch, GivesUp, SendDisconnect
  <2>2. \A c, again, known : Disconnection(c, again, known).op = "disconnect"
    BY DEF Disconnection
  <2>3. inbox \in Seq(Command)
    BY DEF TypeInv, WindowInv
  <2>4. \A m : inbox' = Append(inbox, m) => Extends(inbox, inbox', {m})
    <3> SUFFICES ASSUME NEW m, inbox' = Append(inbox, m) PROVE Extends(inbox, inbox', {m})
      OBVIOUS
    <3>1. inbox \in Seq(Command \cup {m})
      BY <2>3
    <3> QED
      BY <3>1, AppendExtends
  <2>5. \A i \in DOMAIN inbox' : (i \in DOMAIN inbox /\ inbox'[i] = inbox[i]) \/ inbox'[i].op = "disconnect"
    BY <2>1, <2>2, <2>4 DEF Extends
  <2> QED
    BY <1>1, <2>1, <2>5 DEF FileNotes
<1>5. CASE Run
  <2> DEFINE c == runConnectionId(active, selected)
             m == [op |-> "run", id |-> runs + 1, tab |-> active, conn |-> c]
  <2>1. /\ inbox' = Append(inbox, m) /\ noted' = noted \cup IF c \in Files \cap live THEN {} ELSE {<<active, c>>}
        /\ live' = live
    BY <1>5 DEF Run, Started
  <2>2. m.op = "run"
    OBVIOUS
  <2> HIDE DEF m, c
  <2>3. inbox \in Seq(Command \cup {m})
    BY DEF TypeInv, WindowInv
  <2>4. Extends(inbox, inbox', {m})
    BY <2>1, <2>3, AppendExtends
  <2>5. <<active, c>>[2] = c
    OBVIOUS
  <2>6. \A s \in noted' : s[2] \in Files => s[2] \notin live'
    BY <1>1, <2>1, <2>5
  <2> QED
    BY <1>1, <2>2, <2>4, <2>6 DEF FileNotes, Extends
<1>6. CASE Take
  <2>1. UNCHANGED noted /\ \A j \in DOMAIN inbox' : j + 1 \in DOMAIN inbox /\ inbox'[j] = inbox[j + 1]
    BY <1>6, TakenIs DEF Take
  <2> QED
    BY <1>1, <2>1 DEF FileNotes
<1> QED
  BY <1>2, <1>3, <1>4, <1>5, <1>6, NextIs

(* File f's commands are in the inbox as they were, d places on, and its work is the same. *)
SameUse(f, d) ==
  /\ \A i \in DOMAIN inbox' : Uses(inbox'[i], f) => i + d \in DOMAIN inbox /\ inbox[i + d] = inbox'[i]
  /\ \A w : Uses(w, f) => (w \in work <=> w \in work')

(* With the same use and the same flag and transaction a file's flag stays true. *)
LEMMA FileFrame ==
  ASSUME TypeInv, TypeInv', NEW f, NEW d \in {0, 1}, FileFlag(f), SameUse(f, d),
         f \in flags' <=> f \in flags, f \in files' <=> f \in files
  PROVE  FileFlag(f)'
<1>0. DOMAIN inbox = 1..Len(inbox) /\ DOMAIN inbox' = 1..Len(inbox')
  BY DEF TypeInv, WindowInv
<1>1. \A i, j \in DOMAIN inbox' : Uses(inbox'[i], f) /\ Uses(inbox'[j], f) => i = j
  <2>1. ASSUME NEW i \in DOMAIN inbox', NEW j \in DOMAIN inbox', Uses(inbox'[i], f), Uses(inbox'[j], f) PROVE i = j
    <3>1. /\ i + d \in DOMAIN inbox /\ inbox[i + d] = inbox'[i]
          /\ j + d \in DOMAIN inbox /\ inbox[j + d] = inbox'[j]
      BY <2>1 DEF SameUse
    <3>2. i + d = j + d
      BY <2>1, <3>1 DEF FileFlag
    <3> QED
      BY <1>0, <3>2
  <2> QED
    BY <2>1
<1>2. \A i \in DOMAIN inbox' : Uses(inbox'[i], f) => \A w \in work' : ~Uses(w, f)
  BY DEF SameUse, FileFlag
<1>3. \A w \in work' : Uses(w, f) => w \in work
  BY DEF SameUse
<1>4. \A w \in work : Uses(w, f) => w \in work'
  BY DEF SameUse
<1> QED
  BY <1>1, <1>2, <1>3, <1>4 DEF FileFlag, Uses

(* A file nothing runs on. *)
LEMMA FileIdle ==
  ASSUME NEW f, \A i, j \in DOMAIN inbox' : Uses(inbox'[i], f) /\ Uses(inbox'[j], f) => i = j,
         \A w \in work' : ~Uses(w, f), f \in flags' <=> f \in files'
  PROVE  FileFlag(f)'
BY DEF FileFlag, Uses

(* A turn keeps a file's flag true: its rollback is sent only where nothing is under way. *)
LEMMA TurnFile ==
  ASSUME TypeInv, TypeInv', ConnInv, FileTold, Turn, NEW f \in live' \cap up' \cap Files, f \notin muddled'
  PROVE  FileFlag(f)'
<1>1. UNCHANGED <<work, up, sessions, files>>
  BY DEF Turn, backVars
<1>2. \A i \in DOMAIN inbox : i + 0 = i
  BY DEF TypeInv, WindowInv
<1>3. f \notin TabIds
  BY Distinct
<1>4. CASE UNCHANGED <<tabVars, used>>
  <2>1. UNCHANGED <<flags, inbox, muddled>>
    BY <1>4 DEF tabVars
  <2>2. CASE f \in live
    <3>1. SameUse(f, 0)
      BY <1>1, <1>2, <2>1 DEF SameUse
    <3> QED
      BY <1>1, <2>1, <2>2, <3>1, FileFrame DEF FileTold
  <2>3. CASE ~Known(f)
    BY <1>1, <2>1, <2>3, FileIdle DEF ConnInv, Uses
  <2> QED
    BY <2>2, <2>3 DEF Turn, Known
<1>5. CASE \E s, b, sel : Retabs(s, b, sel)
  <2>1. PICK s, b, sel : Retabs(s, b, sel)
    BY <1>5
  <2>2. /\ flags' = flags \ {p[1] : p \in sessionsToClose(ToSet(s), b, sel)}
        /\ muddled \subseteq muddled'
        /\ f \in connectionsLeft(ToSet(s), b) => ~FileBusy(f)
    BY <2>1 DEF Retabs, TabsChange
  <2>3. f \in flags' <=> f \in flags
    <3>1. \A p \in noted : p[1] \in TabIds
      BY DEF TypeInv, WindowInv, StripInv, Open, ToSet
    <3> QED
      BY <1>3, <2>2, <3>1 DEF sessionsToClose
  <2>4. Extends(inbox, inbox', Ends(s, b))
    BY <2>1, TabsChangeSends DEF Retabs
  <2>5. \A m \in Ends(s, b) : Uses(m, f) => m = RollBack(f) /\ f \in connectionsLeft(ToSet(s), b)
    BY DEF Ends, Uses, CloseSession, RollBack
  <2>6. \A i, j \in DOMAIN inbox' : i \notin DOMAIN inbox /\ j \notin DOMAIN inbox
          /\ Uses(inbox'[i], f) /\ Uses(inbox'[j], f) => i = j
    BY <2>4, <2>5 DEF Extends
  <2>7. \A i \in DOMAIN inbox : i \in DOMAIN inbox' /\ inbox'[i] = inbox[i]
    BY <2>4 DEF Extends
  <2>8. \A i \in DOMAIN inbox' : i \notin DOMAIN inbox /\ Uses(inbox'[i], f) => f \in connectionsLeft(ToSet(s), b)
    BY <2>4, <2>5 DEF Extends
  <2>9. CASE f \notin connectionsLeft(ToSet(s), b) /\ f \in live
    <3>1. SameUse(f, 0)
      BY <1>1, <1>2, <2>7, <2>8, <2>9 DEF SameUse
    <3> QED
      BY <1>1, <2>2, <2>3, <2>9, <3>1, FileFrame DEF FileTold
  <2>10. CASE f \in connectionsLeft(ToSet(s), b) /\ f \in live
    <3>1. (\A i \in DOMAIN inbox : ~Uses(inbox[i], f)) /\ (\A w \in work : ~Uses(w, f))
      BY <2>2, <2>10 DEF FileBusy, Pending, Uses
    <3>2. \A i \in DOMAIN inbox' : Uses(inbox'[i], f) => i \notin DOMAIN inbox
      BY <2>7, <3>1
    <3>3. FileFlag(f)
      BY <1>1, <2>2, <2>10 DEF FileTold
    <3>4. f \in flags <=> f \in files
      BY <3>1, <3>3 DEF FileFlag
    <3> QED
      BY <1>1, <2>3, <2>6, <3>1, <3>2, <3>4, FileIdle
  <2>11. CASE ~Known(f)
    <3>1. /\ \A i \in DOMAIN inbox : ~Uses(inbox[i], f)
          /\ \A w \in work : ~Uses(w, f)
          /\ f \notin flags /\ f \notin files
      BY <2>11 DEF ConnInv, Uses
    <3>2. \A i \in DOMAIN inbox' : Uses(inbox'[i], f) => i \notin DOMAIN inbox
      BY <2>7, <3>1
    <3> QED
      BY <1>1, <2>3, <2>6, <3>1, <3>2, FileIdle
  <2> QED
    BY <2>9, <2>10, <2>11 DEF Turn, Known
<1> QED
  BY <1>4, <1>5 DEF Turn

(* A command that is no use of the file leaves its use as it was. *)
LEMMA AppendUse ==
  ASSUME TypeInv, NEW m, inbox' = Append(inbox, m) \/ inbox' = inbox, NEW f, ~Uses(m, f),
         \A w : Uses(w, f) => (w \in work <=> w \in work')
  PROVE  SameUse(f, 0)
<1>1. inbox \in Seq(Command \cup {m}) /\ \A i \in DOMAIN inbox : i + 0 = i
  BY DEF TypeInv, WindowInv
<1>2. inbox' = Append(inbox, m) => Extends(inbox, inbox', {m})
  BY <1>1, AppendExtends
<1>3. \A i \in DOMAIN inbox' : Uses(inbox'[i], f) => i \in DOMAIN inbox /\ inbox[i] = inbox'[i]
  BY <1>2 DEF Extends
<1> QED
  BY <1>1, <1>3 DEF SameUse

(* Connects, disconnects and their answers keep a file's flag true. *)
LEMMA QuietFile ==
  ASSUME TypeInv, TypeInv', ConnInv, FileTold,
         connect \/ cancelConnect \/ Connects \/ Disconnected \/ disconnect \/ handleReconnect \/ ReconnectConfirmed
           \/ (\E a \in attempts : GivesUp(a)) \/ UNCHANGED vars,
         NEW f \in live' \cap up' \cap Files, f \notin muddled'
  PROVE  FileFlag(f)'
<1>1. files' = files /\ muddled \subseteq muddled' /\ live' \subseteq live
  BY DEF connect, cancelConnect, Connects, Disconnected, disconnect, handleReconnect, ReconnectConfirmed,
         confirmPendingSwitch, GivesUp, vars, tabVars, backVars, SendDisconnect
<1>2. inbox' = inbox \/ \E c, again, known : inbox' = Append(inbox, Disconnection(c, again, known))
  BY DEF connect, cancelConnect, Connects, Disconnected, disconnect, handleReconnect, ReconnectConfirmed,
         confirmPendingSwitch, GivesUp, vars, tabVars, SendDisconnect
<1>3. SameUse(f, 0)
  <2>1. work' = work \/ \E w \in work : w.op = "disconnect" /\ work' = work \ {w}
    BY DEF connect, cancelConnect, Connects, Disconnected, disconnect, handleReconnect, ReconnectConfirmed,
           confirmPendingSwitch, GivesUp, vars, backVars
  <2>2. \A w : Uses(w, f) => (w \in work <=> w \in work')
    BY <2>1 DEF Uses
  <2>3. \A c, again, known : ~Uses(Disconnection(c, again, known), f)
    BY DEF Disconnection, Uses
  <2> QED
    BY <1>2, <2>2, <2>3, AppendUse
<1>4. f \in up
  <2>1. up' = up \/ \E a \in attempts : up' = up \cup {a.conn}
    BY DEF connect, cancelConnect, Connects, Disconnected, disconnect, handleReconnect, ReconnectConfirmed,
           confirmPendingSwitch, GivesUp, vars, backVars
  <2> QED
    BY <1>1, <2>1 DEF ConnInv, Known
<1>5. f \in flags' <=> f \in flags
  <2>1. CASE Disconnected
    <3>1. PICK w \in work : flags' \in {flags, flags \ {x \in Open : bound[x] = w.conn}}
      BY <2>1 DEF Disconnected
    <3>2. f \notin Open
      BY Distinct DEF TypeInv, StripInv, Open, ToSet
    <3> QED
      BY <3>1, <3>2
  <2>2. CASE disconnect
    BY <2>2 DEF disconnect
  <2>3. CASE ~Disconnected /\ ~disconnect
    <3>1. flags' = flags
      BY <2>3 DEF connect, cancelConnect, Connects, handleReconnect, ReconnectConfirmed,
           confirmPendingSwitch, GivesUp, vars, tabVars
    <3> QED
      BY <3>1
  <2> QED
    BY <2>1, <2>2, <2>3
<1> QED
  BY <1>1, <1>3, <1>4, <1>5, FileFrame DEF FileTold

(* A run sent keeps a file's flag true. *)
LEMMA RunFile ==
  ASSUME TypeInv, TypeInv', FileTold, Run, NEW f \in live' \cap up' \cap Files, f \notin muddled'
  PROVE  FileFlag(f)'
<1> DEFINE c == runConnectionId(active, selected)
           m == [op |-> "run", id |-> runs + 1, tab |-> active, conn |-> c]
<1>1. /\ inbox' = Append(inbox, m)
      /\ muddled' = muddled \cup {x \in {active} : Busy(active) \/ bound'[active] # c}
                            \cup {x \in {c} \cap Files : FileBusy(x)}
      /\ UNCHANGED <<flags, work, up, files, live>>
  BY DEF Run, Started, backVars
<1>2. m.op = "run" /\ m.conn = c
  OBVIOUS
<1> HIDE DEF c, m
<1>3. FileFlag(f)
  BY <1>1 DEF FileTold
<1>4. CASE f # c
  <2>1. SameUse(f, 0)
    BY <1>1, <1>2, <1>4, AppendUse DEF Uses
  <2> QED
    BY <1>1, <1>3, <2>1, FileFrame
<1>5. CASE f = c
  <2>1. ~FileBusy(f)
    BY <1>1, <1>5
  <2>2. (\A i \in DOMAIN inbox : ~Uses(inbox[i], f)) /\ (\A w \in work : ~Uses(w, f))
    BY <2>1 DEF FileBusy, Pending, Uses
  <2>3. inbox \in Seq(Command \cup {m})
    BY DEF TypeInv, WindowInv
  <2>4. Extends(inbox, inbox', {m})
    BY <1>1, <2>3, AppendExtends
  <2>5. \A i, j \in DOMAIN inbox' : Uses(inbox'[i], f) /\ Uses(inbox'[j], f) => i = j
    <3>1. \A i \in DOMAIN inbox' : Uses(inbox'[i], f) => i \notin DOMAIN inbox /\ inbox'[i] = m
      BY <2>2, <2>4 DEF Extends
    <3> QED
      BY <2>4, <3>1 DEF Extends
  <2>6. f \in flags <=> f \in files
    BY <1>3, <2>2 DEF FileFlag
  <2> QED
    BY <1>1, <2>2, <2>5, <2>6, FileIdle
<1> QED
  BY <1>4, <1>5

(* An answer keeps a file's flag true. *)
LEMMA AnswerFile ==
  ASSUME TypeInv, TypeInv', FileTold, Answer, NEW f \in live' \cap up' \cap Files, f \notin muddled'
  PROVE  FileFlag(f)'
<1>1. PICK w \in work :
        /\ w.op \in {"run", "rollback"} /\ w.stage = "answered" /\ work' = work \ {w}
        /\ flags' = CASE w.says = "open" -> flags \cup {Owner(w)} [] w.says = "closed" -> flags \ {Owner(w)} [] OTHER -> flags
        /\ muddled \subseteq muddled'
  BY DEF Answer
<1>2. UNCHANGED <<inbox, up, files, live>>
  BY DEF Answer
<1>3. FileFlag(f)
  BY <1>1, <1>2 DEF FileTold
<1>4. w \in Work
  BY DEF TypeInv, BackendInv
<1>5. CASE ~Uses(w, f)
  <2>1. Owner(w) # f
    <3>1. w.conn # f
      BY <1>1, <1>5 DEF Uses
    <3>2. w.conn \in Files \/ w.tab \in TabIds
      BY <1>1, <1>4, WorkIs DEF RunWork, RollbackWork
    <3> QED
      BY <3>1, <3>2, Distinct DEF Owner
  <2>2. f \in flags' <=> f \in flags
    BY <1>1, <2>1
  <2>3. SameUse(f, 0)
    <3>1. \A i \in DOMAIN inbox : i + 0 = i
      BY DEF TypeInv, WindowInv
    <3> QED
      BY <1>1, <1>2, <1>5, <3>1 DEF SameUse
  <2> QED
    BY <1>2, <1>3, <2>2, <2>3, FileFrame
<1>6. CASE Uses(w, f)
  <2>1. Owner(w) = f
    BY <1>6 DEF Owner, Uses
  <2>2. /\ \A v \in work' : ~Uses(v, f)
        /\ \A i \in DOMAIN inbox' : ~Uses(inbox'[i], f)
    BY <1>1, <1>2, <1>3, <1>6 DEF FileFlag
  <2>3. /\ w.says = "open" => f \in files
        /\ w.says = "closed" => f \notin files
        /\ w.says = "nothing" => (f \in flags <=> f \in files)
    BY <1>1, <1>3, <1>6 DEF FileFlag
  <2>4. w.says \in {"open", "closed", "nothing"}
    BY <1>1, <1>4, WorkIs DEF RunWork, RollbackWork
  <2>5. f \in flags' <=> f \in files'
    BY <1>1, <1>2, <2>1, <2>3, <2>4
  <2> QED
    BY <2>2, <2>5, FileIdle
<1> QED
  BY <1>5, <1>6

(* A statement's end keeps a file's flag true. *)
LEMMA RunEndsFile ==
  ASSUME TypeInv, TypeInv', FileTold, RunEnds, NEW f \in live' \cap up' \cap Files, f \notin muddled'
  PROVE  FileFlag(f)'
<1>1. PICK w \in work, effect \in {"begin", "end", "none"}, says \in {"open", "closed", "nothing"} :
        EndsWith(w, effect, says)
  BY RunEndsIs
<1>2. UNCHANGED <<flags, inbox, muddled, up, live>>
  BY DEF RunEnds, tabVars
<1>3. FileFlag(f)
  BY <1>2 DEF FileTold
<1> DEFINE v == [w EXCEPT !.stage = "answered", !.says = says]
<1>4. /\ w.op = "run" /\ w.stage = "begun" /\ work' = (work \ {w}) \cup {v}
      /\ files' = IF ~(w.conn \in Files /\ w.attached) THEN files
                  ELSE IF After(w, effect) THEN files \cup {w.conn} ELSE files \ {w.conn}
  BY <1>1 DEF EndsWith
<1>5. v.op = "run" /\ v.conn = w.conn /\ v.stage = "answered" /\ v.says = says
  BY <1>4, WorkIs DEF TypeInv, BackendInv, RunWork
<1> HIDE DEF v
<1>6. CASE w.conn # f
  <2>1. SameUse(f, 0)
    <3>1. \A i \in DOMAIN inbox : i + 0 = i
      BY DEF TypeInv, WindowInv
    <3>2. ~Uses(w, f) /\ ~Uses(v, f)
      BY <1>5, <1>6 DEF Uses
    <3> QED
      BY <1>2, <1>4, <3>1, <3>2 DEF SameUse
  <2>2. f \in files' <=> f \in files
    BY <1>4, <1>6
  <2> QED
    BY <1>2, <1>3, <2>1, <2>2, FileFrame
<1>7. CASE w.conn = f
  <2>1. Uses(w, f) /\ Uses(v, f)
    BY <1>4, <1>5, <1>7 DEF Uses
  <2>2. /\ \A x \in work : Uses(x, f) => x = w
        /\ \A i \in DOMAIN inbox : ~Uses(inbox[i], f)
        /\ w.attached
    BY <1>3, <1>4, <2>1 DEF FileFlag
  <2>3. \A x \in work' : Uses(x, f) => x = v
    BY <1>4, <2>2
  <2>4. f \in flags <=> f \in files
    BY <1>3, <1>4, <2>2 DEF FileFlag
  <2>5. f \in files' <=> After(w, effect)
    BY <1>4, <1>7, <2>2
  <2>6. /\ says = "open" => After(w, effect)
        /\ says = "closed" => ~After(w, effect)
        /\ says = "nothing" => (After(w, effect) <=> f \in files)
    BY <1>1, <1>7, <2>2 DEF EndsWith, After, Before
  <2>7. v \in work'
    BY <1>4
  <2> QED
    BY <1>2, <1>5, <2>1, <2>2, <2>3, <2>4, <2>5, <2>6, <2>7 DEF FileFlag, Uses
<1> QED
  BY <1>6, <1>7

(* Detaching statements on other connections leaves the file's work as it was. *)
LEMMA DetachedUses ==
  ASSUME work \subseteq Work, NEW X, NEW f, \A w \in X : w.conn # f
  PROVE  \A w : Uses(w, f) => (w \in work <=> w \in DetachedOf(X))
<1>1. \A v \in DetachedOf(X) : \E w \in work : Becomes(w, v, X)
  BY DetachedIs
<1>2. \A w \in work : \E v \in DetachedOf(X) : Becomes(w, v, X)
  BY DetachedIs
<1>3. ASSUME NEW w \in work, NEW v, Becomes(w, v, X), w.conn = f \/ v.conn = f PROVE v = w
  <2>1. w.conn = f
    BY <1>3 DEF Becomes
  <2> QED
    BY <1>3, <2>1 DEF Becomes
<1> QED
  BY <1>1, <1>2, <1>3 DEF Uses

(* A command taken up keeps a file's flag true. *)
LEMMA TakeFile ==
  ASSUME TypeInv, TypeInv', FileTold, FileNotes, ~Overtakes, Take, NEW f \in live' \cap up' \cap Files, f \notin muddled'
  PROVE  FileFlag(f)'
<1> DEFINE m == inbox[1]
<1>1. /\ Taken(m) /\ m \in Command
      /\ \A j \in DOMAIN inbox' : j + 1 \in DOMAIN inbox /\ inbox'[j] = inbox[j + 1]
      /\ \A j \in DOMAIN inbox : j # 1 => j - 1 \in DOMAIN inbox' /\ inbox'[j - 1] = inbox[j]
  BY TakenIs
<1>2. /\ 1 \in DOMAIN inbox /\ UNCHANGED <<flags, muddled, live>>
      /\ \/ m.op = "run" /\ TakeRun(m)
         \/ m.op = "close" /\ close_session(m)
         \/ m.op = "disconnect" /\ TakeDisconnect(m)
         \/ m.op = "rollback" /\ TakeRollback(m)
  BY <1>1 DEF Taken
<1>3. up' \subseteq up /\ work \subseteq Work
  BY <1>2 DEF TakeRun, close_session, TakeDisconnect, TakeRollback, TypeInv, BackendInv
<1>4. FileFlag(f)
  BY <1>2, <1>3 DEF FileTold
<1>5. m.op = "close" => m.conn # f
  BY <1>2 DEF FileNotes
<1>6. Uses(m, f) => /\ \A i \in DOMAIN inbox' : ~Uses(inbox'[i], f)
                    /\ \A w \in work : ~Uses(w, f)
                    /\ (f \in flags <=> f \in files)
  <2>1. \A i \in DOMAIN inbox' : i + 1 # 1
    <3>1. DOMAIN inbox' = 1..Len(inbox')
      BY DEF TypeInv, WindowInv
    <3> QED
      BY <3>1
  <2> QED
    BY <1>1, <1>2, <1>4, <2>1 DEF FileFlag
<1> HIDE DEF m
<1>7. CASE m.op = "run" /\ TakeRun(m)
  <2>1. work' = work \cup {RunTaken(m)} /\ UNCHANGED <<up, files>>
    BY <1>1, <1>7, CommandIs, TakeRunIs
  <2> DEFINE s == RunTaken(m)
  <2>2. /\ s.op = "run" /\ s.conn = m.conn /\ s.attached = TRUE
        /\ s.stage = IF m.conn \in up THEN "begun" ELSE "answered"
    BY DEF RunTaken
  <2> HIDE DEF s
  <2>3. CASE m.conn # f
    <3>1. ~Uses(s, f)
      BY <2>2, <2>3 DEF Uses
    <3>2. SameUse(f, 1)
      BY <1>1, <2>1, <3>1 DEF SameUse, s
    <3> QED
      BY <1>2, <1>4, <2>1, <3>2, FileFrame
  <2>4. CASE m.conn = f
    <3>1. Uses(m, f) /\ Uses(s, f) /\ s.stage = "begun"
      BY <1>3, <1>7, <2>2, <2>4 DEF Uses
    <3>2. \A w \in work' : Uses(w, f) => w = s
      BY <1>6, <2>1, <3>1 DEF s
    <3> QED
      BY <1>2, <1>6, <2>1, <2>2, <3>1, <3>2 DEF FileFlag, Uses
  <2> QED
    BY <2>3, <2>4
<1>8. CASE m.op = "close" /\ close_session(m)
  <2> DEFINE X == {w \in work : w.tab = m.tab /\ w.conn = m.conn}
  <2>1. work' = DetachedOf(X) /\ UNCHANGED files
    BY <1>8, CloseSessionIs
  <2>2. \A w \in X : w.conn # f
    BY <1>5, <1>8
  <2> HIDE DEF X
  <2>3. SameUse(f, 1)
    BY <1>1, <1>3, <2>1, <2>2, DetachedUses DEF SameUse
  <2> QED
    BY <1>2, <1>4, <2>1, <2>3, FileFrame
<1>9. CASE m.op = "disconnect" /\ TakeDisconnect(m)
  <2> DEFINE X == {w \in work : w.conn = m.conn}
             D == DetachedOf(X)
  <2>1. /\ up' = up \ {m.conn} /\ sessions' = Restrict(sessions, {s \in DOMAIN sessions : s[2] # m.conn})
        /\ files' = files \ {m.conn} /\ work' = D \cup IF m.conn \in Files THEN {} ELSE {m}
    BY <1>9, TakeDisconnectIs
  <2>2. m.conn # f /\ (\A w \in X : w.conn # f) /\ ~Uses(m, f)
    BY <1>9, <2>1 DEF Uses
  <2> HIDE DEF X
  <2>3. \A w : Uses(w, f) => (w \in work <=> w \in D)
    BY <1>3, <2>2, DetachedUses
  <2> HIDE DEF D
  <2>4. SameUse(f, 1)
    BY <1>1, <2>1, <2>2, <2>3 DEF SameUse
  <2> QED
    BY <1>2, <1>4, <2>1, <2>2, <2>4, FileFrame
<1>10. CASE m.op = "rollback" /\ TakeRollback(m)
  <2> DEFINE r == [op |-> "rollback", conn |-> m.conn, stage |-> "answered", says |-> "closed"]
  <2>1. files' = files \ {m.conn} /\ up' = up /\ work' = IF m.conn \notin up THEN work ELSE work \cup {r}
    BY <1>10 DEF TakeRollback
  <2>2. r.op = "rollback" /\ r.conn = m.conn /\ r.stage = "answered" /\ r.says = "closed"
    OBVIOUS
  <2> HIDE DEF r
  <2>3. CASE m.conn # f
    <3>1. SameUse(f, 1)
      BY <1>1, <2>1, <2>2, <2>3 DEF SameUse, Uses
    <3> QED
      BY <1>2, <1>4, <2>1, <2>3, <3>1, FileFrame
  <2>4. CASE m.conn = f
    <3>1. Uses(m, f) /\ Uses(r, f) /\ work' = work \cup {r} /\ f \notin files'
      BY <1>3, <1>10, <2>1, <2>2, <2>4 DEF Uses
    <3>2. \A w \in work' : Uses(w, f) => w = r
      BY <1>6, <3>1
    <3>3. r \in work'
      BY <3>1
    <3> QED
      BY <1>2, <1>6, <2>2, <3>1, <3>2, <3>3 DEF FileFlag, Uses
  <2> QED
    BY <2>3, <2>4
<1> QED
  BY <1>2, <1>7, <1>8, <1>9, <1>10

(* Every step keeps FileInv. *)
LEMMA NextFiles == ASSUME TypeInv, ConnInv, FileInv, ~Overtakes, [Next]_vars PROVE FileInv'
<1>1. TypeInv' /\ FileNotes /\ FileTold
  BY NextTypes, Stutter, FileInvIs
<1>2. FileNotes'
  BY <1>1, NextFileNotes
<1>3. ASSUME NEW f \in live' \cap up' \cap Files, f \notin muddled' PROVE FileFlag(f)'
  BY <1>1, <1>3, NextIs, TurnFile, QuietFile, RunFile, AnswerFile, RunEndsFile, TakeFile
<1>4. FileTold'
  BY <1>3 DEF FileTold
<1> QED
  BY <1>2, <1>4 DEF FileInv, FileNotes, FileTold

(* Where commands are taken up in the order sent, the four hold in every reachable state. *)
LEMMA FlagInvariance == ASSUME ~Overtakes PROVE Spec => [](SessionInv /\ TabInv /\ FlagInv /\ FileInv)
<1> DEFINE IInv == SessionInv /\ TabInv /\ FlagInv /\ FileInv
<1>1. Init => IInv
  <2> SUFFICES ASSUME Init PROVE IInv
    OBVIOUS
  <2>1. /\ inbox = <<>> /\ work = {} /\ noted = {} /\ flags = {} /\ sessions = << >> /\ files = {}
        /\ DOMAIN inbox = {}
    BY DEF Init
  <2>2. DOMAIN sessions = {}
    BY <2>1
  <2>3. SessionInv /\ TabInv
    BY <2>1, <2>2 DEF SessionInv, TabInv
  <2>4. FlagInv
    BY <2>1, <2>2 DEF FlagInv, TabFlag, Settles, OneRun, Homely, ClosedFirst, Truth, InTransaction
  <2>5. FileInv
    BY <2>1 DEF FileInv, FileFlag
  <2> QED
    BY <2>3, <2>4, <2>5
<1>2. TypeInv /\ ConnInv /\ IInv /\ [Next]_vars => IInv'
  BY NextSessions, NextTabs, NextFlags, NextFiles
<1> QED
  BY <1>1, <1>2, Invariance, PTL DEF Spec

(* Nothing is under way for a settled tab, and nothing for a file that is not busy. *)
LEMMA Truthful == ASSUME TypeInv, FlagInv, FileInv PROVE FlagTruthful
<1>1. ASSUME NEW t \in Open \ muddled, bound[t] \in live \cap up \cap Servers, Settled(t, bound[t])
      PROVE  t \in flags <=> InTransaction(<<t, bound[t]>>)
  <2>1. Truth(t)
    BY DEF FlagInv, TabFlag
  <2>2. ~Sent(CloseSession(<<t, bound[t]>>)) /\ \A w \in work : ~Runs(w, t)
    BY <1>1 DEF Settled, Busy, Pending, Runs
  <2> QED
    BY <1>1, <2>1, <2>2 DEF Truth
<1>2. ASSUME NEW f \in (live \cap up \cap Files) \ muddled, ~FileBusy(f)
      PROVE  f \in flags <=> f \in files
  <2>1. \A w \in work : ~Uses(w, f)
    BY <1>2 DEF FileBusy, Pending, Uses
  <2> QED
    BY <2>1 DEF FileInv, FileFlag
<1> QED
  BY <1>1, <1>2 DEF FlagTruthful

(* Where commands are taken up in the order sent, the badge tells the truth once nothing is
   under way: the flag of a tab, or a file, that transactionStore keeps is set exactly while
   the server has a transaction open for it, outside the cases muddled names. *)
THEOREM FlagsAreTruthful == ASSUME ~Overtakes PROVE Spec => []FlagTruthful
<1>1. TypeInv /\ FlagInv /\ FileInv => FlagTruthful
  BY Truthful
<1> QED
  BY <1>1, Invariance, FlagInvariance, PTL

(* A change of the tabs to s, with connections b, that ends no transaction known to be open:
   a tab with one stays where it is, and so does some tab of a file with one. *)
Keeps(s, b) ==
  /\ \A t \in Open \cap flags : bound[t] \in up => t \in ToSet(s) /\ b[t] = bound[t]
  /\ connectionsLeft(ToSet(s), b) = {}

(* A change of the tabs that needs no consent, or none. *)
Asked == UNCHANGED tabVars \/ \E s, b, sel : TabsChange(s, b, sel) /\ Keeps(s, b)

(* An open transaction's tab that nothing is under way for has its flag set. *)
LEMMA InTransactionFlagged ==
  ASSUME TypeInv, FlagInv, NEW t \in Open \ muddled, InTransaction(<<t, bound[t]>>), Settled(t, bound[t])
  PROVE  t \in flags /\ bound[t] \in up
<1>1. bound[t] \in up \cap Servers
  BY DEF InTransaction, TypeInv, BackendInv
<1>2. Truth(t)
  BY DEF FlagInv, TabFlag
<1>3. ~Sent(CloseSession(<<t, bound[t]>>)) /\ \A w \in work : ~Runs(w, t)
  BY DEF Settled, Busy, Pending, Runs
<1> QED
  BY <1>1, <1>2, <1>3 DEF Truth

(* Such a step has the consent it needs. *)
LEMMA AskedConsents == ASSUME TypeInv, FlagInv, Asked PROVE Consent
<1>1. CASE UNCHANGED tabVars
  <2>1. noted' = noted /\ inbox' = inbox
    BY <1>1 DEF tabVars
  <2> QED
    BY <2>1 DEF Consent, New, Sent
<1>2. CASE \E s, b, sel : TabsChange(s, b, sel) /\ Keeps(s, b)
  <2>1. PICK s, b, sel : TabsChange(s, b, sel) /\ Keeps(s, b)
    BY <1>2
  <2>2. noted \ noted' = sessionsToClose(ToSet(s), b, sel) /\ Extends(inbox, inbox', Ends(s, b))
    BY <2>1, TabsChangeSends
  <2>3. ASSUME NEW p \in noted \ noted', InTransaction(p), p[1] \notin muddled, Settled(p[1], p[2]) PROVE FALSE
    <3>1. p = <<p[1], p[2]>> /\ p[1] \in Open
      BY DEF TypeInv, WindowInv
    <3>2. p[2] = bound[p[1]]
      BY <2>3, <3>1 DEF FlagInv, TabFlag, Settles
    <3>3. p[1] \in flags /\ bound[p[1]] \in up
      BY <2>3, <3>1, <3>2, InTransactionFlagged
    <3>4. p[1] \in ToSet(s) /\ b[p[1]] = p[2]
      BY <2>1, <3>1, <3>2, <3>3 DEF Keeps
    <3> QED
      BY <2>2, <3>4 DEF sessionsToClose
  <2>4. \A m \in Ends(s, b) : m.op = "close"
    BY <2>1 DEF Ends, Keeps, CloseSession
  <2>5. \A m : New(m) => m.op = "close"
    BY <2>2, <2>4 DEF New, Sent, Extends
  <2>6. \A f : ~New(RollBack(f))
    BY <2>5 DEF RollBack
  <2>7. \A c : ~New(Disconnection(c, TRUE, TRUE))
    BY <2>5 DEF Disconnection
  <2> QED
    BY <2>3, <2>6, <2>7 DEF Consent
<1> QED
  BY <1>1, <1>2 DEF Asked

(* The tabs stay, or others come; what each is bound to stays. *)
LEMMA StayingAsked ==
  ASSUME NEW s, NEW b, NEW sel, TabsChange(s, b, sel), Open \subseteq ToSet(s), \A t \in Open : b[t] = bound[t]
  PROVE  Asked
<1>1. Keeps(s, b)
  BY DEF Keeps, connectionsLeft
<1> QED
  BY <1>1 DEF Asked

(* A new tab needs none. *)
LEMMA AddTabAsked == ASSUME StripInv, NEW c, NEW sel, AddTab(c, sel) PROVE Asked
<1>1. PICK t \in TabIds \ used : TabsChange(Append(strip, t), With(bound, t, c), sel)
  BY DEF AddTab
<1> DEFINE s == Append(strip, t)  b == With(bound, t, c)
<1>2. t \notin Open /\ ToSet(s) = Open \cup {t}
  <2>1. strip \in Seq(TabIds) /\ IsInjective(strip) /\ t \notin ToSet(strip)
    BY DEF StripInv, Open
  <2> QED
    BY <2>1, StripAppend DEF Open
<1>3. \A x \in Open : b[x] = bound[x]
  BY <1>2 DEF With, StripInv
<1> HIDE DEF s, b
<1>4. TabsChange(s, b, sel)
  BY <1>1 DEF s, b
<1> QED
  BY <1>2, <1>3, <1>4, StayingAsked

(* A close that ends no transaction needs none. *)
LEMMA RunCloseAsked ==
  ASSUME TypeInv, NEW t \in Open, NEW kind \in CloseKinds, runClose(kind, t),
         transactionsEndedBy(tabsClosedBy(kind, t), ConnsLeftBy(kind, t)) = {}
  PROVE  Asked
<1>0. StripInv
  BY DEF TypeInv
<1>1. PICK s, b :
        /\ s \in Seq(TabIds) /\ s # <<>> /\ IsInjective(s) /\ active' \in ToSet(s) /\ TabsChange(s, b, selected)
        /\ \/ /\ ToSet(s) = Open \ tabsClosedBy(kind, t) /\ b = [x \in ToSet(s) |-> bound[x]]
              /\ used' = used /\ (selected' = selected \/ selected' \in live)
           \/ /\ kind = "close" /\ Open = {t} /\ selected' = selected
              /\ \E n \in TabIds \ used : s = <<n>> /\ b = [x \in {n} |-> bound[t]] /\ used' = used \cup {n}
  BY <1>0, RunCloseShape
<1>2. \A x \in tabsClosedBy(kind, t) : x \notin flags /\ (bound[x] \in flags => bound[x] \in ConnsLeftBy(kind, t))
  BY DEF transactionsEndedBy
<1>3. CASE ToSet(s) = Open \ tabsClosedBy(kind, t) /\ b = [x \in ToSet(s) |-> bound[x]]
  <2>1. \A x \in Open \cap flags : x \in ToSet(s) /\ b[x] = bound[x]
    BY <1>2, <1>3
  <2>2. ~(kind = "close" /\ Open = {t})
    <3>1. kind = "close" => t \in tabsClosedBy(kind, t)
      BY DEF tabsClosedBy
    <3>2. s[1] \in ToSet(s)
      BY <1>1 DEF ToSet
    <3> QED
      BY <1>3, <3>1, <3>2
  <2>3. ConnsLeftBy(kind, t) = {bound[x] : x \in ToSet(s)}
    BY <1>3, <2>2 DEF ConnsLeftBy
  <2>4. connectionsLeft(ToSet(s), b) = {}
    BY <1>2, <1>3, <2>3 DEF connectionsLeft
  <2> QED
    BY <1>1, <2>1, <2>4 DEF Asked, Keeps
<1>4. CASE kind = "close" /\ Open = {t} /\ \E n \in TabIds : s = <<n>> /\ b = [x \in {n} |-> bound[t]]
  <2>1. PICK n \in TabIds : s = <<n>> /\ b = [x \in {n} |-> bound[t]]
    BY <1>4
  <2>2. ToSet(s) = {n} /\ b[n] = bound[t]
    BY <2>1, StripOne
  <2>3. t \in tabsClosedBy(kind, t)
    BY <1>4 DEF tabsClosedBy
  <2>4. connectionsLeft(ToSet(s), b) = {}
    BY <1>4, <2>2 DEF connectionsLeft
  <2> QED
    BY <1>1, <1>2, <1>4, <2>3, <2>4 DEF Asked, Keeps
<1> QED
  BY <1>1, <1>3, <1>4

(* Nor does a tab asked to move: where a transaction would go, it asks. *)
LEMMA RequestAsked ==
  ASSUME TypeInv, NEW t \in Open, NEW c, NEW sel, requestTabConnection(t, c, sel)
  PROVE  Asked
<1>1. CASE bound[t] \notin {Null, c} /\ Asks({t}) # {}
  BY <1>1 DEF requestTabConnection, Asked
<1>2. CASE bound[t] \in {Null, c} \/ Asks({t}) = {}
  <2>1. TabsChange(strip, Bind(t, c), sel)
    BY <1>2 DEF requestTabConnection, setTabConnection
  <2> DEFINE b == Bind(t, c)
  <2>2. ToSet(strip) = Open /\ b[t] = c /\ \A x \in Open : x # t => b[x] = bound[x]
    BY DEF Open, Bind, TypeInv, StripInv
  <2>3. TabsChange(strip, b, sel)
    BY <2>1
  <2> HIDE DEF b
  <2>4. CASE bound[t] = c
    BY <2>2, <2>3, <2>4, StayingAsked
  <2>5. CASE bound[t] # c
    <3>1. bound[t] # Null =>
            t \notin flags /\ (bound[t] \in flags => \E x \in Open \ {t} : bound[x] = bound[t])
      BY <1>2, <2>5 DEF Asks, transactionsEndedBy
    <3>2. Null \notin up /\ Null \notin Files
      BY Distinct DEF TypeInv, BackendInv
    <3>3. \A x \in Open \cap flags : bound[x] \in up => x \in ToSet(strip) /\ b[x] = bound[x]
      BY <2>2, <3>1, <3>2
    <3>4. ASSUME NEW f \in connectionsLeft(ToSet(strip), b) PROVE FALSE
      <4>1. f \in flags \cap Files /\ (\E x \in Open : bound[x] = f) /\ \A x \in Open : b[x] # f
        BY <2>2, <3>4 DEF connectionsLeft
      <4>2. bound[t] = f
        BY <2>2, <4>1
      <4>3. PICK x \in Open \ {t} : bound[x] = f
        BY <3>1, <3>2, <4>1, <4>2
      <4> QED
        BY <2>2, <4>1, <4>3
    <3> QED
      BY <2>3, <3>3, <3>4 DEF Asked, Keeps
  <2> QED
    BY <2>4, <2>5
<1> QED
  BY <1>1, <1>2

(* Nor does a connect that goes on. *)
LEMMA ConnectedAsked == ASSUME TypeInv, ConnInv, NEW a \in attempts, ConnectedTo(a) PROVE Asked
<1>1. CASE a.reopens = Null /\ bound[active] \notin live
  <2>1. requestTabConnection(active, a.conn, a.conn) /\ active \in Open
    BY <1>1 DEF ConnectedTo, Attach, TypeInv, StripInv
  <2> QED
    BY <2>1, RequestAsked
<1>2. CASE a.reopens = Null /\ bound[active] \in live
  BY <1>2, AddTabAsked DEF ConnectedTo, Attach, TypeInv
<1>3. CASE a.reopens # Null
  <2> DEFINE b == [t \in Open |-> IF bound[t] = a.reopens THEN a.conn ELSE bound[t]]
             sel == IF bound[active] \in live THEN bound[active] ELSE a.conn
  <2>1. TabsChange(strip, b, sel)
    BY <1>3 DEF ConnectedTo
  <2>2. \A t \in Open : bound[t] # a.reopens => b[t] = bound[t]
    OBVIOUS
  <2> HIDE DEF b, sel
  <2>3. ToSet(strip) = Open /\ a.reopens \notin up /\ a.reopens \notin Files
    BY <1>3, Distinct DEF Open, ConnInv, TypeInv, WindowInv, Attempt
  <2>4. Keeps(strip, b)
    BY <2>2, <2>3 DEF Keeps, connectionsLeft
  <2> QED
    BY <2>1, <2>4 DEF Asked
<1> QED
  BY <1>1, <1>2, <1>3

(* A step that keeps the notes and sends no rollback and no reconnect. *)
LEMMA QuietConsents ==
  ASSUME TypeInv, noted \subseteq noted',
         \/ inbox' = inbox
         \/ \E m : inbox' = Append(inbox, m) /\ m.op \notin {"rollback", "close"} /\ (m.op = "disconnect" => ~m.again)
  PROVE  Consent
<1>1. CASE inbox' = inbox
  BY <1>1 DEF Consent, New, Sent
<1>2. CASE \E m : inbox' = Append(inbox, m) /\ m.op \notin {"rollback", "close"} /\ (m.op = "disconnect" => ~m.again)
  <2>1. PICK m : inbox' = Append(inbox, m) /\ m.op \notin {"rollback", "close"} /\ (m.op = "disconnect" => ~m.again)
    BY <1>2
  <2>2. inbox \in Seq(Command \cup {m})
    BY DEF TypeInv, WindowInv
  <2>3. Extends(inbox, inbox', {m})
    BY <2>1, <2>2, AppendExtends
  <2>4. \A x : New(x) => x = m
    BY <2>3 DEF New, Sent, Extends
  <2>5. \A f : ~New(RollBack(f))
    BY <2>1, <2>4 DEF RollBack
  <2>6. \A c : ~New(Disconnection(c, TRUE, TRUE))
    BY <2>1, <2>4 DEF Disconnection
  <2> QED
    BY <2>5, <2>6 DEF Consent
<1> QED
  BY <1>1, <1>2

(* A reconnect at once ends no transaction known to be open. *)
LEMMA ReconnectConsents == ASSUME TypeInv, FlagInv, handleReconnect PROVE Consent
<1>1. PICK c \in live \cap Servers :
        IF Asks({t \in Open : bound[t] = c}) # {} THEN UNCHANGED <<inbox, muddled>> ELSE SendDisconnect(c, TRUE)
  BY DEF handleReconnect
<1>2. noted' = noted
  BY DEF handleReconnect
<1>3. CASE inbox' = inbox
  BY <1>2, <1>3, QuietConsents
<1>4. CASE inbox' # inbox
  <2> DEFINE m == Disconnection(c, TRUE, TRUE)
  <2>1. inbox' = Append(inbox, m) /\ Asks({t \in Open : bound[t] = c}) = {}
    BY <1>1, <1>4 DEF SendDisconnect
  <2>2. m.op = "disconnect" /\ m.conn = c
    BY DEF Disconnection
  <2>3. \A t \in Open : bound[t] = c => t \notin flags
    BY <2>1 DEF Asks, transactionsEndedBy
  <2> HIDE DEF m
  <2>4. inbox \in Seq(Command \cup {m})
    BY DEF TypeInv, WindowInv
  <2>5. Extends(inbox, inbox', {m})
    BY <2>1, <2>4, AppendExtends
  <2>6. \A x : New(x) => x = m
    BY <2>5 DEF New, Sent, Extends
  <2>7. \A f : ~New(RollBack(f))
    BY <2>2, <2>6 DEF RollBack
  <2>8. \A d : New(Disconnection(d, TRUE, TRUE)) => d = c
    BY <2>2, <2>6 DEF Disconnection
  <2>9. ASSUME NEW t \in Open \ muddled, InTransaction(<<t, bound[t]>>), Settled(t, bound[t]),
               New(Disconnection(bound[t], TRUE, TRUE))
        PROVE  FALSE
    BY <2>3, <2>8, <2>9, InTransactionFlagged
  <2> QED
    BY <1>2, <2>7, <2>9 DEF Consent
<1> QED
  BY <1>3, <1>4

(* No step ends a known transaction unless it confirms a prompt. *)
LEMMA NextConsents == ASSUME TypeInv, ConnInv, FlagInv, ~Overtakes, [Next]_vars PROVE Consent
<1>0. StripInv /\ active \in Open
  BY DEF TypeInv, StripInv
<1>1. CASE openTab \/ \E c \in Conns : selectConnection(c)
  <2>1. (\E c, sel : AddTab(c, sel)) \/ UNCHANGED tabVars
    BY <1>1 DEF openTab, selectConnection
  <2> QED
    BY <1>0, <2>1, AddTabAsked, AskedConsents DEF Asked
<1>2. CASE setActiveTab \/ UNCHANGED vars
  BY <1>2, AskedConsents DEF setActiveTab, vars, Asked
<1>3. CASE updateTabContent
  <2>1. TabsChange(strip, bound, selected) /\ Open \subseteq ToSet(strip)
    BY <1>3 DEF updateTabContent, Open
  <2>2. Asked
    BY <2>1, StayingAsked
  <2> QED
    BY <2>2, AskedConsents
<1>4. CASE \E t \in Open, kind \in {"close", "others", "right"} : requestClose(kind, t)
  <2>1. PICK t \in Open, kind \in CloseKinds : requestClose(kind, t)
    BY <1>4 DEF CloseKinds
  <2>2. UNCHANGED tabVars \/ (runClose(kind, t) /\ transactionsEndedBy(tabsClosedBy(kind, t), ConnsLeftBy(kind, t)) = {})
    BY <2>1 DEF requestClose
  <2> QED
    BY <2>1, <2>2, RunCloseAsked, AskedConsents DEF Asked
<1>5. CASE confirmPendingClose \/ cancelPendingClose \/ confirmPendingSwitch \/ cancelPendingSwitch
  <2>1. Confirms
    BY <1>5 DEF confirmPendingClose, cancelPendingClose, confirmPendingSwitch, cancelPendingSwitch, Confirms
  <2> QED
    BY <2>1 DEF Consent
<1>6. CASE selectDatabase
  <2>1. requestTabConnection(active, selected, selected)
    BY <1>6 DEF selectDatabase
  <2> QED
    BY <1>0, <2>1, RequestAsked, AskedConsents
<1>7. CASE Connected
  <2>1. PICK a \in attempts : ConnectedTo(a) \/ GivesUp(a)
    BY <1>7, ConnectedIs
  <2>2. CASE ConnectedTo(a)
    BY <2>2, ConnectedAsked, AskedConsents
  <2>3. CASE GivesUp(a)
    <3>1. /\ Disconnection(a.conn, FALSE, FALSE).op = "disconnect"
          /\ ~Disconnection(a.conn, FALSE, FALSE).again
      BY DEF Disconnection
    <3> QED
      BY <2>3, <3>1, QuietConsents DEF GivesUp
  <2> QED
    BY <2>1, <2>2, <2>3
<1>8. CASE disconnect
  <2>1. PICK c : inbox' = Append(inbox, Disconnection(c, FALSE, TRUE)) /\ noted' = noted
    BY <1>8 DEF disconnect, SendDisconnect
  <2>2. Disconnection(c, FALSE, TRUE).op = "disconnect" /\ ~Disconnection(c, FALSE, TRUE).again
    BY DEF Disconnection
  <2> QED
    BY <2>1, <2>2, QuietConsents
<1>9. CASE connect \/ cancelConnect \/ Connects \/ Disconnected \/ Answer \/ RunEnds
  <2>1. UNCHANGED <<inbox, noted>>
    BY <1>9 DEF connect, cancelConnect, Connects, Disconnected, Answer, RunEnds, tabVars
  <2> QED
    BY <2>1, QuietConsents
<1>10. CASE Run
  <2> DEFINE m == [op |-> "run", id |-> runs + 1, tab |-> active, conn |-> runConnectionId(active, selected)]
  <2>1. inbox' = Append(inbox, m) /\ noted \subseteq noted'
    BY <1>10 DEF Run, Started
  <2>2. m.op = "run"
    OBVIOUS
  <2> HIDE DEF m
  <2> QED
    BY <2>1, <2>2, QuietConsents
<1>11. CASE Take
  <2>1. noted' = noted /\ \A j \in DOMAIN inbox' : j + 1 \in DOMAIN inbox /\ inbox'[j] = inbox[j + 1]
    BY <1>11, TakenIs DEF Take
  <2>2. \A x : ~New(x)
    BY <2>1 DEF New, Sent
  <2> QED
    BY <2>1, <2>2 DEF Consent
<1> QED
  BY <1>1, <1>2, <1>3, <1>4, <1>5, <1>6, <1>7, <1>8, <1>9, <1>10, <1>11, ReconnectConsents DEF Next

(* Where commands are taken up in the order sent, a transaction known to be open is ended by
   editorStore and connectionStore, which close, move or reconnect its tabs, only as the user
   confirms a prompt. *)
THEOREM ConsentIsAsked == ASSUME ~Overtakes PROVE Spec => ConsentBeforeRollback
<1>1. TypeInv /\ ConnInv /\ FlagInv /\ [Next]_vars => Consent
  BY NextConsents
<1> QED
  BY <1>1, Invariance, FlagInvariance, PTL DEF Spec, ConsentBeforeRollback
=============================================================================
