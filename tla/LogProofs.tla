------------------------------ MODULE LogProofs -------------------------------
(***************************************************************************)
(* The audit log keeps what it acknowledged, numbers the events of a       *)
(* domain apart, and tells the same before and after a restart, for any    *)
(* number of domains, recorders, events, crashes, clears and failing       *)
(* writes.                                                                 *)
(***************************************************************************)
EXTENDS AuditLog, FiniteSetTheorems, WellFoundedInduction, TLAPS

-----------------------------------------------------------------------------
(* Least and greatest elements, and what a filter keeps *)

(* A set of naturals has a least element. *)
LEMMA Least ==
    ASSUME NEW T \in SUBSET Nat, T # {}
    PROVE  \E x \in T : \A y \in T : x <= y
<1>1. PICK x \in T : \A y \in T : ~(<<y, x>> \in OpToRel(<, Nat))
  BY WFMin, NatLessThanWellFounded
<1>2. \A y \in T : x <= y
  <2> SUFFICES ASSUME NEW y \in T PROVE ~(y < x)
    OBVIOUS
  <2>1. ~(<<y, x>> \in {ss \in Nat \X Nat : ss[1] < ss[2]})
    BY <1>1, Zenon DEF OpToRel
  <2> QED
    BY <2>1
<1> QED
  BY <1>2

LEMMA MinIsLeast ==
    ASSUME NEW T \in SUBSET Nat, T # {}
    PROVE  MinOf(T) \in T /\ \A y \in T : MinOf(T) <= y
<1>1. PICK x \in T : \A y \in T : x <= y
  BY Least
<1> QED
  BY <1>1 DEF MinOf

(* A bounded set of naturals has a greatest one. *)
LEMMA MaxIsGreatest ==
    ASSUME NEW n \in Nat, NEW T \in SUBSET (0..n), T # {}
    PROVE  MaxOf(T) \in T /\ \A y \in T : y <= MaxOf(T)
<1> DEFINE U == {u \in Nat : \A t \in T : t <= u}
<1>1. n \in U /\ U \in SUBSET Nat
  OBVIOUS
<1>2. PICK u \in U : \A v \in U : u <= v
  BY <1>1, Least
<1>3. u \in T
  <2> SUFFICES ASSUME u \notin T PROVE FALSE
    OBVIOUS
  <2>1. \A t \in T : t <= u /\ t # u /\ t \in Nat
    OBVIOUS
  <2>2. u \in Nat /\ u # 0
    <3>1. PICK t \in T : TRUE
      OBVIOUS
    <3>2. t <= u /\ t # u /\ t \in Nat /\ u \in Nat
      BY <2>1, <3>1
    <3> QED
      BY <3>2
  <2>3. u - 1 \in U
    BY <2>1, <2>2
  <2> QED
    BY <2>3, <1>2, <2>2
<1> QED
  BY <1>3 DEF MaxOf

LEMMA Smaller ==
    ASSUME NEW n \in Nat, NEW T \in SUBSET (1..n), NEW S \in SUBSET T
    PROVE  /\ IsFiniteSet(T) /\ Cardinality(T) \in 0..n
           /\ Cardinality(S) \in 0..Cardinality(T)
           /\ S # T => Cardinality(S) < Cardinality(T)
<1>1. IsFiniteSet(1..n) /\ Cardinality(1..n) = n
  BY FS_Interval
<1>2. IsFiniteSet(T) /\ Cardinality(T) <= n
  BY <1>1, FS_Subset
<1>3. /\ IsFiniteSet(S) /\ Cardinality(S) <= Cardinality(T)
      /\ Cardinality(S) = Cardinality(T) <=> S = T
  BY <1>2, FS_Subset
<1>4. Cardinality(S) \in Nat /\ Cardinality(T) \in Nat
  BY <1>2, <1>3, FS_CardinalityType
<1> QED
  BY <1>2, <1>3, <1>4

(* Nth counts off the elements of I in order. *)
LEMMA NthInOrder ==
    ASSUME NEW n \in Nat, NEW I \in SUBSET (1..n)
    PROVE  /\ Cardinality(I) \in 0..n
           /\ \A k \in 1..Cardinality(I) : Nth(I, k) \in I
           /\ \A i \in I : \E k \in 1..Cardinality(I) : Nth(I, k) = i
           /\ \A j, k \in 1..Cardinality(I) : j < k => Nth(I, j) < Nth(I, k)
           /\ \A j, k \in 1..Cardinality(I) : Nth(I, j) = Nth(I, k) => j = k
<1> DEFINE Below(i) == {j \in I : j <= i}
           rank == [i \in I |-> Cardinality(Below(i))]
           N == Cardinality(I)
<1>0. \A i \in I : i \in 1..n /\ i \in Nat
  OBVIOUS
<1>1. IsFiniteSet(I) /\ N \in 0..n
  BY Smaller
<1>2. \A i \in I : Cardinality(Below(i)) \in 1..N
  <2> SUFFICES ASSUME NEW i \in I PROVE Cardinality(Below(i)) \in 1..N
    OBVIOUS
  <2>0. i \in Nat
    BY <1>0
  <2>1. i \in Below(i) /\ \A x \in Below(i) : x \in I /\ x \in 1..n
    BY <2>0, <1>0
  <2> HIDE DEF Below
  <2>2. Cardinality(Below(i)) \in 0..N
    <3>1. Below(i) \in SUBSET I
      BY <2>1
    <3> QED
      BY <3>1, Smaller
  <2>3. IsFiniteSet(Below(i))
    <3>1. Below(i) \in SUBSET (1..n)
      BY <2>1
    <3> QED
      BY <3>1, Smaller
  <2>4. Cardinality(Below(i)) # 0
    BY <2>3, <2>1, FS_EmptySet
  <2> QED
    BY <2>2, <2>4, <1>1
<1>3. \A i, j \in I : i < j => Cardinality(Below(i)) < Cardinality(Below(j))
  <2> SUFFICES ASSUME NEW i \in I, NEW j \in I, i < j
               PROVE  Cardinality(Below(i)) < Cardinality(Below(j))
    OBVIOUS
  <2>0. i \in Nat /\ j \in Nat
    BY <1>0
  <2>1. /\ \A x \in Below(i) : x \in Below(j)
        /\ \A x \in Below(j) : x \in 1..n
    BY <2>0, <1>0
  <2>2. j \in Below(j) /\ j \notin Below(i)
    BY <2>0
  <2> HIDE DEF Below
  <2>3. /\ Below(i) # Below(j)
        /\ Below(i) \in SUBSET Below(j) /\ Below(j) \in SUBSET (1..n)
    BY <2>1, <2>2
  <2> QED
    BY <2>3, Smaller
<1> HIDE DEF Below
<1>4. \A i, j \in I : rank[i] = rank[j] => i = j
  <2> SUFFICES ASSUME NEW i \in I, NEW j \in I, i # j PROVE rank[i] # rank[j]
    OBVIOUS
  <2>1. i < j \/ j < i
    OBVIOUS
  <2> QED
    BY <2>1, <1>2, <1>3, <1>1
<1>5. rank \in Injection(I, 1..N)
  BY <1>2, <1>4 DEF Injection, IsInjective
<1>6. IsFiniteSet(1..N) /\ Cardinality(1..N) = N
  BY <1>1, FS_Interval
<1>7. rank \in Surjection(I, 1..N)
  BY <1>5, <1>6, FS_Injection
<1>8. \A k \in 1..N : \E i \in I : rank[i] = k
  BY <1>7 DEF Surjection
<1>9. \A k : Nth(I, k) = CHOOSE i \in I : Cardinality(Below(i)) = k
  BY DEF Nth, Below
<1>10. \A k \in 1..N : Nth(I, k) \in I /\ Cardinality(Below(Nth(I, k))) = k
  BY <1>8, <1>9
<1>11. \A i \in I : Nth(I, rank[i]) = i
  BY <1>10, <1>2, <1>4
<1>12. ASSUME NEW j \in 1..N, NEW k \in 1..N, j < k PROVE Nth(I, j) < Nth(I, k)
  <2>1. PICK a \in I : a = Nth(I, j) /\ Cardinality(Below(a)) = j
    BY <1>10
  <2>2. PICK b \in I : b = Nth(I, k) /\ Cardinality(Below(b)) = k
    BY <1>10
  <2>3. a \in Nat /\ b \in Nat /\ j \in Nat /\ k \in Nat
    BY <1>0, <1>1
  <2>4. ~(b < a)
    BY <2>1, <2>2, <2>3, <1>3, <1>12
  <2>5. a # b
    BY <2>1, <2>2, <2>3, <1>12
  <2>6. a < b
    BY <2>3, <2>4, <2>5
  <2> QED
    BY <2>6, <2>1, <2>2
<1>13. \A j, k \in 1..N : Nth(I, j) = Nth(I, k) => j = k
  BY <1>10
<1> QED
  BY <1>1, <1>2, <1>10, <1>11, <1>12, <1>13

(* A filter keeps the elements at positions I, in order. *)
LEMMA KeptInOrder ==
    ASSUME NEW s, NEW n \in Nat, NEW I \in SUBSET (1..n)
    PROVE  /\ DOMAIN Kept(s, I) = 1..Cardinality(I) /\ Len(Kept(s, I)) = Cardinality(I)
           /\ \A k \in 1..Cardinality(I) : Kept(s, I)[k] = s[Nth(I, k)] /\ Nth(I, k) \in I
           /\ \A S : (\A i \in I : s[i] \in S) => Kept(s, I) \in Seq(S)
<1>1. Cardinality(I) \in Nat /\ \A k \in 1..Cardinality(I) : Nth(I, k) \in I
  BY NthInOrder
<1>2. /\ Kept(s, I) = [n_1 \in 1..Cardinality(I) |-> s[Nth(I, n_1)]]
      /\ DOMAIN Kept(s, I) = 1..Cardinality(I) /\ Len(Kept(s, I)) = Cardinality(I)
      /\ \A k \in 1..Cardinality(I) : Kept(s, I)[k] = s[Nth(I, k)]
  BY <1>1 DEF Kept
<1>3. ASSUME NEW S, \A i \in I : s[i] \in S PROVE Kept(s, I) \in Seq(S)
  <2>1. \A k \in 1..Cardinality(I) : s[Nth(I, k)] \in S
    BY <1>1, <1>3
  <2>2. Kept(s, I) \in [1..Cardinality(I) -> S]
    BY <2>1, <1>2
  <2> QED
    BY <2>2, <1>1
<1> QED
  BY <1>1, <1>2, <1>3

LEMMA Elements ==
    ASSUME NEW S, NEW s \in Seq(S)
    PROVE  Len(s) \in Nat /\ s \in [1..Len(s) -> S] /\ \A i \in 1..Len(s) : s[i] \in S
OBVIOUS

LEMMA FromFunction ==
    ASSUME NEW S, NEW n \in Nat, NEW s \in [1..n -> S]
    PROVE  s \in Seq(S) /\ Len(s) = n
OBVIOUS

LEMMA Appending ==
    ASSUME NEW S, NEW s \in Seq(S), NEW x \in S
    PROVE  /\ Append(s, x) \in Seq(S) /\ Len(Append(s, x)) = Len(s) + 1
           /\ Append(s, x)[Len(s) + 1] = x /\ \A m \in 1..Len(s) : Append(s, x)[m] = s[m]
           /\ Append(s, x) = [m \in 1..(Len(s) + 1) |-> Append(s, x)[m]]
<1>1. /\ Append(s, x) \in Seq(S) /\ Len(Append(s, x)) = Len(s) + 1
      /\ Append(s, x)[Len(s) + 1] = x /\ \A m \in 1..Len(s) : Append(s, x)[m] = s[m]
  OBVIOUS
<1>2. PICK t \in Seq(S) : t = Append(s, x) /\ Len(t) = Len(s) + 1
  BY <1>1
<1>3. t \in [1..(Len(s) + 1) -> S]
  BY <1>2, Elements
<1>4. t = [m \in 1..(Len(s) + 1) |-> t[m]]
  BY <1>3
<1> QED
  BY <1>1, <1>2, <1>4

LEMMA Prefix ==
    ASSUME NEW S, NEW s \in Seq(S), NEW n \in 0..Len(s)
    PROVE  /\ SubSeq(s, 1, n) = [k \in 1..n |-> s[k]]
           /\ SubSeq(s, 1, n) \in Seq(S) /\ Len(SubSeq(s, 1, n)) = n
           /\ \A k \in 1..n : SubSeq(s, 1, n)[k] = s[k]
<1>1. n \in Nat /\ Len(s) \in Nat /\ \A k \in 1..n : k \in 1..Len(s) /\ s[k] \in S
  OBVIOUS
<1>2. SubSeq(s, 1, n) = [k \in 1..(1 + n - 1) |-> s[1 + k - 1]]
  BY <1>1
<1>3. (1 + n - 1) = n /\ \A k \in 1..n : 1 + k - 1 = k
  BY <1>1
<1>4. SubSeq(s, 1, n) = [k \in 1..n |-> s[k]]
  BY <1>2, <1>3
<1>5. [k \in 1..n |-> s[k]] \in [1..n -> S]
  BY <1>1
<1> QED
  BY <1>1, <1>4, <1>5

-----------------------------------------------------------------------------
(* The inductive invariant *)

EventInfo == [index : 0..(MaxEvents - 1), dom : Domain, sequence : 0..(MaxEvents - 1)]
EventRecs ==
    [kind : {"event"}, index : 0..(MaxEvents - 1), dom : Domain, leaf : 1..MaxEvents,
     root : Seq(1..MaxEvents)]
HoldRecs == [kind : {"hold"}, dom : Domain, on : BOOLEAN]
PruneRecs == [kind : {"pruned"}, dom : Domain, max : 0..(MaxEvents - 1)]
Lines == EventRecs \cup HoldRecs \cup PruneRecs \cup {TornLine}
Files == [lines : Seq(Lines), eol : BOOLEAN]

Types ==
    /\ mode \in {"up", "down", "refused"} /\ clearing \in {"idle", "tree", "memory", "sled"}
    /\ pruning \in Domain \cup {NoDomain} /\ (pruning # NoDomain => mode = "up")
    /\ (clears = 0 => clearing = "idle") /\ (clearing # "idle" => mode = "up")
    /\ nextLeaf \in 1..(MaxEvents + 1) /\ clears \in Nat /\ errors \in Nat /\ intact \in BOOLEAN
    /\ rootAfter \in Seq(Seq(1..MaxEvents)) /\ events \in Seq(EventInfo)
    /\ sequences \in [Domain -> 0..MaxEvents] /\ \A d \in Domain : sequences[d] < nextLeaf
    /\ holds \subseteq Domain /\ retained \in [Domain -> SUBSET (0..(MaxEvents - 1))]
    /\ jsonl \in Files
    /\ sled.count \in 0..MaxEvents /\ DOMAIN sled.leaves \subseteq 0..(MaxEvents - 1)
    /\ rec \in [Recorder -> {Idle} \cup Numbered \cup Inserted]

(* The positions of the event lines. *)
Ev == LinesAt(jsonl, "event")

(* A sequence of leaves below n, whose recording has begun, none twice. *)
Begun(s, n) ==
    /\ s \in Seq(1..MaxEvents)
    /\ \A i \in 1..Len(s) : s[i] < n
    /\ \A i, j \in 1..Len(s) : s[i] = s[j] => i = j

(* An event line holds the root its leaf made. *)
GoodLine(l, n) ==
    /\ l.leaf < n /\ Begun(l.root, n)
    /\ Len(l.root) = l.index + 1 /\ l.root[l.index + 1] = l.leaf

(* A leaf is in the tree, in the file and in the sled store at most once. *)
FileGood(f, n) ==
    /\ \A k \in LinesAt(f, "event") : GoodLine(f.lines[k], n)
    /\ \A j, k \in LinesAt(f, "event") : f.lines[j].leaf = f.lines[k].leaf => j = k
SledGood(s, n) ==
    /\ \A i \in DOMAIN s.leaves : s.leaves[i] \in 1..MaxEvents /\ s.leaves[i] < n
    /\ \A i, j \in DOMAIN s.leaves : s.leaves[i] = s.leaves[j] => i = j
Leaves == Begun(tree, nextLeaf) /\ FileGood(jsonl, nextLeaf) /\ SledGood(sled, nextLeaf)

Holder(r) == rec[r].pc \in {"inserted", "appended"}

(* A leaf being recorded is not yet where its recorder still has to put    *)
(* it, and the recorder that holds the tree lock knows the tree.           *)
Recording(r) ==
    rec[r].pc # "idle" =>
      /\ mode = "up" /\ rec[r].leaf < nextLeaf /\ rec[r].sequence < rec[r].leaf
      /\ \A i \in DOMAIN sled.leaves : sled.leaves[i] # rec[r].leaf
      /\ rec[r].pc # "appended" => \A k \in Ev : jsonl.lines[k].leaf # rec[r].leaf
      /\ rec[r].pc = "numbered" => \A i \in 1..Len(tree) : tree[i] # rec[r].leaf
      /\ Holder(r) => /\ rec[r].root = tree /\ Len(tree) = rec[r].index + 1
                      /\ tree[Len(tree)] = rec[r].leaf

Recorders ==
    /\ \A r \in Recorder : Recording(r)
    /\ \A r, q \in Recorder :
         rec[r].pc # "idle" /\ rec[q].pc # "idle" /\ rec[r].leaf = rec[q].leaf => r = q
    /\ \A r, q \in Recorder : Holder(r) /\ Holder(q) => r = q

TypeInv == Types /\ Leaves /\ Recorders

(* Only a last line without a line break does not parse. *)
TornLast(f) == \A i \in LinesAt(f, "torn") : i = Len(f.lines) /\ ~f.eol

(* The line of an acknowledged record is in the file, and the roots of all *)
(* event lines from there on commit to its leaf.                           *)
HeldFrom(f, a, k) ==
    /\ k \in LinesAt(f, "event") /\ f.lines[k].index = a.index /\ f.lines[k].leaf = a.leaf
    /\ \A j \in LinesAt(f, "event") : j >= k =>
         a.index < Len(f.lines[j].root) /\ f.lines[j].root[a.index + 1] = a.leaf
Held(f) == \A a \in acked : \E k \in LinesAt(f, "event") : HeldFrom(f, a, k)

(* The last line of the file is that of the recorder past its append. *)
LastIsOwn ==
    \A r \in Recorder : rec[r].pc = "appended" =>
      Len(jsonl.lines) \in Ev /\ jsonl.lines[Len(jsonl.lines)] = LineOf(r)

AckInv ==
    /\ \A a \in acked : a.index \in Nat
    /\ acked # {} => clearing = "idle"
    /\ intact => TornLast(jsonl) /\ LastIsOwn /\ Held(jsonl)
    /\ AckedDurableWhileIntact

Waiting(r) == rec[r].pc \in {"numbered", "inserted"}

(* The numbers of events and of records under way are apart. *)
SeqInv ==
    clears = 0 =>
      /\ SequencesDistinct
      /\ \A r \in Recorder : Waiting(r) =>
           /\ rec[r].sequence < sequences[rec[r].dom]
           /\ \A i \in 1..Len(events) :
                events[i].dom = rec[r].dom => events[i].sequence # rec[r].sequence
           /\ \A q \in Recorder :
                Waiting(q) /\ rec[q].dom = rec[r].dom /\ rec[q].sequence = rec[r].sequence => q = r

(* The roots in the file, and the tree while the process is up, are        *)
(* prefixes of one another; the sled store knows no leaf the file does not.*)
Ordered(f) ==
    \A j, k \in LinesAt(f, "event") : j < k =>
      /\ f.lines[j].index < f.lines[k].index
      /\ f.lines[j].root = SubSeq(f.lines[k].root, 1, f.lines[j].index + 1)
Under(f, t) ==
    \A k \in LinesAt(f, "event") :
      f.lines[k].index < Len(t) /\ f.lines[k].root = SubSeq(t, 1, f.lines[k].index + 1)
Stored(f, s) == \A i \in DOMAIN s.leaves : \E k \in LinesAt(f, "event") : f.lines[k].index = i
RootHistory(t) == [i \in 1..Len(t) |-> SubSeq(t, 1, i)]

RootInv ==
    clears = 0 /\ intact =>
      /\ mode = "up" => rootAfter = RootHistory(tree) /\ Under(jsonl, tree)
      /\ Ordered(jsonl) /\ Stored(jsonl, sled)
      /\ \A r \in Recorder : rec[r].pc = "inserted" =>
           \A k \in Ev : jsonl.lines[k].index < rec[r].index

(* A retained root ends at an event of the file; the listed events es are  *)
(* events of the file, and exactly those that no retained root rs covers.  *)
Anchored(f) ==
    \A j \in LinesAt(f, "pruned") : \E k \in LinesAt(f, "event") : f.lines[k].index = f.lines[j].max
Listed(f, es) ==
    \A i \in 1..Len(es) : \E k \in LinesAt(f, "event") :
      f.lines[k].index = es[i].index /\ f.lines[k].dom = es[i].dom
Shown(x, es) == \E i \in 1..Len(es) : es[i].index = x
Covered(l, rs) == \E m \in rs[l.dom] : l.index <= m
Displayed(f, es, rs) ==
    \A k \in LinesAt(f, "event") : Shown(f.lines[k].index, es) <=> ~Covered(f.lines[k], rs)

(* Without failing appends, the file says what memory holds. *)
RetInv ==
    clears = 0 /\ intact /\ errors = 0 =>
      /\ Anchored(jsonl)
      /\ mode = "up" =>
           /\ LinesAt(jsonl, "torn") = {}
           /\ holds = HoldsIn(jsonl) /\ retained = RetainedIn(jsonl)
           /\ Listed(jsonl, events) /\ Displayed(jsonl, events, retained)

-----------------------------------------------------------------------------
(* The lines of the file *)

LEMMA LineKinds ==
    ASSUME NEW l \in Lines
    PROVE  /\ l.kind \in {"event", "hold", "pruned", "torn"}
           /\ l.kind = "event" => l \in EventRecs
           /\ l.kind = "hold" => l \in HoldRecs
           /\ l.kind = "pruned" => l \in PruneRecs
           /\ l.kind = "torn" => l = TornLine
BY DEF Lines, EventRecs, HoldRecs, PruneRecs, TornLine

(* A file that grows by a line or by a torn one; one whose last line is    *)
(* joined by another.                                                      *)
Grows(f, g, line) ==
    \/ g = f
    \/ /\ f.eol
       /\ \E l \in {line, TornLine}, e \in BOOLEAN :
            g = [lines |-> Append(f.lines, l), eol |-> e] /\ (l = TornLine => ~e)
Joins(f, g) ==
    \E e \in BOOLEAN : g = [lines |-> [f.lines EXCEPT ![Len(f.lines)] = TornLine], eol |-> e]

FileStep(line) ==
    \/ jsonl' = jsonl /\ intact' = intact
    \/ /\ line \in Lines /\ line.kind # "torn"
       /\ \/ Grows(jsonl, jsonl', line) /\ intact' = intact
          \/ Joins(jsonl, jsonl') /\ intact' = FALSE

(* The lines of g are lines of f, or the new one. *)
Kin(f, g, line) ==
    \A kind \in {"event", "hold", "pruned"} : \A k \in LinesAt(g, kind) :
      \/ k \in LinesAt(f, kind) /\ g.lines[k] = f.lines[k]
      \/ k = Len(f.lines) + 1 /\ g.lines[k] = line /\ line.kind = kind

(* The lines of f are lines of g. *)
Keeps(f, g) ==
    /\ \A k \in 1..Len(f.lines) : g.lines[k] = f.lines[k]
    /\ Len(g.lines) \in {Len(f.lines), Len(f.lines) + 1}

LEMMA GrowsShape ==
    ASSUME NEW f \in Files, NEW line \in Lines, line.kind # "torn", NEW g, Grows(f, g, line)
    PROVE  g \in Files /\ Kin(f, g, line) /\ Keeps(f, g) /\ (TornLast(f) => TornLast(g))
<1>1. CASE g = f
  BY <1>1 DEF Kin, Keeps, Files
<1>2. CASE g # f
  <2>1. PICK l \in {line, TornLine}, e \in BOOLEAN :
          g = [lines |-> Append(f.lines, l), eol |-> e] /\ (l = TornLine => ~e) /\ f.eol
    BY <1>2 DEF Grows
  <2>2. l \in Lines
    BY DEF Lines
  <2>3. PICK s \in Seq(Lines) : s = f.lines
    BY DEF Files
  <2>4. /\ g.lines = Append(s, l) /\ g.eol = e /\ Append(s, l) \in Seq(Lines)
        /\ Len(Append(s, l)) = Len(s) + 1 /\ Append(s, l)[Len(s) + 1] = l
        /\ \A k \in 1..Len(s) : Append(s, l)[k] = s[k]
    BY <2>1, <2>2, <2>3
  <2>5. g \in Files
    BY <2>1, <2>4, <2>3 DEF Files
  <2>6. Keeps(f, g)
    BY <2>3, <2>4 DEF Keeps
  <2>7. \A k \in 1..(Len(s) + 1) : k \in 1..Len(s) \/ k = Len(s) + 1
    BY <2>3
  <2>8. Kin(f, g, line)
    <3> SUFFICES ASSUME NEW kind \in {"event", "hold", "pruned"}, NEW k \in LinesAt(g, kind)
                 PROVE  \/ k \in LinesAt(f, kind) /\ g.lines[k] = f.lines[k]
                        \/ k = Len(f.lines) + 1 /\ g.lines[k] = line /\ line.kind = kind
      BY DEF Kin
    <3>1. k \in 1..(Len(s) + 1) /\ g.lines[k].kind = kind
      BY <2>4 DEF LinesAt
    <3>2. CASE k \in 1..Len(s)
      BY <3>1, <3>2, <2>3, <2>4 DEF LinesAt
    <3>3. CASE k = Len(s) + 1
      <4>1. g.lines[k] = l /\ l.kind = kind
        BY <3>1, <3>3, <2>4
      <4>2. l # TornLine
        BY <4>1 DEF TornLine
      <4> QED
        BY <4>1, <4>2, <3>3, <2>3
    <3> QED
      BY <3>1, <3>2, <3>3, <2>7
  <2>9. ASSUME TornLast(f) PROVE TornLast(g)
    <3> SUFFICES ASSUME NEW i \in LinesAt(g, "torn") PROVE i = Len(g.lines) /\ ~g.eol
      BY DEF TornLast
    <3>1. i \in 1..(Len(s) + 1) /\ g.lines[i].kind = "torn"
      BY <2>4 DEF LinesAt
    <3>2. i \notin 1..Len(s)
      <4> SUFFICES ASSUME i \in 1..Len(s) PROVE FALSE
        OBVIOUS
      <4>1. i \in LinesAt(f, "torn")
        BY <3>1, <2>3, <2>4 DEF LinesAt
      <4> QED
        BY <4>1, <2>9, <2>1 DEF TornLast
    <3>3. i = Len(s) + 1 /\ l.kind = "torn"
      BY <3>1, <3>2, <2>7, <2>4
    <3>4. l = TornLine
      BY <3>3, <2>2, LineKinds
    <3> QED
      BY <3>3, <3>4, <2>1, <2>4
  <2> QED
    BY <2>5, <2>6, <2>8, <2>9
<1> QED
  BY <1>1, <1>2

LEMMA JoinsShape ==
    ASSUME NEW f \in Files, NEW g, Joins(f, g), NEW line
    PROVE  g \in Files /\ Kin(f, g, line)
<1>1. PICK e \in BOOLEAN :
        g = [lines |-> [f.lines EXCEPT ![Len(f.lines)] = TornLine], eol |-> e]
  BY DEF Joins
<1>2. PICK s \in Seq(Lines) : s = f.lines
  BY DEF Files
<1> DEFINE t == [s EXCEPT ![Len(s)] = TornLine]
<1>3. TornLine \in Lines
  BY DEF Lines
<1>4. t \in Seq(Lines) /\ Len(t) = Len(s) /\ \A k \in 1..Len(s) : t[k] = s[k] \/ t[k] = TornLine
  <2>1. Len(s) \in Nat /\ s \in [1..Len(s) -> Lines]
    OBVIOUS
  <2>2. t \in [1..Len(s) -> Lines] /\ \A k \in 1..Len(s) : t[k] = s[k] \/ t[k] = TornLine
    BY <2>1, <1>3
  <2> HIDE DEF t
  <2> QED
    BY <2>1, <2>2
<1> HIDE DEF t
<1>5. g.lines = t /\ g.eol = e
  BY <1>1, <1>2 DEF t
<1>6. g \in Files
  BY <1>1, <1>4, <1>2 DEF Files, t
<1>7. Kin(f, g, line)
  <2> SUFFICES ASSUME NEW kind \in {"event", "hold", "pruned"}, NEW k \in LinesAt(g, kind)
               PROVE  k \in LinesAt(f, kind) /\ g.lines[k] = f.lines[k]
    BY DEF Kin
  <2>1. k \in 1..Len(s) /\ t[k].kind = kind
    BY <1>5, <1>4 DEF LinesAt
  <2>2. t[k] # TornLine
    BY <2>1 DEF TornLine
  <2> QED
    BY <2>1, <2>2, <1>2, <1>4, <1>5 DEF LinesAt
<1> QED
  BY <1>6, <1>7

LEMMA StepShape ==
    ASSUME jsonl \in Files, intact \in BOOLEAN, NEW line, FileStep(line)
    PROVE  /\ jsonl' \in Files /\ intact' \in BOOLEAN /\ Kin(jsonl, jsonl', line)
           /\ intact' => /\ intact /\ Keeps(jsonl, jsonl')
                         /\ (TornLast(jsonl) => TornLast(jsonl'))
<1>1. CASE line \in Lines /\ line.kind # "torn" /\ Grows(jsonl, jsonl', line) /\ intact' = intact
  BY <1>1, GrowsShape
<1>2. CASE Joins(jsonl, jsonl') /\ intact' = FALSE
  BY <1>2, JoinsShape
<1>3. CASE jsonl' = jsonl /\ intact' = intact
  <2>1. Kin(jsonl, jsonl', line)
    BY <1>3 DEF Kin
  <2>2. Keeps(jsonl, jsonl')
    BY <1>3 DEF Keeps, Files
  <2> QED
    BY <1>3, <2>1, <2>2
<1> QED
  BY <1>1, <1>2, <1>3 DEF FileStep

(* What the writers do to the file. *)
LEMMA LinesWithShape ==
    ASSUME NEW f \in Files, NEW line, NEW l \in {line, TornLine}, NEW e \in BOOLEAN,
           l = TornLine => ~e
    PROVE  LET g == [lines |-> LinesWith(f, l), eol |-> e] IN
           /\ f.eol => Grows(f, g, line)
           /\ ~f.eol => Joins(f, g)
BY DEF LinesWith, Grows, Joins, Files

LEMMA WriteLineSteps ==
    ASSUME jsonl \in Files, intact \in BOOLEAN, NEW line \in Lines, line.kind # "torn",
           WriteLine(line)
    PROVE  /\ FileStep(line)
           /\ intact' => /\ jsonl.eol
                         /\ jsonl' = [lines |-> Append(jsonl.lines, line), eol |-> TRUE]
<1> DEFINE g == [lines |-> LinesWith(jsonl, line), eol |-> TRUE]
<1>1. jsonl' = g /\ intact' = (intact /\ jsonl.eol) /\ jsonl.eol \in BOOLEAN
  BY DEF WriteLine, Appended, Files
<1>2. line # TornLine
  BY DEF TornLine
<1>3. (jsonl.eol => Grows(jsonl, g, line)) /\ (~jsonl.eol => Joins(jsonl, g))
  BY <1>2, LinesWithShape
<1>4. jsonl.eol => g = [lines |-> Append(jsonl.lines, line), eol |-> TRUE]
  BY DEF LinesWith
<1> HIDE DEF g
<1>5. CASE jsonl.eol
  BY <1>1, <1>3, <1>4, <1>5 DEF FileStep
<1>6. CASE ~jsonl.eol
  <2>1. intact' = FALSE
    BY <1>1, <1>6
  <2> QED
    BY <1>1, <1>3, <1>6, <2>1 DEF FileStep
<1> QED
  BY <1>5, <1>6

LEMMA CutOffSteps ==
    ASSUME jsonl \in Files, intact \in BOOLEAN, NEW line \in Lines, line.kind # "torn",
           jsonl' \in CutOff(jsonl, line), intact' = (intact /\ jsonl.eol)
    PROVE  FileStep(line)
<1>1. PICK l \in {line, TornLine} : jsonl' = [lines |-> LinesWith(jsonl, l), eol |-> FALSE]
  BY DEF CutOff
<1> DEFINE g == [lines |-> LinesWith(jsonl, l), eol |-> FALSE]
<1>2. (jsonl.eol => Grows(jsonl, g, line)) /\ (~jsonl.eol => Joins(jsonl, g))
  BY LinesWithShape
<1>3. jsonl' = g /\ jsonl.eol \in BOOLEAN
  BY <1>1 DEF Files
<1> HIDE DEF g
<1>4. CASE jsonl.eol
  <2>1. intact' = intact
    BY <1>4, Zenon
  <2> QED
    BY <1>2, <1>3, <1>4, <2>1 DEF FileStep
<1>5. CASE ~jsonl.eol
  <2>1. intact' = FALSE
    BY <1>5, Zenon
  <2> QED
    BY <1>2, <1>3, <1>5, <2>1 DEF FileStep
<1> QED
  BY <1>3, <1>4, <1>5

LEMMA FailedWriteSteps ==
    ASSUME jsonl \in Files, intact \in BOOLEAN, errors \in Nat, NEW line \in Lines,
           line.kind # "torn", FailedWrite(line)
    PROVE  FileStep(line) /\ errors' \in Nat /\ errors' # 0
<1>1. errors' = errors + 1 /\ intact' = (intact /\ (jsonl.eol \/ jsonl' = jsonl))
  BY DEF FailedWrite
<1> SUFFICES FileStep(line)
  BY <1>1
<1>2. CASE jsonl' = jsonl
  <2>1. intact' = intact
    BY <1>1, <1>2, Zenon
  <2> QED
    BY <1>2, <2>1 DEF FileStep, Grows
<1>3. CASE jsonl' # jsonl
  <2>1. intact' = (intact /\ jsonl.eol)
    BY <1>1, <1>3, Zenon
  <2>2. CASE jsonl' = Appended(jsonl, line)
    <3> DEFINE g == [lines |-> LinesWith(jsonl, line), eol |-> TRUE]
    <3>1. line # TornLine
      BY DEF TornLine
    <3>2. (jsonl.eol => Grows(jsonl, g, line)) /\ (~jsonl.eol => Joins(jsonl, g))
      BY <3>1, LinesWithShape
    <3>3. jsonl' = g /\ jsonl.eol \in BOOLEAN
      BY <2>2 DEF Files, Appended
    <3> HIDE DEF g
    <3>4. CASE jsonl.eol
      <4>1. intact' = intact
        BY <3>4, <2>1, Zenon
      <4> QED
        BY <3>2, <3>3, <3>4, <4>1 DEF FileStep
    <3>5. CASE ~jsonl.eol
      <4>1. intact' = FALSE
        BY <3>5, <2>1, Zenon
      <4> QED
        BY <3>2, <3>3, <3>5, <4>1 DEF FileStep
    <3> QED
      BY <3>3, <3>4, <3>5
  <2>3. CASE jsonl' \in CutOff(jsonl, line)
    BY <2>1, <2>3, CutOffSteps
  <2> QED
    BY <2>2, <2>3, <1>3 DEF FailedWrite
<1> QED
  BY <1>2, <1>3

-----------------------------------------------------------------------------
(* What a restart reads *)

Kinds == {"event", "hold", "pruned"}

(* The two files hold the same lines that parse. *)
Same(f, g) ==
    \A kind \in Kinds :
      /\ LinesAt(g, kind) = LinesAt(f, kind)
      /\ \A k \in LinesAt(f, kind) : g.lines[k] = f.lines[k]

LEMMA RepairedShape ==
    ASSUME NEW f \in Files
    PROVE  /\ Repaired(f) \in Files
           /\ LinesAt(Repaired(f), "torn") = {}
           /\ LinesAt(f, "torn") = {} => Repaired(f) = f
           /\ \A line : Kin(f, Repaired(f), line)
           /\ TornLast(f) => Same(f, Repaired(f))
<1> DEFINE bad == {i \in 1..Len(f.lines) : f.lines[i] = TornLine}
           g == Repaired(f)
<1>1. PICK s \in Seq(Lines) : s = f.lines /\ Len(s) \in Nat
  BY DEF Files
<1>2. \A i \in 1..Len(s) : s[i] \in Lines
  BY <1>1
<1>3. \A i \in 1..Len(s) : s[i].kind = "torn" <=> s[i] = TornLine
  <2> SUFFICES ASSUME NEW i \in 1..Len(s) PROVE s[i].kind = "torn" <=> s[i] = TornLine
    OBVIOUS
  <2>1. s[i].kind = "torn" => s[i] = TornLine
    BY <1>2, LineKinds
  <2> QED
    BY <2>1 DEF TornLine
<1>4. bad = LinesAt(f, "torn")
  BY <1>1, <1>3 DEF LinesAt
<1>5. CASE bad = {}
  <2>1. g = f
    BY <1>5 DEF Repaired
  <2> HIDE DEF g
  <2>2. \A line : Kin(f, f, line)
    BY DEF Kin
  <2>3. Same(f, f)
    BY DEF Same
  <2> HIDE DEF bad
  <2> QED
    BY <2>1, <2>2, <2>3, <1>4, <1>5 DEF g
<1>6. CASE bad # {}
  <2>1. bad \in SUBSET Nat
    BY <1>1
  <2>2. MinOf(bad) \in bad /\ \A y \in bad : MinOf(bad) <= y
    BY <2>1, <1>6, MinIsLeast
  <2>3. PICK n \in Nat : n = MinOf(bad) - 1 /\ n + 1 \in 1..Len(s) /\ n + 1 \in bad
    <3>1. MinOf(bad) \in 1..Len(s)
      BY <2>2, <1>1
    <3> HIDE DEF bad
    <3>2. PICK b \in 1..Len(s) : b = MinOf(bad)
      BY <3>1
    <3>3. b - 1 \in Nat /\ (b - 1) + 1 = b
      BY <1>1
    <3> QED
      BY <2>2, <3>2, <3>3
  <2>4. g = [lines |-> SubSeq(s, 1, n), eol |-> TRUE]
    BY <1>1, <1>6, <2>3 DEF Repaired
  <2>5. /\ SubSeq(s, 1, n) \in Seq(Lines) /\ Len(SubSeq(s, 1, n)) = n
        /\ \A k \in 1..n : SubSeq(s, 1, n)[k] = s[k]
    <3>1. n \in 0..Len(s)
      BY <1>1, <2>3
    <3> QED
      BY <3>1, Prefix
  <2> HIDE DEF g, bad
  <2>6. g \in Files /\ g.lines = SubSeq(s, 1, n)
    BY <2>4, <2>5 DEF Files
  <2>7. \A k \in 1..n : k \in 1..Len(s) /\ k \notin bad
    <3>1. \A y \in bad : n + 1 <= y
      <4>1. MinOf(bad) \in Nat
        BY <2>1, <2>2
      <4>2. n + 1 = MinOf(bad)
        BY <4>1, <2>3
      <4> QED
        BY <4>2, <2>2
    <3> QED
      BY <3>1, <2>3, <1>1
  <2>8. LinesAt(g, "torn") = {}
    <3> SUFFICES ASSUME NEW k \in LinesAt(g, "torn") PROVE FALSE
      OBVIOUS
    <3>1. k \in 1..n /\ s[k].kind = "torn"
      BY <2>5, <2>6 DEF LinesAt
    <3> QED
      BY <3>1, <2>7, <1>4, <1>1 DEF LinesAt
  <2>9. \A kind \in Kinds : \A k \in LinesAt(g, kind) :
          k \in LinesAt(f, kind) /\ g.lines[k] = f.lines[k]
    BY <2>5, <2>6, <2>7, <1>1 DEF LinesAt
  <2>10. \A line : Kin(f, g, line)
    BY <2>9 DEF Kin, Kinds
  <2>11. ASSUME TornLast(f) PROVE Same(f, g)
    <3>1. n + 1 = Len(s)
      BY <2>3, <2>11, <1>4, <1>1 DEF TornLast
    <3> SUFFICES ASSUME NEW kind \in Kinds, NEW k \in LinesAt(f, kind) PROVE k \in LinesAt(g, kind)
      BY <2>9 DEF Same
    <3>2. k \in 1..Len(s) /\ s[k].kind = kind
      BY <1>1 DEF LinesAt
    <3>3. k # Len(s)
      <4>1. s[Len(s)].kind = "torn"
        BY <3>1, <2>3, <1>4, <1>1 DEF LinesAt
      <4> QED
        BY <4>1, <3>2 DEF Kinds
    <3>4. k \in 1..n
      BY <3>1, <3>2, <3>3, <1>1
    <3> QED
      BY <3>2, <3>4, <2>5, <2>6 DEF LinesAt
  <2> QED
    BY <2>6, <2>8, <2>10, <2>11, <1>4, <1>6 DEF g
<1> QED
  BY <1>5, <1>6

(* The event lines, counted off. *)
LEMMA EventLinesShape ==
    ASSUME NEW f \in Files
    PROVE  LET E == LinesAt(f, "event")
               lines == EventLines(f)
           IN  /\ E \in SUBSET (1..Len(f.lines)) /\ Len(f.lines) \in Nat
               /\ \A k \in E : f.lines[k] \in EventRecs
               /\ lines \in Seq(EventRecs) /\ Len(lines) = Cardinality(E) /\ Len(lines) \in Nat
               /\ \A n \in 1..Len(lines) : Nth(E, n) \in E /\ lines[n] = f.lines[Nth(E, n)]
               /\ \A k \in E : \E n \in 1..Len(lines) : Nth(E, n) = k
               /\ \A n, m \in 1..Len(lines) : n < m => Nth(E, n) < Nth(E, m)
               /\ \A n, m \in 1..Len(lines) : Nth(E, n) = Nth(E, m) => n = m
<1> DEFINE E == LinesAt(f, "event")
           lines == EventLines(f)
<1>1. PICK s \in Seq(Lines) : s = f.lines /\ Len(s) \in Nat
  BY DEF Files
<1>2. E \in SUBSET (1..Len(s)) /\ \A k \in E : s[k] \in Lines /\ s[k].kind = "event"
  BY <1>1 DEF LinesAt
<1>3. \A k \in E : s[k] \in EventRecs
  BY <1>2, LineKinds
<1>4. lines = Kept(s, E)
  BY <1>1 DEF EventLines
<1> HIDE DEF E, lines
<1>5. /\ Cardinality(E) \in 0..Len(s)
      /\ \A i \in E : \E k \in 1..Cardinality(E) : Nth(E, k) = i
      /\ \A j, k \in 1..Cardinality(E) : j < k => Nth(E, j) < Nth(E, k)
      /\ \A j, k \in 1..Cardinality(E) : Nth(E, j) = Nth(E, k) => j = k
  BY <1>1, <1>2, NthInOrder
<1>6. /\ Len(Kept(s, E)) = Cardinality(E) /\ Kept(s, E) \in Seq(EventRecs)
      /\ \A k \in 1..Cardinality(E) : Kept(s, E)[k] = s[Nth(E, k)] /\ Nth(E, k) \in E
  BY <1>1, <1>2, <1>3, KeptInOrder
<1>7. Len(lines) = Cardinality(E) /\ Len(lines) \in Nat /\ lines \in Seq(EventRecs)
  BY <1>4, <1>5, <1>6
<1> SUFFICES
      /\ E \in SUBSET (1..Len(f.lines)) /\ Len(f.lines) \in Nat
      /\ \A k \in E : f.lines[k] \in EventRecs
      /\ lines \in Seq(EventRecs) /\ Len(lines) = Cardinality(E) /\ Len(lines) \in Nat
      /\ \A n \in 1..Len(lines) : Nth(E, n) \in E /\ lines[n] = f.lines[Nth(E, n)]
      /\ \A k \in E : \E n \in 1..Len(lines) : Nth(E, n) = k
      /\ \A n, m \in 1..Len(lines) : n < m => Nth(E, n) < Nth(E, m)
      /\ \A n, m \in 1..Len(lines) : Nth(E, n) = Nth(E, m) => n = m
  BY Zenon DEF E, lines
<1> QED
  BY <1>1, <1>2, <1>3, <1>4, <1>5, <1>6, <1>7

(* Distinct leaves below n make fewer than n lines. *)
LEMMA FewLines ==
    ASSUME NEW f \in Files, NEW n \in Nat \ {0},
           \A k \in LinesAt(f, "event") : f.lines[k].leaf < n,
           \A j, k \in LinesAt(f, "event") : f.lines[j].leaf = f.lines[k].leaf => j = k
    PROVE  Len(EventLines(f)) < n
<1> DEFINE E == LinesAt(f, "event")
           leaf == [k \in E |-> f.lines[k].leaf]
<1>1. (\A k \in E : f.lines[k] \in EventRecs) /\ Len(EventLines(f)) = Cardinality(E)
      /\ Len(EventLines(f)) \in Nat
  BY EventLinesShape
<1>2. \A k \in E : f.lines[k].leaf \in 1..(n - 1)
  BY <1>1 DEF EventRecs
<1>3. leaf \in Injection(E, 1..(n - 1))
  <2>1. leaf \in [E -> 1..(n - 1)] /\ \A j, k \in E : leaf[j] = leaf[k] => j = k
    BY <1>2
  <2> QED
    BY <2>1 DEF Injection, IsInjective
<1>4. IsFiniteSet(1..(n - 1)) /\ Cardinality(1..(n - 1)) = n - 1
  BY FS_Interval
<1>5. Cardinality(E) <= n - 1
  BY <1>3, <1>4, FS_Injection
<1> QED
  BY <1>1, <1>5

(* The events a restart shows: the lines no retained root covers, numbered *)
(* by the lines of their domain before them.                               *)
Uncovered(f) ==
    {i \in 1..Len(EventLines(f)) :
       ~ \E m \in RetainedIn(f)[EventLines(f)[i].dom] : EventLines(f)[i].index <= m}
Before(f, i) == {j \in 1..(i - 1) : EventLines(f)[j].dom = EventLines(f)[i].dom}

LEMMA EventsInShape ==
    ASSUME NEW f \in Files
    PROVE  LET P == Uncovered(f) IN
           /\ P \in SUBSET (1..Len(EventLines(f)))
           /\ Len(EventsIn(f)) = Cardinality(P) /\ Cardinality(P) \in Nat
           /\ DOMAIN EventsIn(f) = 1..Cardinality(P)
           /\ \A x \in 1..Cardinality(P) :
                /\ Nth(P, x) \in P
                /\ EventsIn(f)[x] = [index |-> EventLines(f)[Nth(P, x)].index,
                                     dom |-> EventLines(f)[Nth(P, x)].dom,
                                     sequence |-> Cardinality(Before(f, Nth(P, x)))]
           /\ \A i \in P : \E x \in 1..Cardinality(P) : Nth(P, x) = i
           /\ \A x, y \in 1..Cardinality(P) : Nth(P, x) = Nth(P, y) => x = y
<1> DEFINE P == Uncovered(f)
           lines == EventLines(f)
           all == [i \in 1..Len(lines) |->
                     [index |-> lines[i].index, dom |-> lines[i].dom,
                      sequence |-> Cardinality(Before(f, i))]]
<1>1. Len(lines) \in Nat
  BY EventLinesShape
<1>2. P \in SUBSET (1..Len(lines))
  BY DEF Uncovered
<1>3. EventsIn(f) = Kept(all, P)
  BY DEF EventsIn, Uncovered, Before
<1> HIDE DEF all, P
<1>4. /\ Cardinality(P) \in 0..Len(lines)
      /\ \A i \in P : \E k \in 1..Cardinality(P) : Nth(P, k) = i
      /\ \A j, k \in 1..Cardinality(P) : Nth(P, j) = Nth(P, k) => j = k
  BY <1>1, <1>2, NthInOrder
<1>5. /\ Len(Kept(all, P)) = Cardinality(P) /\ DOMAIN Kept(all, P) = 1..Cardinality(P)
      /\ \A k \in 1..Cardinality(P) : Kept(all, P)[k] = all[Nth(P, k)] /\ Nth(P, k) \in P
  BY <1>1, <1>2, KeptInOrder
<1>6. \A i \in P : all[i] = [index |-> lines[i].index, dom |-> lines[i].dom,
                             sequence |-> Cardinality(Before(f, i))]
  BY <1>2 DEF all
<1> SUFFICES
      /\ P \in SUBSET (1..Len(lines))
      /\ Len(EventsIn(f)) = Cardinality(P) /\ Cardinality(P) \in Nat
      /\ DOMAIN EventsIn(f) = 1..Cardinality(P)
      /\ \A x \in 1..Cardinality(P) :
           /\ Nth(P, x) \in P
           /\ EventsIn(f)[x] = [index |-> lines[Nth(P, x)].index, dom |-> lines[Nth(P, x)].dom,
                                sequence |-> Cardinality(Before(f, Nth(P, x)))]
      /\ \A i \in P : \E x \in 1..Cardinality(P) : Nth(P, x) = i
      /\ \A x, y \in 1..Cardinality(P) : Nth(P, x) = Nth(P, y) => x = y
  BY Zenon DEF P, lines
<1> HIDE DEF lines
<1>7. ASSUME NEW x \in 1..Cardinality(P)
      PROVE  /\ Nth(P, x) \in P
             /\ EventsIn(f)[x] = [index |-> lines[Nth(P, x)].index, dom |-> lines[Nth(P, x)].dom,
                                  sequence |-> Cardinality(Before(f, Nth(P, x)))]
  <2>1. Nth(P, x) \in P /\ EventsIn(f)[x] = all[Nth(P, x)]
    BY <1>3, <1>5
  <2> QED
    BY <2>1, <1>6
<1> QED
  BY <1>1, <1>2, <1>3, <1>4, <1>5, <1>7

-----------------------------------------------------------------------------
(* Types, leaves and recorders *)

LEMMA RecKinds ==
    ASSUME Types, NEW r \in Recorder
    PROVE  /\ rec[r].pc \in {"idle", "numbered", "inserted", "appended"}
           /\ rec[r].pc = "idle" => rec[r] = Idle
           /\ rec[r].pc = "numbered" => rec[r] \in Numbered
           /\ rec[r].pc \in {"inserted", "appended"} => rec[r] \in Inserted
           /\ rec[r].pc # "idle" => rec[r].leaf \in 1..MaxEvents /\ rec[r].dom \in Domain
                                    /\ rec[r].sequence \in 0..(MaxEvents - 1)
<1>1. rec[r] \in {Idle} \cup Numbered \cup Inserted
  BY DEF Types
<1> QED
  BY <1>1 DEF Idle, Numbered, Inserted

(* The lines that are written. *)
LEMMA EventWritten ==
    ASSUME Types, NEW r \in Recorder, rec[r].pc \in {"inserted", "appended"}
    PROVE  /\ LineOf(r) \in Lines /\ LineOf(r).kind = "event"
           /\ LineOf(r).index = rec[r].index /\ LineOf(r).dom = rec[r].dom
           /\ LineOf(r).leaf = rec[r].leaf /\ LineOf(r).root = rec[r].root
           /\ rec[r].index \in 0..(MaxEvents - 1) /\ rec[r].root \in Seq(1..MaxEvents)
<1>1. rec[r] \in Inserted
  BY RecKinds
<1> QED
  BY <1>1 DEF LineOf, EventLine, Lines, EventRecs, Inserted

LEMMA HoldWritten ==
    ASSUME NEW d \in Domain, NEW on \in BOOLEAN
    PROVE  HoldLine(d, on) \in Lines /\ HoldLine(d, on).kind = "hold"
BY DEF HoldLine, Lines, HoldRecs

LEMMA PruneWritten ==
    ASSUME Types, NEW d \in Domain, IndicesOf(d) # {}
    PROVE  /\ MaxOf(IndicesOf(d)) \in IndicesOf(d) /\ MaxOf(IndicesOf(d)) \in 0..(MaxEvents - 1)
           /\ \A x \in IndicesOf(d) : x <= MaxOf(IndicesOf(d))
           /\ PruneLine(d, MaxOf(IndicesOf(d))) \in Lines
           /\ PruneLine(d, MaxOf(IndicesOf(d))).kind = "pruned"
<1>1. \A x \in IndicesOf(d) : x \in 0..(MaxEvents - 1)
  <2> SUFFICES ASSUME NEW x \in IndicesOf(d) PROVE x \in 0..(MaxEvents - 1)
    OBVIOUS
  <2>1. PICK i \in 1..Len(events) : x = events[i].index
    BY DEF IndicesOf
  <2>2. events \in Seq(EventInfo)
    BY DEF Types
  <2>3. events[i] \in EventInfo
    BY <2>2
  <2> QED
    BY <2>1, <2>3 DEF EventInfo
<1>2. MaxEvents - 1 \in Nat
  BY <1>1, AuditLogAssumption
<1>3. IndicesOf(d) \in SUBSET (0..(MaxEvents - 1))
  BY <1>1
<1>4. /\ MaxOf(IndicesOf(d)) \in IndicesOf(d)
      /\ \A x \in IndicesOf(d) : x <= MaxOf(IndicesOf(d))
  BY <1>2, <1>3, MaxIsGreatest
<1>5. MaxOf(IndicesOf(d)) \in 0..(MaxEvents - 1)
  BY <1>1, <1>4
<1> QED
  BY <1>4, <1>5 DEF PruneLine, Lines, PruneRecs

(* Each writer takes a step of the file. *)
LEMMA QuietFile ==
    ASSUME NEW line, jsonl' = jsonl, intact' = intact
    PROVE  FileStep(line)
BY DEF FileStep

LEMMA RecordWrites ==
    ASSUME Types, NEW r \in Recorder, AppendLine(r) \/ AppendFails(r)
    PROVE  FileStep(LineOf(r)) /\ errors' \in Nat
<1>1. /\ LineOf(r) \in Lines /\ LineOf(r).kind # "torn"
      /\ jsonl \in Files /\ intact \in BOOLEAN /\ errors \in Nat
  BY EventWritten DEF Types, AppendLine, AppendFails
<1>2. CASE WriteLine(LineOf(r))
  <2>1. FileStep(LineOf(r))
    BY <1>1, <1>2, WriteLineSteps
  <2>2. errors' = errors
    BY <1>2 DEF WriteLine
  <2> QED
    BY <1>1, <2>1, <2>2
<1>3. CASE FailedWrite(LineOf(r))
  BY <1>1, <1>3, FailedWriteSteps
<1> QED
  BY <1>2, <1>3 DEF AppendLine, AppendFails

LEMMA HoldWrites ==
    ASSUME Types, NEW d \in Domain, NEW on \in BOOLEAN, SetLegalHold(d, on)
    PROVE  FileStep(HoldLine(d, on)) /\ errors' \in Nat
<1>1. /\ HoldLine(d, on) \in Lines /\ HoldLine(d, on).kind # "torn"
      /\ jsonl \in Files /\ intact \in BOOLEAN /\ errors \in Nat
  BY HoldWritten DEF Types
<1>2. CASE WriteLine(HoldLine(d, on))
  <2>1. FileStep(HoldLine(d, on))
    BY <1>1, <1>2, WriteLineSteps
  <2>2. errors' = errors
    BY <1>2 DEF WriteLine
  <2> QED
    BY <1>1, <2>1, <2>2
<1>3. CASE FailedWrite(HoldLine(d, on))
  BY <1>1, <1>3, FailedWriteSteps
<1> QED
  BY <1>2, <1>3 DEF SetLegalHold

LEMMA PruneWrites ==
    ASSUME Types, PruneApply
    PROVE  /\ pruning \in Domain /\ errors' \in Nat
           /\ \E line :
                /\ FileStep(line) /\ line.kind \in {"none", "pruned"}
                /\ line.kind = "pruned" =>
                     /\ IndicesOf(pruning) # {}
                     /\ line = PruneLine(pruning, MaxOf(IndicesOf(pruning)))
<1>1. pruning \in Domain /\ jsonl \in Files /\ intact \in BOOLEAN /\ errors \in Nat
  BY DEF Types, PruneApply
<1>2. CASE IndicesOf(pruning) = {}
  <2>1. jsonl' = jsonl /\ intact' = intact /\ errors' = errors
    BY <1>2 DEF PruneApply
  <2>2. FileStep([kind |-> "none"]) /\ [kind |-> "none"].kind = "none"
    BY <2>1, QuietFile
  <2> QED
    BY <1>1, <2>1, <2>2
<1>3. CASE IndicesOf(pruning) # {}
  <2> DEFINE line == PruneLine(pruning, MaxOf(IndicesOf(pruning)))
  <2>1. line \in Lines /\ line.kind = "pruned"
    BY <1>1, <1>3, PruneWritten
  <2>2. WriteLine(line) \/ FailedWrite(line)
    BY <1>3 DEF PruneApply
  <2> HIDE DEF line
  <2>3. CASE WriteLine(line)
    <3>1. FileStep(line)
      BY <1>1, <2>1, <2>3, WriteLineSteps
    <3>2. errors' = errors
      BY <2>3 DEF WriteLine
    <3> QED
      BY <1>1, <1>3, <2>1, <3>1, <3>2 DEF line
  <2>4. CASE FailedWrite(line)
    <3>1. FileStep(line) /\ errors' \in Nat
      BY <1>1, <2>1, <2>4, FailedWriteSteps
    <3> QED
      BY <1>1, <1>3, <2>1, <3>1 DEF line
  <2> QED
    BY <2>2, <2>3, <2>4
<1> QED
  BY <1>2, <1>3

LEMMA CrashWrites ==
    ASSUME Types, Crash
    PROVE  \E line :
             /\ FileStep(line) /\ line.kind \in {"none", "event", "hold", "pruned"}
             /\ line.kind = "none" => jsonl' = jsonl
             /\ line.kind # "none" => EventsFree
             /\ line.kind = "event" => \E r \in Recorder : rec[r].pc = "inserted" /\ line = LineOf(r)
             /\ line.kind = "pruned" =>
                  \E d \in Domain : IndicesOf(d) # {} /\ line = PruneLine(d, MaxOf(IndicesOf(d)))
<1>1. jsonl \in Files /\ intact \in BOOLEAN
  BY DEF Types
<1>2. CASE jsonl' = jsonl /\ intact' = intact
  <2>1. FileStep([kind |-> "none"]) /\ [kind |-> "none"].kind = "none"
    BY <1>2, QuietFile
  <2> QED
    BY <1>2, <2>1
<1>3. ASSUME NEW line \in InFlight, jsonl' \in CutOff(jsonl, line), intact' = (intact /\ jsonl.eol)
      PROVE  \E l :
             /\ FileStep(l) /\ l.kind \in {"none", "event", "hold", "pruned"}
             /\ l.kind = "none" => jsonl' = jsonl
             /\ l.kind # "none" => EventsFree
             /\ l.kind = "event" => \E r \in Recorder : rec[r].pc = "inserted" /\ l = LineOf(r)
             /\ l.kind = "pruned" =>
                  \E d \in Domain : IndicesOf(d) # {} /\ l = PruneLine(d, MaxOf(IndicesOf(d)))
  <2>1. EventsFree
    BY <1>3, Zenon DEF InFlight
  <2>2. \/ \E r \in Recorder : rec[r].pc = "inserted" /\ line = LineOf(r)
        \/ \E d \in Domain : line = HoldLine(d, TRUE)
        \/ \E d \in Domain : IndicesOf(d) # {} /\ line = PruneLine(d, MaxOf(IndicesOf(d)))
    BY <1>3, Zenon DEF InFlight
  <2>3. CASE \E r \in Recorder : rec[r].pc = "inserted" /\ line = LineOf(r)
    <3>1. line \in Lines /\ line.kind = "event"
      BY <2>3, EventWritten
    <3>2. FileStep(line)
      BY <1>1, <1>3, <3>1, CutOffSteps
    <3> QED
      BY <2>1, <2>3, <3>1, <3>2
  <2>4. CASE \E d \in Domain : line = HoldLine(d, TRUE)
    <3>1. line \in Lines /\ line.kind = "hold"
      BY <2>4, HoldWritten
    <3>2. FileStep(line)
      BY <1>1, <1>3, <3>1, CutOffSteps
    <3> QED
      BY <2>1, <3>1, <3>2
  <2>5. CASE \E d \in Domain : IndicesOf(d) # {} /\ line = PruneLine(d, MaxOf(IndicesOf(d)))
    <3>1. line \in Lines /\ line.kind = "pruned"
      BY <2>5, PruneWritten
    <3>2. FileStep(line)
      BY <1>1, <1>3, <3>1, CutOffSteps
    <3> QED
      BY <2>1, <2>5, <3>1, <3>2
  <2> QED
    BY <2>2, <2>3, <2>4, <2>5
<1> QED
  BY <1>2, <1>3 DEF Crash

(* A file keeps its good lines and takes a new one. *)
LEMMA LineStaysGood ==
    ASSUME NEW l \in EventRecs, NEW n \in Nat, NEW m \in Nat, n <= m, GoodLine(l, n)
    PROVE  GoodLine(l, m)
<1>1. l.leaf \in Nat /\ l.root \in Seq(1..MaxEvents)
  BY DEF EventRecs
<1>2. PICK t \in Seq(1..MaxEvents) : t = l.root
  BY <1>1
<1>3. \A i \in 1..Len(t) : t[i] \in 1..MaxEvents
  BY Elements
<1>4. Begun(t, n) => Begun(t, m)
  BY <1>3, AuditLogAssumption DEF Begun
<1> QED
  BY <1>1, <1>2, <1>4 DEF GoodLine

LEMMA FileStaysGood ==
    ASSUME NEW f \in Files, NEW g, NEW line, Kin(f, g, line), NEW n \in Nat, NEW m \in Nat, n <= m,
           FileGood(f, n),
           line.kind = "event" =>
             GoodLine(line, m) /\ \A k \in LinesAt(f, "event") : f.lines[k].leaf # line.leaf
    PROVE  FileGood(g, m)
<1>1. \A k \in LinesAt(f, "event") : f.lines[k] \in EventRecs
  BY EventLinesShape
<1>2. \A k \in LinesAt(f, "event") : GoodLine(f.lines[k], m)
  BY <1>1, LineStaysGood DEF FileGood
<1>3. \A k \in LinesAt(g, "event") :
        \/ k \in LinesAt(f, "event") /\ g.lines[k] = f.lines[k]
        \/ k = Len(f.lines) + 1 /\ g.lines[k] = line /\ line.kind = "event"
  BY DEF Kin
<1> QED
  BY <1>2, <1>3 DEF FileGood

(* A step on leaf x leaves the recorders of other leaves as they were. *)
LEMMA OthersKeep ==
    ASSUME TypeInv, NEW x, NEW q \in Recorder, rec'[q] = rec[q], mode' = mode,
           nextLeaf' \in Nat, nextLeaf <= nextLeaf', rec[q].pc # "idle" => rec[q].leaf # x,
           \A i \in DOMAIN sled'.leaves :
             sled'.leaves[i] = x \/ (i \in DOMAIN sled.leaves /\ sled'.leaves[i] = sled.leaves[i]),
           \A k \in Ev' : jsonl'.lines[k].leaf = x \/ (k \in Ev /\ jsonl'.lines[k] = jsonl.lines[k]),
           \A i \in 1..Len(tree') : tree'[i] = x \/ (i \in 1..Len(tree) /\ tree'[i] = tree[i]),
           Holder(q) => tree' = tree
    PROVE  Recording(q)'
<1> SUFFICES ASSUME rec[q].pc # "idle" PROVE Recording(q)'
  BY DEF Recording
<1>1. Recording(q) /\ rec[q].leaf \in Nat /\ nextLeaf \in Nat
  BY RecKinds DEF TypeInv, Recorders, Types
<1>2. mode' = "up" /\ rec'[q].leaf < nextLeaf' /\ rec'[q].sequence < rec'[q].leaf
  BY <1>1 DEF Recording
<1>3. \A i \in DOMAIN sled'.leaves : sled'.leaves[i] # rec'[q].leaf
  BY <1>1 DEF Recording
<1>4. rec'[q].pc # "appended" => \A k \in Ev' : jsonl'.lines[k].leaf # rec'[q].leaf
  BY <1>1 DEF Recording
<1>5. rec'[q].pc = "numbered" => \A i \in 1..Len(tree') : tree'[i] # rec'[q].leaf
  BY <1>1 DEF Recording
<1>6. rec'[q].pc \in {"inserted", "appended"} =>
        /\ rec'[q].root = tree' /\ Len(tree') = rec'[q].index + 1
        /\ tree'[Len(tree')] = rec'[q].leaf
  BY <1>1 DEF Recording, Holder
<1> QED
  BY <1>2, <1>3, <1>4, <1>5, <1>6 DEF Recording, Holder

(* What a step of the file does to the event lines. *)
LEMMA EventsMoved ==
    ASSUME NEW line, Kin(jsonl, jsonl', line), NEW x, line.kind = "event" => line.leaf = x
    PROVE  \A k \in Ev' : jsonl'.lines[k].leaf = x \/ (k \in Ev /\ jsonl'.lines[k] = jsonl.lines[k])
BY DEF Kin, Ev

LEMMA InitTypeInv == Init => TypeInv
<1> SUFFICES ASSUME Init PROVE TypeInv
  OBVIOUS
<1> USE DEF Init
<1>1. Types
  <2>1. <<>> \in Seq(Seq(1..MaxEvents)) /\ <<>> \in Seq(EventInfo) /\ <<>> \in Seq(Lines)
    OBVIOUS
  <2>2. jsonl \in Files
    BY <2>1 DEF Files, EmptyFile
  <2>3. sled.count = 0 /\ DOMAIN sled.leaves = {}
    OBVIOUS
  <2>4. rec \in [Recorder -> {Idle} \cup Numbered \cup Inserted]
    OBVIOUS
  <2>5. MaxEvents \in Nat
    BY AuditLogAssumption
  <2>6. sequences \in [Domain -> 0..MaxEvents] /\ \A d \in Domain : sequences[d] < nextLeaf
    BY <2>5
  <2>7. nextLeaf \in 1..(MaxEvents + 1) /\ sled.count \in 0..MaxEvents
    BY <2>5, <2>3
  <2>8. retained \in [Domain -> SUBSET (0..(MaxEvents - 1))]
    OBVIOUS
  <2> QED
    BY <2>1, <2>2, <2>3, <2>4, <2>6, <2>7, <2>8 DEF Types
<1>2. Leaves
  <2>1. Begun(tree, nextLeaf)
    BY DEF Begun
  <2>2. FileGood(jsonl, nextLeaf)
    BY DEF FileGood, LinesAt, EmptyFile
  <2>3. SledGood(sled, nextLeaf)
    BY DEF SledGood
  <2> QED
    BY <2>1, <2>2, <2>3 DEF Leaves
<1>3. Recorders
  BY DEF Recorders, Recording, Holder, Idle
<1> QED
  BY <1>1, <1>2, <1>3 DEF TypeInv

LEMMA BeginTypeInv ==
    ASSUME TypeInv, NEW r \in Recorder, NEW d \in Domain, BeginRecord(r, d)
    PROVE  TypeInv'
<1> USE DEF TypeInv
<1>0. MaxEvents \in Nat /\ nextLeaf \in 1..MaxEvents /\ nextLeaf' = nextLeaf + 1
      /\ sequences[d] \in 0..MaxEvents /\ sequences[d] < nextLeaf /\ mode = "up" /\ mode' = mode
  BY AuditLogAssumption DEF Types, BeginRecord
<1>1. /\ tree' = tree /\ jsonl' = jsonl /\ sled' = sled /\ Ev' = Ev
      /\ rec' = [rec EXCEPT ![r] = [pc |-> "numbered", dom |-> d, leaf |-> nextLeaf,
                                    sequence |-> sequences[d]]]
  BY DEF BeginRecord, disk, Ev
<1>2. PICK x \in Numbered : /\ x = [pc |-> "numbered", dom |-> d, leaf |-> nextLeaf,
                                    sequence |-> sequences[d]]
                            /\ x.pc = "numbered" /\ x.leaf = nextLeaf /\ x.sequence = sequences[d]
  <2> DEFINE z == [pc |-> "numbered", dom |-> d, leaf |-> nextLeaf, sequence |-> sequences[d]]
  <2>1. sequences[d] \in 0..(MaxEvents - 1)
    BY <1>0
  <2>2. z \in Numbered /\ z.pc = "numbered" /\ z.leaf = nextLeaf /\ z.sequence = sequences[d]
    BY <1>0, <2>1 DEF Numbered
  <2> HIDE DEF z
  <2>3. \E x \in Numbered : x = z /\ x.pc = "numbered" /\ x.leaf = nextLeaf
                           /\ x.sequence = sequences[d]
    BY <2>2
  <2> QED
    BY <2>3 DEF z
<1>3. rec'[r] = x /\ \A q \in Recorder \ {r} : rec'[q] = rec[q]
  BY <1>1, <1>2 DEF Types
<1>4. Types'
  <2>1. rec' \in [Recorder -> {Idle} \cup Numbered \cup Inserted]
    BY <1>1, <1>2 DEF Types
  <2>2. sequences' \in [Domain -> 0..MaxEvents] /\ \A e \in Domain : sequences'[e] < nextLeaf'
    <3>1. /\ sequences \in [Domain -> 0..MaxEvents] /\ \A e \in Domain : sequences[e] < nextLeaf
          /\ sequences' = [sequences EXCEPT ![d] = sequences[d] + 1]
      BY DEF Types, BeginRecord
    <3>2. \A e \in Domain : sequences'[e] = IF e = d THEN sequences[e] + 1 ELSE sequences[e]
      BY <3>1
    <3>3. \A e \in Domain : sequences'[e] \in 0..MaxEvents /\ sequences'[e] < nextLeaf'
      BY <3>1, <3>2, <1>0
    <3>4. sequences' = [e \in Domain |-> sequences'[e]]
      BY <3>1
    <3> QED
      BY <3>3, <3>4
  <2>3. nextLeaf' \in 1..(MaxEvents + 1)
    BY <1>0
  <2>4. UNCHANGED <<mode, clearing, pruning, clears, errors, intact, rootAfter, events, holds,
                    retained, jsonl, sled>>
    BY DEF BeginRecord, disk, history
  <2> QED
    BY <2>1, <2>2, <2>3, <2>4 DEF Types
<1>5. Leaves'
  <2>1. jsonl \in Files /\ nextLeaf \in Nat /\ nextLeaf' \in Nat
    BY <1>0 DEF Types
  <2>2. FileGood(jsonl, nextLeaf')
    <3>1. Kin(jsonl, jsonl, [kind |-> "none"])
      BY DEF Kin
    <3> QED
      BY <2>1, <3>1, <1>0, FileStaysGood DEF Leaves
  <2>3. Begun(tree, nextLeaf')
    <3>1. tree \in Seq(1..MaxEvents)
      BY DEF Leaves, Begun
    <3>2. \A i \in 1..Len(tree) : tree[i] \in 1..MaxEvents
      BY <3>1, Elements
    <3> QED
      BY <3>1, <3>2, <1>0, <2>1 DEF Leaves, Begun
  <2>4. SledGood(sled, nextLeaf')
    BY <1>0 DEF Leaves, SledGood
  <2> QED
    BY <2>2, <2>3, <2>4, <1>1 DEF Leaves
<1>6. Recorders'
  <2>1. \A q \in Recorder \ {r} : rec[q].pc # "idle" => rec[q].leaf \in Nat /\ rec[q].leaf < nextLeaf
    BY RecKinds DEF Recorders, Recording
  <2>2. \A q \in Recorder \ {r} : Recording(q)'
    <3> SUFFICES ASSUME NEW q \in Recorder \ {r} PROVE Recording(q)'
      OBVIOUS
    <3>1. rec[q].pc # "idle" => rec[q].leaf # nextLeaf
      BY <2>1, <1>0
    <3>2. nextLeaf' \in Nat /\ nextLeaf <= nextLeaf'
      BY <1>0
    <3>3. tree' = tree /\ jsonl' = jsonl /\ sled' = sled /\ Ev' = Ev /\ mode' = mode
          /\ rec'[q] = rec[q]
      BY <1>0, <1>1, <1>3
    <3> QED
      BY <3>1, <3>2, <3>3, OthersKeep
  <2>3. Recording(r)'
    <3>1. mode' = "up" /\ x.leaf < nextLeaf' /\ x.sequence < x.leaf
      BY <1>0, <1>2
    <3>2. \A i \in DOMAIN sled.leaves : sled.leaves[i] # nextLeaf
      BY <1>0 DEF Leaves, SledGood
    <3>3. \A k \in Ev : jsonl.lines[k].leaf # nextLeaf
      <4>1. \A k \in Ev : jsonl.lines[k].leaf < nextLeaf
        BY DEF Leaves, FileGood, GoodLine, Ev
      <4> QED
        BY <4>1, <1>0
    <3>4. \A i \in 1..Len(tree) : tree[i] # nextLeaf
      <4>1. \A i \in 1..Len(tree) : tree[i] < nextLeaf
        BY DEF Leaves, Begun
      <4> QED
        BY <4>1, <1>0
    <3> QED
      BY <3>1, <3>2, <3>3, <3>4, <1>1, <1>2, <1>3 DEF Recording, Holder
  <2>4. \A q \in Recorder : rec'[q].pc # "idle" /\ rec'[r].pc # "idle" /\ rec'[q].leaf = rec'[r].leaf
          => q = r
    BY <2>1, <1>0, <1>2, <1>3
  <2>5. \A p, q \in Recorder : rec'[p].pc # "idle" /\ rec'[q].pc # "idle"
          /\ rec'[p].leaf = rec'[q].leaf => p = q
    BY <2>4, <1>3 DEF Recorders
  <2>6. \A p, q \in Recorder : Holder(p)' /\ Holder(q)' => p = q
    BY <1>2, <1>3 DEF Recorders, Holder
  <2> QED
    BY <2>2, <2>3, <2>5, <2>6 DEF Recorders
<1> QED
  BY <1>4, <1>5, <1>6

LEMMA InsertTypeInv ==
    ASSUME TypeInv, NEW r \in Recorder, InsertLeaf(r)
    PROVE  TypeInv'
<1> USE DEF TypeInv
<1>0. /\ rec[r].pc = "numbered" /\ TreeFree /\ nextLeaf \in Nat
      /\ UNCHANGED <<mode, events, sequences, holds, retained, jsonl, sled, pruning, clearing,
                     nextLeaf, clears, errors, intact>>
      /\ Ev' = Ev
  BY DEF InsertLeaf, Types, disk, bounds, history, Ev
<1>1. PICK x \in 1..MaxEvents : x = rec[r].leaf /\ x < nextLeaf
  BY <1>0, RecKinds DEF Recorders, Recording
<1>2. tree \in Seq(1..MaxEvents) /\ Len(tree) \in Nat /\ tree' = Append(tree, x)
  BY <1>1 DEF Leaves, Begun, InsertLeaf
<1>3. /\ tree' \in Seq(1..MaxEvents) /\ Len(tree') = Len(tree) + 1 /\ tree'[Len(tree) + 1] = x
      /\ \A i \in 1..Len(tree) : tree'[i] = tree[i]
      /\ \A i \in 1..Len(tree') : i \in 1..Len(tree) \/ i = Len(tree) + 1
  BY <1>2
<1>4. Begun(tree', nextLeaf)
  <2>1. \A i \in 1..Len(tree) : tree[i] # x /\ tree[i] < nextLeaf
    BY <1>0, <1>1 DEF Recorders, Recording, Leaves, Begun
  <2>2. \A i, j \in 1..Len(tree) : tree[i] = tree[j] => i = j
    BY DEF Leaves, Begun
  <2>3. \A i \in 1..Len(tree') : tree'[i] < nextLeaf
    BY <2>1, <1>1, <1>3
  <2>4. \A i, j \in 1..Len(tree') : tree'[i] = tree'[j] => i = j
    BY <2>1, <2>2, <1>3
  <2> QED
    BY <2>3, <2>4, <1>3 DEF Begun
<1>5. Len(tree) \in 0..(MaxEvents - 1)
  <2> DEFINE t == tree'
  <2>1. t \in Injection(1..Len(t), 1..MaxEvents)
    <3>1. t \in [1..Len(t) -> 1..MaxEvents]
      BY <1>3, Elements
    <3>2. \A i, j \in 1..Len(t) : t[i] = t[j] => i = j
      BY <1>4 DEF Begun
    <3> HIDE DEF t
    <3> QED
      BY <3>1, <3>2 DEF Injection, IsInjective
  <2>2. MaxEvents \in Nat /\ Len(t) \in Nat
    BY <1>3, <1>2, AuditLogAssumption
  <2> HIDE DEF t
  <2>3. /\ IsFiniteSet(1..MaxEvents) /\ Cardinality(1..MaxEvents) = MaxEvents
        /\ Cardinality(1..Len(t)) = Len(t)
    <3>1. \A n \in Nat : IsFiniteSet(1..n) /\ Cardinality(1..n) = n
      BY FS_Interval
    <3> QED
      BY <3>1, <2>2
  <2>4. Len(t) <= MaxEvents
    BY <2>1, <2>3, FS_Injection
  <2> QED
    BY <2>4, <2>2, <1>2, <1>3 DEF t
<1>6. PICK y \in Inserted :
        /\ rec' = [rec EXCEPT ![r] = y] /\ y.pc = "inserted" /\ y.leaf = x /\ y.root = tree'
        /\ y.index = Len(tree) /\ y.sequence = rec[r].sequence
  <2>1. rec[r] \in Numbered
    BY <1>0, RecKinds
  <2> DEFINE z == [pc |-> "inserted", dom |-> rec[r].dom, leaf |-> rec[r].leaf,
                   sequence |-> rec[r].sequence, index |-> Len(tree), root |-> tree']
  <2>2. z \in Inserted /\ z.pc = "inserted" /\ z.leaf = x /\ z.root = tree'
        /\ z.index = Len(tree) /\ z.sequence = rec[r].sequence
    BY <2>1, <1>1, <1>3, <1>5 DEF Inserted, Numbered
  <2>3. rec' = [rec EXCEPT ![r] = z]
    BY DEF InsertLeaf
  <2> HIDE DEF z
  <2> QED
    BY <2>2, <2>3
<1>7. rec'[r] = y /\ \A q \in Recorder \ {r} : rec'[q] = rec[q]
  BY <1>6 DEF Types
<1>8. Types'
  <2>1. rec' \in [Recorder -> {Idle} \cup Numbered \cup Inserted]
    BY <1>6 DEF Types
  <2>2. rootAfter' \in Seq(Seq(1..MaxEvents))
    BY <1>3 DEF Types, InsertLeaf
  <2> QED
    BY <2>1, <2>2, <1>0 DEF Types
<1>9. Leaves'
  BY <1>4, <1>0 DEF Leaves
<1>10. Recorders'
  <2>1. \A q \in Recorder \ {r} : rec[q].pc # "idle" => rec[q].leaf # x
    BY <1>0, <1>1 DEF Recorders
  <2>2. \A q \in Recorder \ {r} : Recording(q)'
    <3> SUFFICES ASSUME NEW q \in Recorder \ {r} PROVE Recording(q)'
      OBVIOUS
    <3>1. ~Holder(q)
      BY <1>0 DEF TreeFree, Holder
    <3>2. \A i \in 1..Len(tree') : tree'[i] = x \/ (i \in 1..Len(tree) /\ tree'[i] = tree[i])
      BY <1>3
    <3>3. nextLeaf' \in Nat /\ nextLeaf <= nextLeaf' /\ mode' = mode /\ sled' = sled
          /\ jsonl' = jsonl /\ rec'[q] = rec[q] /\ (rec[q].pc # "idle" => rec[q].leaf # x)
      BY <1>0, <1>7, <2>1
    <3> QED
      BY <3>1, <3>2, <3>3, <1>0, OthersKeep
  <2>3. Recording(r)'
    <3>1. Recording(r)
      BY DEF Recorders
    <3>2. mode' = "up" /\ y.leaf < nextLeaf' /\ y.sequence < y.leaf
      BY <3>1, <1>0, <1>1, <1>6 DEF Recording
    <3>3. \A i \in DOMAIN sled'.leaves : sled'.leaves[i] # y.leaf
      BY <3>1, <1>0, <1>1, <1>6 DEF Recording
    <3>4. \A k \in Ev' : jsonl'.lines[k].leaf # y.leaf
      BY <3>1, <1>0, <1>1, <1>6 DEF Recording
    <3>5. Len(tree') = y.index + 1 /\ tree'[Len(tree')] = y.leaf
      BY <1>2, <1>3, <1>6
    <3> QED
      BY <3>2, <3>3, <3>4, <3>5, <1>6, <1>7 DEF Recording, Holder
  <2>4. \A p, q \in Recorder : rec'[p].pc # "idle" /\ rec'[q].pc # "idle"
          /\ rec'[p].leaf = rec'[q].leaf => p = q
    BY <2>1, <1>6, <1>7 DEF Recorders
  <2>5. \A p, q \in Recorder : Holder(p)' /\ Holder(q)' => p = q
    BY <1>0, <1>7 DEF TreeFree, Holder
  <2> QED
    BY <2>2, <2>3, <2>4, <2>5 DEF Recorders
<1> QED
  BY <1>8, <1>9, <1>10

(* The recorder's own line, while nobody else is past the event push. *)
LEMMA OwnLineGood ==
    ASSUME TypeInv, NEW r \in Recorder, rec[r].pc = "inserted"
    PROVE  GoodLine(LineOf(r), nextLeaf) /\ \A k \in Ev : jsonl.lines[k].leaf # LineOf(r).leaf
<1>1. /\ LineOf(r).leaf = rec[r].leaf /\ LineOf(r).root = rec[r].root
      /\ LineOf(r).index = rec[r].index
  BY EventWritten DEF TypeInv
<1>2. Recording(r) /\ Holder(r)
  BY DEF TypeInv, Recorders, Holder
<1>3. /\ rec[r].leaf < nextLeaf /\ rec[r].root = tree /\ Len(tree) = rec[r].index + 1
      /\ tree[Len(tree)] = rec[r].leaf /\ \A k \in Ev : jsonl.lines[k].leaf # rec[r].leaf
  BY <1>2 DEF Recording
<1> QED
  BY <1>1, <1>3 DEF GoodLine, TypeInv, Leaves

LEMMA AppendTypeInv ==
    ASSUME TypeInv, NEW r \in Recorder, AppendLine(r) \/ AppendFails(r)
    PROVE  TypeInv'
<1> USE DEF TypeInv
<1>0. /\ rec[r].pc = "inserted" /\ EventsFree /\ jsonl \in Files /\ intact \in BOOLEAN
      /\ UNCHANGED <<mode, tree, rootAfter, sequences, holds, retained, sled, pruning, clearing,
                     nextLeaf, clears>>
      /\ nextLeaf \in Nat /\ PushEvent(r)
  BY DEF AppendLine, AppendFails, bounds, Types
<1>1. FileStep(LineOf(r)) /\ errors' \in Nat
  BY RecordWrites
<1>2. jsonl' \in Files /\ intact' \in BOOLEAN /\ Kin(jsonl, jsonl', LineOf(r))
  BY <1>0, <1>1, StepShape
<1>3. rec[r] \in Inserted
  BY <1>0, RecKinds
<1>4. PICK y \in {Idle} \cup Inserted :
        /\ rec' = [rec EXCEPT ![r] = y]
        /\ y.pc # "idle" => /\ y.pc = "appended" /\ y.leaf = rec[r].leaf /\ y.root = rec[r].root
                            /\ y.index = rec[r].index /\ y.sequence = rec[r].sequence
  <2>1. CASE AppendFails(r)
    <3>1. rec' = [rec EXCEPT ![r] = Idle] /\ Idle.pc = "idle"
      BY <2>1 DEF AppendFails, Idle
    <3> QED
      BY <3>1
  <2>2. CASE AppendLine(r)
    <3> DEFINE z == [rec[r] EXCEPT !.pc = "appended"]
    <3>1. rec' = [rec EXCEPT ![r] = z]
      BY <2>2 DEF AppendLine
    <3>2. z \in Inserted /\ z.pc = "appended" /\ z.leaf = rec[r].leaf /\ z.root = rec[r].root
          /\ z.index = rec[r].index /\ z.sequence = rec[r].sequence
      BY <1>3 DEF Inserted
    <3> HIDE DEF z
    <3> QED
      BY <3>1, <3>2
  <2> QED
    BY <2>1, <2>2
<1>5. rec'[r] = y /\ \A q \in Recorder \ {r} : rec'[q] = rec[q]
  BY <1>4 DEF Types
<1>6. Types'
  <2>1. rec' \in [Recorder -> {Idle} \cup Numbered \cup Inserted]
    BY <1>4 DEF Types
  <2>2. events' \in Seq(EventInfo)
    <3>1. [index |-> rec[r].index, dom |-> rec[r].dom, sequence |-> rec[r].sequence] \in EventInfo
      BY <1>3 DEF EventInfo, Inserted
    <3> QED
      BY <3>1, <1>0 DEF PushEvent, Types
  <2> QED
    BY <2>1, <2>2, <1>0, <1>1, <1>2 DEF Types
<1>7. Leaves'
  <2>1. FileGood(jsonl', nextLeaf)
    <3>1. /\ GoodLine(LineOf(r), nextLeaf)
          /\ \A k \in LinesAt(jsonl, "event") : jsonl.lines[k].leaf # LineOf(r).leaf
      BY <1>0, OwnLineGood DEF Ev
    <3> QED
      BY <3>1, <1>0, <1>2, FileStaysGood DEF Leaves
  <2> QED
    BY <2>1, <1>0 DEF Leaves
<1>8. Recorders'
  <2>0. LineOf(r).leaf = rec[r].leaf
    BY <1>0, EventWritten
  <2>1. \A k \in Ev' : jsonl'.lines[k].leaf = rec[r].leaf \/ (k \in Ev /\ jsonl'.lines[k] = jsonl.lines[k])
    BY <2>0, <1>2, EventsMoved
  <2>2. \A q \in Recorder \ {r} : rec[q].pc # "idle" => rec[q].leaf # rec[r].leaf
    BY <1>0 DEF Recorders
  <2>3. \A q \in Recorder \ {r} : Recording(q)'
    <3> SUFFICES ASSUME NEW q \in Recorder \ {r} PROVE Recording(q)'
      OBVIOUS
    <3>1. /\ nextLeaf' \in Nat /\ nextLeaf <= nextLeaf' /\ rec'[q] = rec[q] /\ mode' = mode
          /\ tree' = tree /\ sled' = sled /\ (rec[q].pc # "idle" => rec[q].leaf # rec[r].leaf)
      BY <1>0, <1>5, <2>2
    <3> QED
      BY <2>1, <3>1, OthersKeep
  <2>4. Recording(r)'
    <3>1. Recording(r) /\ Holder(r)
      BY <1>0 DEF Recorders, Holder
    <3> QED
      BY <3>1, <1>0, <1>4, <1>5 DEF Recording, Holder
  <2>5. \A p, q \in Recorder : rec'[p].pc # "idle" /\ rec'[q].pc # "idle"
          /\ rec'[p].leaf = rec'[q].leaf => p = q
    BY <2>2, <1>4, <1>5 DEF Recorders
  <2>6. \A p, q \in Recorder : Holder(p)' /\ Holder(q)' => p = q
    BY <1>0, <1>5 DEF Recorders, Holder
  <2> QED
    BY <2>3, <2>4, <2>5, <2>6 DEF Recorders
<1> QED
  BY <1>6, <1>7, <1>8

(* save_leaf() adds the recorder's leaf to the store. *)
LEMMA SledPutShape ==
    ASSUME TypeInv, NEW r \in Recorder, rec[r].pc = "appended", NEW c \in 0..MaxEvents,
           sled' = SledPut(rec[r].index, rec[r].leaf, c)
    PROVE  /\ sled'.count = c /\ DOMAIN sled'.leaves = DOMAIN sled.leaves \cup {rec[r].index}
           /\ sled'.leaves[rec[r].index] = rec[r].leaf
           /\ \A i \in DOMAIN sled'.leaves :
                \/ sled'.leaves[i] = rec[r].leaf
                \/ i \in DOMAIN sled.leaves /\ sled'.leaves[i] = sled.leaves[i]
           /\ DOMAIN sled'.leaves \subseteq 0..(MaxEvents - 1) /\ SledGood(sled', nextLeaf)
<1> DEFINE x == rec[r].leaf
           n == rec[r].index
<1>1. x \in 1..MaxEvents /\ n \in 0..(MaxEvents - 1) /\ x < nextLeaf
      /\ \A i \in DOMAIN sled.leaves : sled.leaves[i] # x
  BY RecKinds, EventWritten DEF TypeInv, Recorders, Recording
<1> HIDE DEF x, n
<1>2. /\ sled'.count = c
      /\ sled'.leaves = [j \in DOMAIN sled.leaves \cup {n} |-> IF j = n THEN x ELSE sled.leaves[j]]
  BY DEF SledPut, x, n
<1>3. /\ DOMAIN sled'.leaves = DOMAIN sled.leaves \cup {n} /\ sled'.leaves[n] = x
      /\ \A i \in DOMAIN sled'.leaves : i # n => i \in DOMAIN sled.leaves
                                               /\ sled'.leaves[i] = sled.leaves[i]
  BY <1>2
<1>4. SledGood(sled', nextLeaf)
  BY <1>1, <1>3 DEF TypeInv, Leaves, SledGood
<1>5. DOMAIN sled'.leaves \subseteq 0..(MaxEvents - 1)
  BY <1>1, <1>3 DEF TypeInv, Types
<1> QED
  BY <1>2, <1>3, <1>4, <1>5 DEF x, n

LEMMA SaveTypeInv ==
    ASSUME TypeInv, NEW r \in Recorder, SaveLeaf(r)
    PROVE  TypeInv'
<1> USE DEF TypeInv
<1>0. /\ rec[r].pc = "appended" /\ rec' = [rec EXCEPT ![r] = Idle] /\ nextLeaf \in Nat
      /\ UNCHANGED <<mode, tree, rootAfter, events, sequences, holds, retained, jsonl, pruning,
                     clearing, nextLeaf, clears, errors, intact>>
      /\ Ev' = Ev
  BY DEF SaveLeaf, memory, bounds, Types, Ev
<1>1. rec'[r] = Idle /\ Idle.pc = "idle" /\ \A q \in Recorder \ {r} : rec'[q] = rec[q]
  BY <1>0 DEF Types, Idle
<1>2. /\ sled'.count \in 0..MaxEvents /\ DOMAIN sled'.leaves \subseteq 0..(MaxEvents - 1)
      /\ SledGood(sled', nextLeaf)
      /\ \A i \in DOMAIN sled'.leaves :
           \/ sled'.leaves[i] = rec[r].leaf
           \/ i \in DOMAIN sled.leaves /\ sled'.leaves[i] = sled.leaves[i]
  <2>1. CASE sled' = sled
    BY <2>1 DEF Types, Leaves
  <2>2. CASE sled' = SledPut(rec[r].index, rec[r].leaf, rec[r].index + 1)
    <3>1. rec[r].index \in 0..(MaxEvents - 1) /\ MaxEvents \in Nat
      BY <1>0, EventWritten, AuditLogAssumption
    <3>2. rec[r].index + 1 \in 0..MaxEvents
      BY <3>1
    <3> QED
      BY <2>2, <3>2, <1>0, SledPutShape
  <2> QED
    BY <2>1, <2>2 DEF SaveLeaf
<1>3. Types'
  <2>1. rec' \in [Recorder -> {Idle} \cup Numbered \cup Inserted]
    BY <1>0 DEF Types
  <2> QED
    BY <2>1, <1>0, <1>2 DEF Types
<1>4. Leaves'
  BY <1>0, <1>2 DEF Leaves
<1>5. Recorders'
  <2>1. \A q \in Recorder \ {r} : Recording(q)'
    <3> SUFFICES ASSUME NEW q \in Recorder \ {r} PROVE Recording(q)'
      OBVIOUS
    <3>1. /\ nextLeaf' \in Nat /\ nextLeaf <= nextLeaf' /\ rec'[q] = rec[q] /\ mode' = mode
          /\ tree' = tree /\ jsonl' = jsonl /\ (rec[q].pc # "idle" => rec[q].leaf # rec[r].leaf)
      BY <1>0, <1>1 DEF Recorders
    <3> QED
      BY <3>1, <1>0, <1>2, OthersKeep
  <2>2. Recording(r)'
    BY <1>1 DEF Recording
  <2>3. \A p, q \in Recorder : rec'[p].pc # "idle" /\ rec'[q].pc # "idle"
          /\ rec'[p].leaf = rec'[q].leaf => p = q
    BY <1>1 DEF Recorders
  <2>4. \A p, q \in Recorder : Holder(p)' /\ Holder(q)' => p = q
    BY <1>1 DEF Recorders, Holder
  <2> QED
    BY <2>1, <2>2, <2>3, <2>4 DEF Recorders
<1> QED
  BY <1>3, <1>4, <1>5

(* Steps that move no leaf. *)
LEMMA QuietTypeInv ==
    ASSUME TypeInv, Types', UNCHANGED <<rec, mode, nextLeaf>>, NEW line,
           Kin(jsonl, jsonl', line), line.kind # "event",
           tree' = tree \/ (tree' = <<>> /\ TreeFree),
           sled' = sled \/ DOMAIN sled'.leaves = {}
    PROVE  TypeInv'
<1> USE DEF TypeInv
<1>1. jsonl \in Files /\ nextLeaf \in Nat
  BY DEF Types
<1>2. Leaves'
  <2>1. FileGood(jsonl', nextLeaf)
    BY <1>1, FileStaysGood DEF Leaves
  <2>0. Begun(<<>>, nextLeaf)
    BY DEF Begun
  <2>2. Begun(tree', nextLeaf)
    BY <2>0 DEF Leaves
  <2>3. SledGood(sled', nextLeaf)
    BY DEF Leaves, SledGood
  <2> QED
    BY <2>1, <2>2, <2>3 DEF Leaves
<1>3. \A q \in Recorder : Recording(q)'
  <2> SUFFICES ASSUME NEW q \in Recorder PROVE Recording(q)'
    OBVIOUS
  <2>1. rec[q].pc # "idle" => rec[q].leaf # 0
    BY RecKinds
  <2>2. \A k \in Ev' : jsonl'.lines[k].leaf = 0 \/ (k \in Ev /\ jsonl'.lines[k] = jsonl.lines[k])
    BY EventsMoved
  <2>3. /\ \A i \in 1..Len(tree') : tree'[i] = 0 \/ (i \in 1..Len(tree) /\ tree'[i] = tree[i])
        /\ Holder(q) => tree' = tree
    BY DEF TreeFree, Holder
  <2>4. \A i \in DOMAIN sled'.leaves :
          sled'.leaves[i] = 0 \/ (i \in DOMAIN sled.leaves /\ sled'.leaves[i] = sled.leaves[i])
    OBVIOUS
  <2>5. nextLeaf' \in Nat /\ nextLeaf <= nextLeaf'
    BY <1>1
  <2> QED
    BY <2>1, <2>2, <2>3, <2>4, <2>5, OthersKeep
<1>4. Recorders'
  BY <1>3 DEF Recorders, Holder
<1> QED
  BY <1>2, <1>4

LEMMA HoldTypeInv ==
    ASSUME TypeInv, NEW d \in Domain, NEW on \in BOOLEAN, SetLegalHold(d, on)
    PROVE  TypeInv'
<1>1. Types /\ jsonl \in Files /\ intact \in BOOLEAN
  BY DEF TypeInv, Types
<1>2. FileStep(HoldLine(d, on)) /\ errors' \in Nat /\ HoldLine(d, on).kind = "hold"
  BY <1>1, HoldWrites, HoldWritten
<1>3. jsonl' \in Files /\ intact' \in BOOLEAN /\ Kin(jsonl, jsonl', HoldLine(d, on))
  BY <1>1, <1>2, StepShape
<1>4. UNCHANGED <<mode, tree, rootAfter, events, sequences, retained, sled, rec, pruning,
                  clearing, nextLeaf, clears>>
  BY DEF SetLegalHold
<1>5. holds' \subseteq Domain
  BY <1>1 DEF SetLegalHold, Types
<1>6. Types'
  BY <1>1, <1>2, <1>3, <1>4, <1>5 DEF Types
<1> QED
  BY <1>2, <1>3, <1>4, <1>6, QuietTypeInv

LEMMA PruneCheckTypeInv ==
    ASSUME TypeInv, NEW d \in Domain, PruneCheck(d)
    PROVE  TypeInv'
<1>1. /\ UNCHANGED <<mode, tree, rootAfter, events, sequences, holds, retained, jsonl, sled, rec,
                     clearing, nextLeaf, clears, errors, intact>>
      /\ mode = "up" /\ pruning' = d
  BY DEF PruneCheck, memory, disk, history
<1>2. Types'
  BY <1>1 DEF TypeInv, Types
<1>3. Kin(jsonl, jsonl', [kind |-> "none"]) /\ [kind |-> "none"].kind # "event"
  BY <1>1 DEF Kin
<1> QED
  BY <1>1, <1>2, <1>3, QuietTypeInv

LEMMA PruneTypeInv ==
    ASSUME TypeInv, PruneApply
    PROVE  TypeInv'
<1>1. Types /\ jsonl \in Files /\ intact \in BOOLEAN /\ events \in Seq(EventInfo)
  BY DEF TypeInv, Types
<1>2. pruning \in Domain /\ errors' \in Nat
  BY <1>1, PruneWrites
<1>3. PICK line : /\ FileStep(line) /\ line.kind \in {"none", "pruned"}
                  /\ line.kind = "pruned" =>
                       /\ IndicesOf(pruning) # {}
                       /\ line = PruneLine(pruning, MaxOf(IndicesOf(pruning)))
  BY <1>1, PruneWrites
<1>4. jsonl' \in Files /\ intact' \in BOOLEAN /\ Kin(jsonl, jsonl', line)
  BY <1>1, <1>3, StepShape
<1>5. UNCHANGED <<mode, tree, rootAfter, sequences, holds, sled, rec, clearing, nextLeaf, clears>>
      /\ pruning' = NoDomain
  BY DEF PruneApply, bounds
<1>6. EventsOutside(pruning) \in Seq(EventInfo)
  <2> DEFINE I == {i \in 1..Len(events) : events[i].dom # pruning}
  <2>1. Len(events) \in Nat /\ I \in SUBSET (1..Len(events)) /\ \A i \in I : events[i] \in EventInfo
    BY <1>1, Elements
  <2>2. EventsOutside(pruning) = Kept(events, I)
    BY DEF EventsOutside
  <2> HIDE DEF I
  <2>3. \A S : (\A i \in I : events[i] \in S) => Kept(events, I) \in Seq(S)
    BY <2>1, KeptInOrder
  <2> QED
    BY <2>1, <2>2, <2>3
<1>7. events' \in Seq(EventInfo)
  BY <1>1, <1>6 DEF PruneApply
<1>8. retained' \in [Domain -> SUBSET (0..(MaxEvents - 1))]
  <2>1. retained \in [Domain -> SUBSET (0..(MaxEvents - 1))]
    BY <1>1 DEF Types
  <2>2. CASE retained' = retained
    BY <2>1, <2>2
  <2>3. CASE retained' # retained
    <3> DEFINE m == MaxOf(IndicesOf(pruning))
    <3>1. /\ IndicesOf(pruning) # {}
          /\ retained' = [retained EXCEPT ![pruning] = retained[pruning] \cup {m}]
      BY <2>3 DEF PruneApply
    <3>2. m \in 0..(MaxEvents - 1)
      BY <1>1, <1>2, <3>1, PruneWritten
    <3> HIDE DEF m
    <3>3. retained[pruning] \cup {m} \in SUBSET (0..(MaxEvents - 1))
      BY <2>1, <1>2, <3>2
    <3> QED
      BY <2>1, <3>1, <3>3
  <2> QED
    BY <2>2, <2>3
<1>9. Types'
  BY <1>1, <1>2, <1>4, <1>5, <1>7, <1>8 DEF Types
<1> QED
  BY <1>3, <1>4, <1>5, <1>9, QuietTypeInv

LEMMA ClearTypeInv ==
    ASSUME TypeInv, ClearTree \/ ClearMemory \/ ClearSled \/ ClearFile
    PROVE  TypeInv'
<1> DEFINE none == [kind |-> "none"]
<1>0. none.kind # "event" /\ Types
  BY DEF TypeInv
<1>1. CASE ClearTree
  <2>1. /\ UNCHANGED <<mode, rootAfter, events, sequences, holds, retained, jsonl, sled, rec,
                       pruning, nextLeaf, errors, intact>>
        /\ mode = "up" /\ tree' = <<>> /\ TreeFree /\ clearing' = "tree" /\ clears' = clears + 1
    BY <1>1 DEF ClearTree, disk
  <2>2. clears' \in Nat /\ clears' # 0
    BY <1>0, <2>1 DEF Types
  <2>3. Types'
    BY <1>0, <2>1, <2>2 DEF Types
  <2>4. Kin(jsonl, jsonl', none)
    BY <2>1 DEF Kin
  <2> QED
    BY <1>0, <2>1, <2>3, <2>4, QuietTypeInv
<1>2. CASE ClearMemory
  <2>1. /\ UNCHANGED <<mode, tree, rootAfter, jsonl, sled, rec, pruning, nextLeaf, clears, errors,
                       intact>>
        /\ clearing = "tree" /\ clearing' = "memory"
    BY <1>2 DEF ClearMemory, disk, bounds, history
  <2>2. /\ events' \in Seq(EventInfo) /\ holds' \subseteq Domain
        /\ retained' \in [Domain -> SUBSET (0..(MaxEvents - 1))]
    BY <1>2 DEF ClearMemory
  <2>3. sequences' \in [Domain -> 0..MaxEvents] /\ \A d \in Domain : sequences'[d] < nextLeaf'
    <3>1. sequences' = [d \in Domain |-> 0] /\ nextLeaf' \in 1..(MaxEvents + 1) /\ MaxEvents \in Nat
      BY <1>2, <1>0, <2>1, AuditLogAssumption DEF ClearMemory, Types
    <3> QED
      BY <3>1
  <2>4. Types'
    BY <1>0, <2>1, <2>2, <2>3 DEF Types
  <2>5. Kin(jsonl, jsonl', none)
    BY <2>1 DEF Kin
  <2> QED
    BY <1>0, <2>1, <2>4, <2>5, QuietTypeInv
<1>3. CASE ClearSled
  <2>1. /\ UNCHANGED <<mode, tree, rootAfter, events, sequences, holds, retained, jsonl, rec,
                       pruning, nextLeaf, clears, errors, intact>>
        /\ clearing = "memory" /\ clearing' = "sled"
    BY <1>3 DEF ClearSled, memory, bounds, history
  <2>2. sled'.count = 0 /\ DOMAIN sled'.leaves = {}
    BY <1>3 DEF ClearSled
  <2>3. sled'.count \in 0..MaxEvents
    BY <2>2, AuditLogAssumption
  <2>4. Types'
    BY <1>0, <2>1, <2>2, <2>3 DEF Types
  <2>5. Kin(jsonl, jsonl', none)
    BY <2>1 DEF Kin
  <2> QED
    BY <1>0, <2>1, <2>2, <2>4, <2>5, QuietTypeInv
<1>4. CASE ClearFile
  <2>1. /\ UNCHANGED <<mode, tree, rootAfter, events, sequences, holds, retained, sled, rec,
                       pruning, nextLeaf, clears, errors, intact>>
        /\ clearing = "sled" /\ clearing' = "idle"
        /\ jsonl' = EmptyFile
    BY <1>4 DEF ClearFile, memory, bounds, history
  <2>2. EmptyFile \in Files /\ EmptyFile.lines = <<>>
    BY DEF EmptyFile, Files
  <2>3. Types'
    BY <1>0, <2>1, <2>2 DEF Types
  <2>4. Kin(jsonl, jsonl', none)
    BY <2>1, <2>2 DEF Kin, LinesAt
  <2> QED
    BY <1>0, <2>1, <2>3, <2>4, QuietTypeInv
<1> QED
  BY <1>1, <1>2, <1>3, <1>4

LEMMA CrashTypeInv ==
    ASSUME TypeInv, Crash
    PROVE  TypeInv'
<1>1. Types /\ jsonl \in Files /\ intact \in BOOLEAN /\ nextLeaf \in Nat
      /\ nextLeaf \in 1..(MaxEvents + 1) /\ MaxEvents \in Nat
  BY AuditLogAssumption DEF TypeInv, Types
<1>2. PICK line : /\ FileStep(line)
                  /\ line.kind = "event" => \E r \in Recorder : rec[r].pc = "inserted" /\ line = LineOf(r)
  BY <1>1, CrashWrites
<1>3. jsonl' \in Files /\ intact' \in BOOLEAN /\ Kin(jsonl, jsonl', line)
  BY <1>1, <1>2, StepShape
<1>4. /\ UNCHANGED <<nextLeaf, clears, errors>> /\ mode' = "down" /\ pruning' = NoDomain
      /\ clearing' = "idle" /\ rec' = [r \in Recorder |-> Idle] /\ EmptyMemory
  BY DEF Crash
<1>5. /\ sled'.count \in 0..MaxEvents /\ DOMAIN sled'.leaves \subseteq 0..(MaxEvents - 1)
      /\ SledGood(sled', nextLeaf)
  <2>1. CASE sled' = sled
    BY <2>1, <1>1 DEF Types, TypeInv, Leaves
  <2>2. ASSUME NEW r \in Recorder, rec[r].pc = "appended",
               sled' = SledPut(rec[r].index, rec[r].leaf, sled.count)
        PROVE  /\ sled'.count \in 0..MaxEvents /\ DOMAIN sled'.leaves \subseteq 0..(MaxEvents - 1)
               /\ SledGood(sled', nextLeaf)
    <3>1. sled.count \in 0..MaxEvents
      BY <1>1 DEF Types
    <3> QED
      BY <3>1, <2>2, SledPutShape
  <2> QED
    BY <2>1, <2>2 DEF Crash
<1>6. Types'
  <2>1. rec' \in [Recorder -> {Idle} \cup Numbered \cup Inserted]
    BY <1>4
  <2>2. /\ rootAfter' \in Seq(Seq(1..MaxEvents)) /\ events' \in Seq(EventInfo)
        /\ holds' \subseteq Domain /\ retained' \in [Domain -> SUBSET (0..(MaxEvents - 1))]
    BY <1>4 DEF EmptyMemory
  <2>3. sequences' \in [Domain -> 0..MaxEvents] /\ \A d \in Domain : sequences'[d] < nextLeaf'
    <3>1. sequences' = [d \in Domain |-> 0] /\ nextLeaf' = nextLeaf
      BY <1>4 DEF EmptyMemory
    <3> QED
      BY <3>1, <1>1
  <2> QED
    BY <2>1, <2>2, <2>3, <1>1, <1>3, <1>4, <1>5 DEF Types
<1>7. Leaves'
  <2>1. FileGood(jsonl', nextLeaf)
    <3>1. line.kind = "event" => /\ GoodLine(line, nextLeaf)
                                 /\ \A k \in LinesAt(jsonl, "event") : jsonl.lines[k].leaf # line.leaf
      BY <1>2, OwnLineGood DEF Ev
    <3> QED
      BY <3>1, <1>1, <1>3, FileStaysGood DEF TypeInv, Leaves
  <2>2. Begun(<<>>, nextLeaf)
    BY DEF Begun
  <2>3. Begun(tree', nextLeaf)
    BY <2>2, <1>4 DEF EmptyMemory
  <2> QED
    BY <2>1, <2>3, <1>4, <1>5 DEF Leaves
<1>8. Recorders'
  <2>1. \A r \in Recorder : rec'[r].pc = "idle"
    BY <1>4 DEF Idle
  <2> QED
    BY <2>1 DEF Recorders, Recording, Holder
<1> QED
  BY <1>6, <1>7, <1>8 DEF TypeInv

(* What a restart loads has its type. *)
LEMMA LoadedSequences ==
    ASSUME NEW f \in Files
    PROVE  /\ \A i \in 1..Len(EventLines(f)) :
                /\ Cardinality(Before(f, i)) \in Nat
                /\ Cardinality(Before(f, i)) < SequencesIn(f)[EventLines(f)[i].dom]
           /\ \A i, j \in 1..Len(EventLines(f)) :
                i < j /\ EventLines(f)[i].dom = EventLines(f)[j].dom =>
                  Cardinality(Before(f, i)) < Cardinality(Before(f, j))
           /\ \A d \in Domain : SequencesIn(f)[d] \in 0..Len(EventLines(f))
<1> DEFINE lines == EventLines(f)
           Of(d) == {i \in 1..Len(lines) : lines[i].dom = d}
<1>1. Len(lines) \in Nat /\ lines \in Seq(EventRecs)
  BY EventLinesShape
<1>2. \A d \in Domain : SequencesIn(f)[d] = Cardinality(Of(d))
  BY DEF SequencesIn
<1> HIDE DEF lines
<1>3. \A d : Of(d) \in SUBSET (1..Len(lines))
  OBVIOUS
<1>4. ASSUME NEW i \in 1..Len(lines)
      PROVE  lines[i].dom \in Domain
  <2>1. lines[i] \in EventRecs
    BY <1>1, Elements
  <2> QED
    BY <2>1 DEF EventRecs
<1>5. ASSUME NEW i \in 1..Len(lines)
      PROVE  /\ Cardinality(Before(f, i)) \in Nat
             /\ Cardinality(Before(f, i)) < SequencesIn(f)[lines[i].dom]
  <2> DEFINE S == Before(f, i)
             T == Of(lines[i].dom)
  <2>1. S \in SUBSET T /\ T \in SUBSET (1..Len(lines)) /\ i \in T /\ i \notin S
    <3>1. \A x \in S : x \in 1..Len(lines) /\ lines[x].dom = lines[i].dom /\ x # i
      BY <1>1 DEF Before, lines
    <3> QED
      BY <3>1
  <2> HIDE DEF S, T
  <2>2. /\ Cardinality(T) \in 0..Len(lines) /\ Cardinality(S) \in 0..Cardinality(T)
        /\ Cardinality(S) < Cardinality(T)
    BY <2>1, <1>1, Smaller
  <2>3. SequencesIn(f)[lines[i].dom] = Cardinality(T)
    BY <1>2, <1>4 DEF T
  <2> QED
    BY <2>2, <2>3 DEF S
<1>6. ASSUME NEW i \in 1..Len(lines), NEW j \in 1..Len(lines), i < j, lines[i].dom = lines[j].dom
      PROVE  Cardinality(Before(f, i)) < Cardinality(Before(f, j))
  <2> DEFINE S == Before(f, i)
             T == Before(f, j)
  <2>1. S \in SUBSET T /\ T \in SUBSET (1..Len(lines)) /\ i \in T /\ i \notin S
    <3>0. i \in Nat /\ j \in Nat
      BY <1>1
    <3>1. \A x \in S : x \in 1..(j - 1) /\ lines[x].dom = lines[j].dom /\ x # i
      BY <3>0, <1>6, <1>1 DEF Before, lines
    <3>2. \A x \in S : x \in T
      BY <3>1 DEF Before, lines
    <3>3. \A x \in T : x \in 1..Len(lines)
      BY <3>0, <1>6, <1>1 DEF Before, lines
    <3>4. i \in T
      BY <3>0, <1>6, <1>1 DEF Before, lines
    <3> HIDE DEF S, T
    <3> QED
      BY <3>1, <3>2, <3>3, <3>4
  <2> HIDE DEF S, T
  <2>2. Cardinality(S) < Cardinality(T)
    BY <2>1, <1>1, Smaller
  <2> QED
    BY <2>2 DEF S, T
<1>7. ASSUME NEW d \in Domain PROVE SequencesIn(f)[d] \in 0..Len(lines)
  <2> HIDE DEF Of
  <2>1. Of(d) \in SUBSET (1..Len(lines))
    BY <1>3
  <2>2. Cardinality(Of(d)) \in 0..Len(lines)
    BY <2>1, <1>1, Smaller
  <2> QED
    BY <2>2, <1>2
<1> QED
  BY <1>5, <1>6, <1>7 DEF lines

LEMMA LoadedTypes ==
    ASSUME NEW f \in Files, NEW n \in 1..(MaxEvents + 1), FileGood(f, n)
    PROVE  LET lines == EventLines(f) IN
           /\ RootsIn(lines) \in Seq(Seq(1..MaxEvents)) /\ EventsIn(f) \in Seq(EventInfo)
           /\ SequencesIn(f) \in [Domain -> 0..MaxEvents] /\ \A d \in Domain : SequencesIn(f)[d] < n
           /\ HoldsIn(f) \subseteq Domain
           /\ RetainedIn(f) \in [Domain -> SUBSET (0..(MaxEvents - 1))]
           /\ Begun([i \in 1..Len(lines) |-> lines[i].leaf], n)
<1> DEFINE lines == EventLines(f)
           E == LinesAt(f, "event")
<1>0. MaxEvents \in Nat /\ n \in Nat \ {0} /\ n - 1 <= MaxEvents
  BY AuditLogAssumption
<1>1. /\ lines \in Seq(EventRecs) /\ Len(lines) \in Nat
      /\ \A k \in E : f.lines[k] \in EventRecs
      /\ \A m \in 1..Len(lines) : Nth(E, m) \in E /\ lines[m] = f.lines[Nth(E, m)]
      /\ \A m, k \in 1..Len(lines) : Nth(E, m) = Nth(E, k) => m = k
  BY EventLinesShape
<1>2. \A i \in 1..Len(lines) : lines[i] \in EventRecs
  BY <1>1, Elements
<1>3. \A k \in E : f.lines[k].leaf < n
  BY DEF FileGood, GoodLine
<1>4. \A j, k \in E : f.lines[j].leaf = f.lines[k].leaf => j = k
  BY DEF FileGood
<1>5. Len(lines) < n
  BY <1>0, <1>3, <1>4, FewLines
<1> HIDE DEF lines, E
<1>6. RootsIn(lines) \in Seq(Seq(1..MaxEvents))
  <2>1. \A i \in 1..Len(lines) : lines[i].root \in Seq(1..MaxEvents)
    BY <1>2 DEF EventRecs
  <2>2. RootsIn(lines) = [i \in 1..Len(lines) |-> lines[i].root]
    BY DEF RootsIn
  <2>3. RootsIn(lines) \in [1..Len(lines) -> Seq(1..MaxEvents)]
    BY <2>1, <2>2
  <2> QED
    BY <2>3, <1>1
<1>7. /\ \A i \in 1..Len(lines) : Cardinality(Before(f, i)) \in Nat
                                  /\ Cardinality(Before(f, i)) < SequencesIn(f)[lines[i].dom]
      /\ \A d \in Domain : SequencesIn(f)[d] \in 0..Len(lines)
  BY LoadedSequences DEF lines
<1>8. SequencesIn(f) \in [Domain -> 0..MaxEvents] /\ \A d \in Domain : SequencesIn(f)[d] < n
  <2>1. \A d \in Domain : SequencesIn(f)[d] \in 0..MaxEvents /\ SequencesIn(f)[d] < n
    BY <1>7, <1>5, <1>0, <1>1
  <2>2. SequencesIn(f) = [d \in Domain |-> SequencesIn(f)[d]]
    BY DEF SequencesIn
  <2> QED
    BY <2>1, <2>2
<1>9. EventsIn(f) \in Seq(EventInfo)
  <2> DEFINE P == Uncovered(f)
  <2>1. /\ P \in SUBSET (1..Len(lines)) /\ Cardinality(P) \in Nat
        /\ DOMAIN EventsIn(f) = 1..Cardinality(P)
        /\ \A x \in 1..Cardinality(P) :
             /\ Nth(P, x) \in P
             /\ EventsIn(f)[x] = [index |-> lines[Nth(P, x)].index, dom |-> lines[Nth(P, x)].dom,
                                  sequence |-> Cardinality(Before(f, Nth(P, x)))]
    BY EventsInShape DEF lines
  <2>2. \A i \in 1..Len(lines) :
          [index |-> lines[i].index, dom |-> lines[i].dom, sequence |-> Cardinality(Before(f, i))]
            \in EventInfo
    <3> SUFFICES ASSUME NEW i \in 1..Len(lines)
                 PROVE  [index |-> lines[i].index, dom |-> lines[i].dom,
                         sequence |-> Cardinality(Before(f, i))] \in EventInfo
      OBVIOUS
    <3>1. lines[i].index \in 0..(MaxEvents - 1) /\ lines[i].dom \in Domain
      BY <1>2 DEF EventRecs
    <3>2. Cardinality(Before(f, i)) \in 0..(MaxEvents - 1)
      BY <3>1, <1>0, <1>7, <1>8
    <3> QED
      BY <3>1, <3>2 DEF EventInfo
  <2> HIDE DEF P
  <2>3. \A x \in 1..Cardinality(P) : EventsIn(f)[x] \in EventInfo
    BY <2>1, <2>2
  <2>4. EventsIn(f) = [x \in 1..Cardinality(P) |-> EventsIn(f)[x]]
    <3>1. EventsIn(f) = [x \in DOMAIN EventsIn(f) |-> EventsIn(f)[x]]
      BY DEF EventsIn, Kept
    <3> QED
      BY <3>1, <2>1
  <2>5. EventsIn(f) \in [1..Cardinality(P) -> EventInfo]
    BY <2>3, <2>4
  <2> QED
    BY <2>5, <2>1
<1>10. HoldsIn(f) \subseteq Domain
  BY DEF HoldsIn
<1>11. RetainedIn(f) \in [Domain -> SUBSET (0..(MaxEvents - 1))]
  <2>1. \A j \in LinesAt(f, "pruned") : f.lines[j].max \in 0..(MaxEvents - 1)
    <3> SUFFICES ASSUME NEW j \in LinesAt(f, "pruned") PROVE f.lines[j].max \in 0..(MaxEvents - 1)
      OBVIOUS
    <3>1. f.lines \in Seq(Lines)
      BY DEF Files
    <3>2. j \in 1..Len(f.lines) /\ f.lines[j].kind = "pruned"
      BY DEF LinesAt
    <3>3. f.lines[j] \in Lines
      BY <3>1, <3>2, Elements
    <3>4. f.lines[j] \in PruneRecs
      BY <3>2, <3>3, LineKinds
    <3> QED
      BY <3>4 DEF PruneRecs
  <2> QED
    BY <2>1 DEF RetainedIn
<1>12. Begun([i \in 1..Len(lines) |-> lines[i].leaf], n)
  <2> DEFINE t == [i \in 1..Len(lines) |-> lines[i].leaf]
  <2>1. \A i \in 1..Len(lines) : t[i] = lines[i].leaf /\ lines[i].leaf \in 1..MaxEvents
    BY <1>2 DEF EventRecs
  <2>2. t \in Seq(1..MaxEvents) /\ Len(t) = Len(lines)
    BY <2>1, <1>1
  <2> HIDE DEF t
  <2>3. \A i \in 1..Len(t) : t[i] < n
    BY <2>1, <2>2, <1>1, <1>3
  <2>4. \A i, j \in 1..Len(t) : t[i] = t[j] => i = j
    BY <2>1, <2>2, <1>1, <1>4
  <2> QED
    BY <2>2, <2>3, <2>4 DEF Begun, t
<1> QED
  BY <1>6, <1>8, <1>9, <1>10, <1>11, <1>12 DEF lines

LEMMA SledTreeBegun ==
    ASSUME TypeInv, SledLoads
    PROVE  /\ Begun(SledTree, nextLeaf) /\ Len(SledTree) = sled.count /\ sled.count \in Nat \ {0}
           /\ \A i \in 1..sled.count : SledTree[i] = sled.leaves[i - 1]
           /\ \A i \in 0..(sled.count - 1) : i \in DOMAIN sled.leaves
<1> DEFINE c == sled.count
<1>1. c \in Nat \ {0} /\ \A i \in 0..(c - 1) : i \in DOMAIN sled.leaves
  BY DEF TypeInv, Types, SledLoads
<1>2. SledTree = [i \in 1..c |-> sled.leaves[i - 1]]
  BY DEF SledTree
<1> HIDE DEF c
<1>3. \A i \in 1..c : i - 1 \in DOMAIN sled.leaves
  BY <1>1
<1>4. \A i \in 1..c : SledTree[i] = sled.leaves[i - 1] /\ SledTree[i] \in 1..MaxEvents
                      /\ SledTree[i] < nextLeaf
  BY <1>2, <1>3 DEF TypeInv, Leaves, SledGood
<1>5. SledTree \in [1..c -> 1..MaxEvents]
  BY <1>2, <1>4
<1>6. SledTree \in Seq(1..MaxEvents) /\ Len(SledTree) = c
  BY <1>5, <1>1, FromFunction
<1>7. ASSUME NEW i \in 1..c, NEW j \in 1..c, SledTree[i] = SledTree[j] PROVE i = j
  <2>1. i - 1 = j - 1
    BY <1>3, <1>4, <1>7 DEF TypeInv, Leaves, SledGood
  <2> QED
    BY <2>1, <1>1
<1> QED
  BY <1>1, <1>4, <1>6, <1>7 DEF Begun, c

LEMMA RestartTypeInv ==
    ASSUME TypeInv, Restart
    PROVE  TypeInv'
<1> DEFINE f == Repaired(jsonl)
           lines == EventLines(f)
           accepted == IF SledLoads THEN VerifiesAgainstSled(lines) ELSE Replays(lines)
           t == [i \in 1..Len(lines) |-> lines[i].leaf]
<1>1. Types /\ jsonl \in Files /\ nextLeaf \in 1..(MaxEvents + 1) /\ nextLeaf \in Nat
      /\ mode = "down" /\ pruning = NoDomain /\ clearing = "idle"
  BY DEF TypeInv, Types, Restart
<1>2. f \in Files /\ Kin(jsonl, f, [kind |-> "none"])
  BY <1>1, RepairedShape
<1>3. FileGood(f, nextLeaf)
  <2>1. [kind |-> "none"].kind # "event"
    OBVIOUS
  <2> HIDE DEF f
  <2> QED
    BY <2>1, <1>1, <1>2, FileStaysGood DEF TypeInv, Leaves
<1>4. /\ RootsIn(lines) \in Seq(Seq(1..MaxEvents)) /\ EventsIn(f) \in Seq(EventInfo)
      /\ SequencesIn(f) \in [Domain -> 0..MaxEvents]
      /\ \A d \in Domain : SequencesIn(f)[d] < nextLeaf
      /\ HoldsIn(f) \subseteq Domain
      /\ RetainedIn(f) \in [Domain -> SUBSET (0..(MaxEvents - 1))]
      /\ Begun(t, nextLeaf)
  <2> HIDE DEF f
  <2> QED
    BY <1>1, <1>2, <1>3, LoadedTypes
<1>5. /\ jsonl' = f /\ UNCHANGED <<sled, rec, pruning, clearing, nextLeaf, clears, errors, intact>>
      /\ accepted => /\ mode' = "up" /\ tree' = (IF SledLoads THEN SledTree ELSE t)
                     /\ rootAfter' = RootsIn(lines) /\ events' = EventsIn(f)
                     /\ sequences' = SequencesIn(f) /\ holds' = HoldsIn(f)
                     /\ retained' = RetainedIn(f)
      /\ ~accepted => /\ mode' = "refused"
                      /\ UNCHANGED <<tree, rootAfter, events, sequences, holds, retained>>
  BY DEF Restart, bounds, history, memory
<1> HIDE DEF f, lines, accepted, t
<1>6. Types'
  <2>1. CASE accepted
    BY <2>1, <1>1, <1>2, <1>4, <1>5 DEF Types
  <2>2. CASE ~accepted
    BY <2>2, <1>1, <1>2, <1>5 DEF Types
  <2> QED
    BY <2>1, <2>2
<1>7. Begun(tree', nextLeaf)
  <2>1. CASE accepted
    BY <2>1, <1>4, <1>5, SledTreeBegun
  <2>2. CASE ~accepted
    BY <2>2, <1>5 DEF TypeInv, Leaves
  <2> QED
    BY <2>1, <2>2
<1>8. Leaves'
  BY <1>3, <1>5, <1>7 DEF TypeInv, Leaves
<1>9. \A r \in Recorder : rec[r].pc = "idle" /\ rec'[r] = rec[r]
  BY <1>1, <1>5 DEF TypeInv, Recorders, Recording
<1>10. Recorders'
  BY <1>9 DEF Recorders, Recording, Holder
<1> QED
  BY <1>6, <1>8, <1>10 DEF TypeInv

LEMMA NextTypeInv ==
    ASSUME TypeInv, [Next]_vars
    PROVE  TypeInv'
<1>1. CASE UNCHANGED vars
  BY <1>1 DEF vars, memory, disk, bounds, history, TypeInv, Types, Leaves, Recorders, Recording,
              Holder, Ev
<1>2. CASE Next
  BY <1>2, BeginTypeInv, InsertTypeInv, AppendTypeInv, SaveTypeInv, HoldTypeInv, PruneCheckTypeInv,
     PruneTypeInv, ClearTypeInv, CrashTypeInv, RestartTypeInv DEF Next
<1> QED
  BY <1>1, <1>2

(* The lists of the log keep their shape: every leaf is in the tree, in    *)
(* the file and in the sled store at most once, and whoever holds the tree *)
(* lock has its leaf at the end of the tree, whatever recorders, prunes,   *)
(* clears, failing appends, crashes and recoveries interleave.             *)
THEOREM TypesAlwaysKept == Spec => []TypeInv
<1>1. Init => TypeInv
  BY InitTypeInv
<1>2. TypeInv /\ [Next]_vars => TypeInv'
  BY NextTypeInv
<1> QED
  BY <1>1, <1>2, PTL DEF Spec

-----------------------------------------------------------------------------
(* What was acknowledged stays *)

LEMMA HeldKept ==
    ASSUME NEW f \in Files, NEW g \in Files, Keeps(f, g), NEW line, Kin(f, g, line), NEW a, NEW k,
           HeldFrom(f, a, k),
           line.kind = "event" => a.index < Len(line.root) /\ line.root[a.index + 1] = a.leaf
    PROVE  k \in LinesAt(g, "event") /\ HeldFrom(g, a, k)
<1>1. k \in LinesAt(f, "event") /\ k \in 1..Len(f.lines) /\ Len(f.lines) \in Nat
      /\ Len(g.lines) \in Nat
  BY DEF HeldFrom, LinesAt, Files
<1>2. g.lines[k] = f.lines[k] /\ k \in 1..Len(g.lines)
  BY <1>1 DEF Keeps
<1>3. k \in LinesAt(g, "event")
  BY <1>1, <1>2 DEF LinesAt
<1>4. \A j \in LinesAt(g, "event") : j >= k =>
         a.index < Len(g.lines[j].root) /\ g.lines[j].root[a.index + 1] = a.leaf
  BY DEF Kin, HeldFrom
<1> QED
  BY <1>2, <1>3, <1>4 DEF HeldFrom

(* A step of the file that writes nothing, a metadata line, or the event   *)
(* line of the recorder that holds the tree lock.                          *)
LEMMA WritesKeepHeld ==
    ASSUME TypeInv, AckInv, NEW line, FileStep(line), intact', acked' = acked,
           line.kind = "event" => \E r \in Recorder : rec[r].pc = "inserted" /\ line = LineOf(r)
    PROVE  intact /\ TornLast(jsonl') /\ Held(jsonl')
<1>1. jsonl \in Files /\ intact \in BOOLEAN
  BY DEF TypeInv, Types
<1>2. jsonl' \in Files /\ Kin(jsonl, jsonl', line) /\ intact /\ Keeps(jsonl, jsonl')
      /\ (TornLast(jsonl) => TornLast(jsonl'))
  BY <1>1, StepShape
<1>3. TornLast(jsonl) /\ Held(jsonl)
  BY <1>2 DEF AckInv
<1>4. ASSUME NEW a \in acked, line.kind = "event"
      PROVE  a.index < Len(line.root) /\ line.root[a.index + 1] = a.leaf
  <2>1. PICK r \in Recorder : rec[r].pc = "inserted" /\ line = LineOf(r)
    BY <1>4
  <2>2. line.root = tree /\ mode = "up"
    BY <2>1, EventWritten DEF TypeInv, Recorders, Recording, Holder
  <2> QED
    BY <2>2, <1>2 DEF AckInv, AckedDurableWhileIntact, AckedDurable
<1>5. Held(jsonl')
  <2> SUFFICES ASSUME NEW a \in acked PROVE \E k \in LinesAt(jsonl', "event") : HeldFrom(jsonl', a, k)
    BY DEF Held
  <2>1. PICK k \in LinesAt(jsonl, "event") : HeldFrom(jsonl, a, k)
    BY <1>3 DEF Held
  <2> QED
    BY <2>1, <1>1, <1>2, <1>4, HeldKept
<1> QED
  BY <1>2, <1>3, <1>5

LEMMA BeginAckInv ==
    ASSUME TypeInv, AckInv, NEW r \in Recorder, NEW d \in Domain, BeginRecord(r, d)
    PROVE  AckInv'
<1>1. UNCHANGED <<mode, tree, jsonl, clearing, acked, intact, Ev>>
  BY DEF BeginRecord, disk, history, Ev
<1>2. rec'[r].pc = "numbered" /\ \A q \in Recorder \ {r} : rec'[q] = rec[q]
  BY DEF BeginRecord, TypeInv, Types
<1>3. LastIsOwn => LastIsOwn'
  BY <1>1, <1>2 DEF LastIsOwn, LineOf
<1> QED
  BY <1>1, <1>3 DEF AckInv, Held, AckedDurableWhileIntact, AckedDurable

LEMMA InsertAckInv ==
    ASSUME TypeInv, AckInv, NEW r \in Recorder, InsertLeaf(r)
    PROVE  AckInv'
<1>1. UNCHANGED <<mode, jsonl, clearing, acked, intact>> /\ TreeFree
  BY DEF InsertLeaf, disk, history
<1>2. rec'[r].pc = "inserted" /\ \A q \in Recorder \ {r} : rec'[q] = rec[q]
  BY DEF InsertLeaf, TypeInv, Types
<1>3. LastIsOwn'
  BY <1>1, <1>2 DEF LastIsOwn, TreeFree
<1>4. PICK x \in 1..MaxEvents : tree' = Append(tree, x)
  BY RecKinds DEF InsertLeaf, TypeInv
<1>5. tree \in Seq(1..MaxEvents)
  BY DEF TypeInv, Leaves, Begun
<1>6. Len(tree') = Len(tree) + 1 /\ \A i \in 1..Len(tree) : tree'[i] = tree[i]
  BY <1>4, <1>5
<1>7. AckedDurableWhileIntact'
  <2> SUFFICES ASSUME intact', mode' = "up", NEW a \in acked'
               PROVE  a.index < Len(tree') /\ tree'[a.index + 1] = a.leaf
    BY DEF AckedDurableWhileIntact, AckedDurable
  <2>1. a.index \in Nat /\ a.index < Len(tree) /\ tree[a.index + 1] = a.leaf
    BY <1>1 DEF AckInv, AckedDurableWhileIntact, AckedDurable
  <2>2. a.index + 1 \in 1..Len(tree) /\ Len(tree) \in Nat
    BY <2>1, <1>5
  <2> QED
    BY <2>1, <2>2, <1>6
<1> QED
  BY <1>1, <1>3, <1>7 DEF AckInv, Held

LEMMA AppendAckInv ==
    ASSUME TypeInv, AckInv, NEW r \in Recorder, AppendLine(r) \/ AppendFails(r)
    PROVE  AckInv'
<1>1. UNCHANGED <<mode, tree, clearing, acked>> /\ EventsFree /\ rec[r].pc = "inserted"
  BY DEF AppendLine, AppendFails
<1>2. Types /\ jsonl \in Files /\ intact \in BOOLEAN
  BY DEF TypeInv, Types
<1>3. FileStep(LineOf(r)) /\ LineOf(r) \in Lines /\ LineOf(r).kind = "event"
  BY <1>1, <1>2, RecordWrites, EventWritten
<1>4. intact' => intact /\ TornLast(jsonl') /\ Held(jsonl')
  BY <1>1, <1>3, WritesKeepHeld
<1>5. ASSUME intact' PROVE LastIsOwn'
  <2>1. CASE AppendFails(r)
    <3>1. \A q \in Recorder : rec'[q].pc # "appended"
      BY <2>1, <1>1, <1>2 DEF AppendFails, Types, Idle, EventsFree
    <3> QED
      BY <3>1 DEF LastIsOwn
  <2>2. CASE AppendLine(r)
    <3>1. jsonl' = [lines |-> Append(jsonl.lines, LineOf(r)), eol |-> TRUE]
      BY <2>2, <1>2, <1>3, <1>5, WriteLineSteps DEF AppendLine
    <3>2. \A q \in Recorder \ {r} : rec'[q].pc # "appended"
      BY <2>2, <1>1, <1>2 DEF AppendLine, Types, EventsFree
    <3>3. LineOf(r)' = LineOf(r)
      <4>1. rec[r] \in Inserted
        BY <1>1, <1>2, RecKinds
      <4>2. rec'[r] = [rec[r] EXCEPT !.pc = "appended"]
        BY <2>2, <1>2 DEF AppendLine, Types
      <4>3. rec'[r].index = rec[r].index /\ rec'[r].dom = rec[r].dom /\ rec'[r].leaf = rec[r].leaf
            /\ rec'[r].root = rec[r].root
        BY <4>1, <4>2 DEF Inserted
      <4> QED
        BY <4>3 DEF LineOf
    <3>4. PICK l \in Lines : l = LineOf(r) /\ l.kind = "event"
      BY <1>3
    <3>5. PICK s \in Seq(Lines) : s = jsonl.lines
      BY <1>2 DEF Files
    <3>6. jsonl'.lines = Append(s, l) /\ Len(Append(s, l)) = Len(s) + 1
          /\ Append(s, l)[Len(s) + 1] = l /\ Len(s) \in Nat
      BY <3>1, <3>4, <3>5
    <3>7. Len(jsonl'.lines) \in Ev' /\ jsonl'.lines[Len(jsonl'.lines)] = l
      BY <3>4, <3>6 DEF Ev, LinesAt
    <3> QED
      BY <3>2, <3>3, <3>4, <3>7 DEF LastIsOwn
  <2> QED
    BY <2>1, <2>2
<1>6. AckedDurableWhileIntact'
  BY <1>1, <1>4 DEF AckInv, AckedDurableWhileIntact, AckedDurable
<1> QED
  BY <1>1, <1>4, <1>5, <1>6 DEF AckInv, Held

LEMMA SaveAckInv ==
    ASSUME TypeInv, AckInv, NEW r \in Recorder, SaveLeaf(r)
    PROVE  AckInv'
<1>1. UNCHANGED <<mode, tree, jsonl, clearing, intact, Ev>> /\ rec[r].pc = "appended"
  BY DEF SaveLeaf, memory, Ev
<1>2. rec'[r].pc = "idle" /\ \A q \in Recorder \ {r} : rec'[q] = rec[q]
  BY DEF SaveLeaf, TypeInv, Types, Idle
<1>3. LastIsOwn'
  BY <1>1, <1>2 DEF LastIsOwn, TypeInv, Recorders, Holder
<1> DEFINE new == [index |-> rec[r].index, leaf |-> rec[r].leaf]
<1>4. new.index = rec[r].index /\ new.leaf = rec[r].leaf
      /\ \A a \in acked' : a \in acked \/ (a = new /\ clearing = "idle")
  BY DEF SaveLeaf
<1>5. rec[r].index \in Nat /\ rec[r].root = tree /\ Len(tree) = rec[r].index + 1
      /\ tree[rec[r].index + 1] = rec[r].leaf
  BY <1>1, EventWritten DEF TypeInv, Recorders, Recording, Holder
<1> HIDE DEF new
<1>6. ASSUME intact PROVE HeldFrom(jsonl, new, Len(jsonl.lines)) /\ Len(jsonl.lines) \in Ev
  <2> DEFINE n == Len(jsonl.lines)
  <2>1. n \in Ev /\ jsonl.lines[n] = LineOf(r) /\ n \in Nat
    BY <1>1, <1>6 DEF AckInv, LastIsOwn, TypeInv, Types, Files
  <2>2. /\ LineOf(r).index = rec[r].index /\ LineOf(r).leaf = rec[r].leaf
        /\ LineOf(r).root = rec[r].root
    BY <1>1, EventWritten DEF TypeInv
  <2>3. \A j \in LinesAt(jsonl, "event") : j >= n => j = n
    BY <2>1 DEF LinesAt
  <2>4. rec[r].index < Len(rec[r].root) /\ rec[r].root[rec[r].index + 1] = rec[r].leaf
    BY <1>5
  <2> HIDE DEF n
  <2>5. HeldFrom(jsonl, new, n)
    BY <2>1, <2>2, <2>3, <2>4, <1>4 DEF HeldFrom, Ev
  <2> QED
    BY <2>1, <2>5 DEF n
<1>7. intact' => Held(jsonl)'
  BY <1>1, <1>4, <1>6 DEF AckInv, Held, Ev
<1>8. AckedDurableWhileIntact'
  <2>1. new.index < Len(tree) /\ tree[new.index + 1] = new.leaf
    BY <1>4, <1>5
  <2> QED
    BY <2>1, <1>1, <1>4 DEF AckInv, AckedDurableWhileIntact, AckedDurable
<1>9. (\A a \in acked' : a.index \in Nat) /\ (acked' # {} => clearing' = "idle")
  BY <1>1, <1>4, <1>5 DEF AckInv
<1> QED
  BY <1>1, <1>3, <1>7, <1>8, <1>9 DEF AckInv

LEMMA MetaAckInv ==
    ASSUME TypeInv, AckInv, NEW line, FileStep(line), line.kind # "event", EventsFree,
           UNCHANGED <<mode, tree, rec, clearing, acked>>
    PROVE  AckInv'
<1>1. intact' => intact /\ TornLast(jsonl') /\ Held(jsonl')
  BY WritesKeepHeld
<1>2. LastIsOwn'
  BY DEF LastIsOwn, EventsFree
<1> QED
  BY <1>1, <1>2 DEF AckInv, Held, AckedDurableWhileIntact, AckedDurable

LEMMA OtherAckInv ==
    ASSUME TypeInv, AckInv,
           \/ \E d \in Domain, on \in BOOLEAN : SetLegalHold(d, on)
           \/ \E d \in Domain : PruneCheck(d)
           \/ PruneApply \/ ClearTree \/ ClearMemory \/ ClearSled \/ ClearFile
    PROVE  AckInv'
<1>0. Types
  BY DEF TypeInv
<1>1. ASSUME NEW d \in Domain, NEW on \in BOOLEAN, SetLegalHold(d, on) PROVE AckInv'
  <2>1. FileStep(HoldLine(d, on)) /\ HoldLine(d, on).kind = "hold"
    BY <1>0, <1>1, HoldWrites, HoldWritten
  <2>2. EventsFree /\ UNCHANGED <<mode, tree, rec, clearing, acked>>
    BY <1>1 DEF SetLegalHold
  <2> QED
    BY <2>1, <2>2, MetaAckInv
<1>2. ASSUME NEW d \in Domain, PruneCheck(d) PROVE AckInv'
  <2>1. UNCHANGED <<mode, tree, rec, jsonl, clearing, acked, intact>>
    BY <1>2 DEF PruneCheck, memory, disk, history
  <2> QED
    BY <2>1 DEF AckInv, Held, LastIsOwn, LineOf, Ev, AckedDurableWhileIntact, AckedDurable
<1>3. CASE PruneApply
  <2>1. PICK line : FileStep(line) /\ line.kind \in {"none", "pruned"}
    BY <1>0, <1>3, PruneWrites
  <2>2. EventsFree /\ UNCHANGED <<mode, tree, rec, clearing, acked>>
    BY <1>3 DEF PruneApply
  <2> QED
    BY <2>1, <2>2, MetaAckInv
<1>4. CASE ClearTree
  <2>1. UNCHANGED <<mode, rec, jsonl, intact>> /\ TreeFree /\ acked' = {}
    BY <1>4 DEF ClearTree, disk
  <2> QED
    BY <2>1 DEF AckInv, Held, LastIsOwn, TreeFree, AckedDurableWhileIntact, AckedDurable
<1>5. CASE ClearMemory \/ ClearSled
  <2>1. UNCHANGED <<mode, rec, jsonl, intact, tree, acked>> /\ clearing # "idle"
    BY <1>5 DEF ClearMemory, ClearSled, memory, disk, history
  <2>2. acked = {}
    BY <2>1 DEF AckInv
  <2> QED
    BY <2>1, <2>2
    DEF AckInv, Held, LastIsOwn, LineOf, Ev, AckedDurableWhileIntact, AckedDurable
<1>6. CASE ClearFile
  <2>1. UNCHANGED <<mode, rec, intact, tree, acked>> /\ clearing # "idle" /\ EventsFree
        /\ jsonl' = EmptyFile
    BY <1>6 DEF ClearFile, memory, history
  <2>2. acked = {}
    BY <2>1 DEF AckInv
  <2>3. TornLast(EmptyFile)
    BY DEF TornLast, EmptyFile, LinesAt
  <2> QED
    BY <2>1, <2>2, <2>3
    DEF AckInv, Held, LastIsOwn, EventsFree, AckedDurableWhileIntact, AckedDurable
<1> QED
  BY <1>1, <1>2, <1>3, <1>4, <1>5, <1>6

LEMMA CrashAckInv ==
    ASSUME TypeInv, AckInv, Crash
    PROVE  AckInv'
<1>1. PICK line : /\ FileStep(line)
                  /\ line.kind = "event" => \E r \in Recorder : rec[r].pc = "inserted" /\ line = LineOf(r)
  BY CrashWrites DEF TypeInv
<1>2. acked' = acked /\ mode' = "down" /\ clearing' = "idle" /\ rec' = [r \in Recorder |-> Idle]
  BY DEF Crash
<1>3. intact' => TornLast(jsonl') /\ Held(jsonl')
  BY <1>1, <1>2, WritesKeepHeld
<1>4. LastIsOwn'
  BY <1>2 DEF LastIsOwn, Idle
<1> QED
  BY <1>2, <1>3, <1>4 DEF AckInv, Held, AckedDurableWhileIntact, AckedDurable

(* The file that a restart reads holds the lines the crash left. *)
LEMMA RestartSame ==
    ASSUME TypeInv, AckInv, intact
    PROVE  Repaired(jsonl) \in Files /\ Same(jsonl, Repaired(jsonl))
<1>1. jsonl \in Files /\ TornLast(jsonl)
  BY DEF TypeInv, Types, AckInv
<1> QED
  BY <1>1, RepairedShape

(* What was acknowledged is in the tree that an accepted restart loads. *)
LEMMA HeldLoads ==
    ASSUME TypeInv, NEW f \in Files, NEW a, a.index \in Nat, NEW k, HeldFrom(f, a, k)
    PROVE  LET lines == EventLines(f)
               t == [i \in 1..Len(lines) |-> lines[i].leaf]
           IN  /\ SledLoads /\ VerifiesAgainstSled(lines)
                    => a.index < Len(SledTree) /\ SledTree[a.index + 1] = a.leaf
               /\ Replays(lines) => a.index < Len(t) /\ t[a.index + 1] = a.leaf
<1> DEFINE lines == EventLines(f)
           t == [i \in 1..Len(lines) |-> lines[i].leaf]
           E == LinesAt(f, "event")
           N == Len(lines)
<1>1. /\ N \in Nat /\ E \in SUBSET (1..Len(f.lines)) /\ Len(f.lines) \in Nat
      /\ \A m \in 1..N : Nth(E, m) \in E /\ lines[m] = f.lines[Nth(E, m)]
      /\ \A i \in E : \E m \in 1..N : Nth(E, m) = i
      /\ \A n, m \in 1..N : n < m => Nth(E, n) < Nth(E, m)
  BY EventLinesShape
<1>2. Len(t) = N /\ \A i \in 1..N : t[i] = lines[i].leaf
  BY <1>1
<1> HIDE DEF lines, t
<1>3. PICK m \in 1..N : Nth(E, m) = k
  BY <1>1 DEF HeldFrom
<1>4. lines[m].index = a.index /\ lines[m].leaf = a.leaf
  BY <1>1, <1>3 DEF HeldFrom
<1>5. N \in 1..N /\ Nth(E, N) >= k /\ Nth(E, N) \in E
  <2>1. N \in 1..N /\ m \in Nat /\ (m < N \/ m = N)
    BY <1>1
  <2>2. Nth(E, N) \in Nat /\ Nth(E, m) \in Nat /\ Nth(E, N) \in E
    BY <2>1, <1>1
  <2>3. m < N => Nth(E, m) < Nth(E, N)
    BY <2>1, <1>1
  <2> QED
    BY <2>1, <2>2, <2>3, <1>3
<1>6. a.index < Len(lines[N].root) /\ lines[N].root[a.index + 1] = a.leaf
  BY <1>1, <1>5 DEF HeldFrom
<1>7. ASSUME SledLoads, VerifiesAgainstSled(lines)
      PROVE  a.index < Len(SledTree) /\ SledTree[a.index + 1] = a.leaf
  <2>1. lines # <<>>
    BY <1>5
  <2>2. lines[N].root = SledTree
    BY <2>1, <1>7 DEF VerifiesAgainstSled
  <2> QED
    BY <2>2, <1>6
<1>8. ASSUME Replays(lines) PROVE a.index < Len(t) /\ t[a.index + 1] = a.leaf
  <2>1. lines[m].index = m - 1
    BY <1>8 DEF Replays
  <2>2. m = a.index + 1 /\ a.index < N
    BY <2>1, <1>1, <1>4
  <2> QED
    BY <2>2, <1>2, <1>4
<1> QED
  BY <1>7, <1>8 DEF lines, t

LEMMA RestartAckInv ==
    ASSUME TypeInv, AckInv, Restart
    PROVE  AckInv'
<1> DEFINE f == Repaired(jsonl)
           lines == EventLines(f)
           accepted == IF SledLoads THEN VerifiesAgainstSled(lines) ELSE Replays(lines)
           t == [i \in 1..Len(lines) |-> lines[i].leaf]
<1>1. /\ jsonl' = f /\ UNCHANGED <<rec, clearing, intact, acked>> /\ mode = "down"
      /\ accepted => mode' = "up" /\ tree' = (IF SledLoads THEN SledTree ELSE t)
      /\ ~accepted => mode' = "refused"
  BY DEF Restart, history
<1>2. jsonl \in Files /\ f \in Files /\ LinesAt(f, "torn") = {}
  BY RepairedShape DEF TypeInv, Types
<1>3. intact => Same(jsonl, f)
  BY RestartSame
<1>4. LastIsOwn'
  <2>1. \A r \in Recorder : rec'[r].pc # "appended"
    BY <1>1 DEF TypeInv, Recorders, Recording
  <2> QED
    BY <2>1 DEF LastIsOwn
<1> HIDE DEF f
<1>5. ASSUME intact PROVE Held(f)
  <2> SUFFICES ASSUME NEW a \in acked PROVE \E k \in LinesAt(f, "event") : HeldFrom(f, a, k)
    BY DEF Held
  <2>1. PICK k \in LinesAt(jsonl, "event") : HeldFrom(jsonl, a, k)
    BY <1>5 DEF AckInv, Held
  <2>2. /\ LinesAt(f, "event") = LinesAt(jsonl, "event")
        /\ \A j \in LinesAt(jsonl, "event") : f.lines[j] = jsonl.lines[j]
    BY <1>3, <1>5 DEF Same, Kinds
  <2>3. HeldFrom(f, a, k)
    BY <2>1, <2>2 DEF HeldFrom
  <2> QED
    BY <2>1, <2>2, <2>3
<1>6. ASSUME intact, mode' = "up", NEW a \in acked
      PROVE  a.index < Len(tree') /\ tree'[a.index + 1] = a.leaf
  <2>1. PICK k \in LinesAt(f, "event") : HeldFrom(f, a, k)
    BY <1>5, <1>6 DEF Held
  <2>2. a.index \in Nat
    BY DEF AckInv
  <2>3. /\ SledLoads /\ VerifiesAgainstSled(lines)
             => a.index < Len(SledTree) /\ SledTree[a.index + 1] = a.leaf
        /\ Replays(lines) => a.index < Len(t) /\ t[a.index + 1] = a.leaf
    BY <2>1, <2>2, <1>2, HeldLoads
  <2>4. accepted
    BY <1>1, <1>6
  <2> HIDE DEF t, lines
  <2>5. CASE SledLoads
    BY <2>3, <2>4, <2>5, <1>1
  <2>6. CASE ~SledLoads
    BY <2>3, <2>4, <2>6, <1>1
  <2> QED
    BY <2>5, <2>6
<1>7. AckedDurableWhileIntact'
  BY <1>1, <1>6 DEF AckedDurableWhileIntact, AckedDurable
<1>8. TornLast(f)
  BY <1>2 DEF TornLast
<1> QED
  BY <1>1, <1>4, <1>5, <1>7, <1>8 DEF AckInv, Held

LEMMA NextAckInv ==
    ASSUME TypeInv, AckInv, [Next]_vars
    PROVE  AckInv'
<1>1. CASE UNCHANGED vars
  BY <1>1 DEF vars, memory, disk, history, AckInv, Held, LastIsOwn, LineOf, Ev,
              AckedDurableWhileIntact, AckedDurable
<1>2. CASE Next
  BY <1>2, BeginAckInv, InsertAckInv, AppendAckInv, SaveAckInv, OtherAckInv, CrashAckInv,
     RestartAckInv DEF Next
<1> QED
  BY <1>1, <1>2

LEMMA InitAckInv == Init => AckInv
<1> SUFFICES ASSUME Init PROVE AckInv
  OBVIOUS
<1>1. acked = {} /\ jsonl = EmptyFile /\ rec = [r \in Recorder |-> Idle]
  BY DEF Init
<1> QED
  BY <1>1 DEF AckInv, TornLast, LastIsOwn, Held, LinesAt, EmptyFile, Idle, AckedDurableWhileIntact,
              AckedDurable

(* A record() that returned Ok is in the tree of every later run of the    *)
(* process, at its index, as long as no line was joined to an unterminated *)
(* one: the fsync before record() returns is enough.                       *)
THEOREM AckedAlwaysDurable == Spec => []AckedDurableWhileIntact
<1>1. Init => TypeInv /\ AckInv
  BY InitTypeInv, InitAckInv
<1>2. TypeInv /\ AckInv /\ [Next]_vars => (TypeInv /\ AckInv)'
  BY NextTypeInv, NextAckInv
<1>3. AckInv => AckedDurableWhileIntact
  BY DEF AckInv
<1> QED
  BY <1>1, <1>2, <1>3, PTL DEF Spec

-----------------------------------------------------------------------------
(* Sequence numbers *)

LEMMA SeqUnchanged ==
    ASSUME TypeInv, SeqInv, clears' = 0 => clears = 0,
           clears' = 0 => UNCHANGED <<mode, events, sequences, rec>>
    PROVE  SeqInv'
BY DEF SeqInv, SequencesDistinct, Waiting

LEMMA BeginSeqInv ==
    ASSUME TypeInv, SeqInv, NEW r \in Recorder, NEW d \in Domain, BeginRecord(r, d)
    PROVE  SeqInv'
<1> SUFFICES ASSUME clears = 0 PROVE SeqInv'
  BY DEF BeginRecord, SeqInv
<1>1. /\ UNCHANGED <<mode, events, clears>> /\ mode = "up"
      /\ rec' = [rec EXCEPT ![r] = [pc |-> "numbered", dom |-> d, leaf |-> nextLeaf,
                                    sequence |-> sequences[d]]]
      /\ sequences' = [sequences EXCEPT ![d] = sequences[d] + 1]
  BY DEF BeginRecord
<1>2. /\ rec'[r].pc = "numbered" /\ rec'[r].dom = d /\ rec'[r].sequence = sequences[d]
      /\ \A q \in Recorder \ {r} : rec'[q] = rec[q]
  BY <1>1 DEF TypeInv, Types
<1>3. sequences \in [Domain -> 0..MaxEvents] /\ events \in Seq(EventInfo) /\ MaxEvents \in Nat
  BY AuditLogAssumption DEF TypeInv, Types
<1>4. /\ \A e \in Domain : sequences[e] \in Nat /\ sequences'[e] \in Nat /\ sequences[e] <= sequences'[e]
      /\ sequences'[d] = sequences[d] + 1
  BY <1>1, <1>3
<1>5. \A i \in 1..Len(events) : events[i].dom \in Domain /\ events[i].sequence \in Nat
  <2>1. \A i \in 1..Len(events) : events[i] \in EventInfo
    BY <1>3, Elements
  <2> QED
    BY <2>1 DEF EventInfo
<1>6. \A q \in Recorder : Waiting(q) => rec[q].dom \in Domain /\ rec[q].sequence \in Nat
  BY RecKinds DEF TypeInv, Waiting
<1>7. SequencesDistinct'
  <2>1. SequencesDistinct
    BY DEF SeqInv
  <2> QED
    BY <2>1, <1>1, <1>4, <1>5 DEF SequencesDistinct
<1>8. ASSUME NEW q \in Recorder, Waiting(q)'
      PROVE  /\ rec'[q].sequence < sequences'[rec'[q].dom]
             /\ \A i \in 1..Len(events') :
                  events'[i].dom = rec'[q].dom => events'[i].sequence # rec'[q].sequence
  <2>1. CASE q = r
    <3>1. \A i \in 1..Len(events) : events[i].sequence < sequences[events[i].dom]
      BY <1>1 DEF SeqInv, SequencesDistinct
    <3> QED
      BY <2>1, <3>1, <1>1, <1>2, <1>4, <1>5
  <2>2. CASE q # r
    <3>1. Waiting(q) /\ rec'[q] = rec[q]
      BY <2>2, <1>2, <1>8 DEF Waiting
    <3>2. /\ rec[q].sequence < sequences[rec[q].dom]
          /\ \A i \in 1..Len(events) :
               events[i].dom = rec[q].dom => events[i].sequence # rec[q].sequence
      BY <3>1 DEF SeqInv
    <3> QED
      BY <3>1, <3>2, <1>1, <1>4, <1>6
  <2> QED
    BY <2>1, <2>2
<1>9. ASSUME NEW p \in Recorder, NEW q \in Recorder, Waiting(p)', Waiting(q)',
             rec'[q].dom = rec'[p].dom, rec'[q].sequence = rec'[p].sequence
      PROVE  q = p
  <2>1. \A o \in Recorder \ {r} : Waiting(o)' =>
          /\ Waiting(o) /\ rec'[o] = rec[o] /\ rec[o].sequence < sequences[rec[o].dom]
          /\ rec[o].sequence \in Nat
    BY <1>2, <1>6 DEF Waiting, SeqInv
  <2>2. \A o \in Recorder \ {r} : Waiting(o)' /\ rec'[o].dom = d => rec'[o].sequence # sequences[d]
    BY <2>1, <1>4
  <2>3. CASE p # r /\ q # r
    BY <2>1, <2>3, <1>9 DEF SeqInv
  <2>4. CASE p = r \/ q = r
    BY <2>2, <2>4, <1>2, <1>9
  <2> QED
    BY <2>3, <2>4
<1> QED
  BY <1>7, <1>8, <1>9 DEF SeqInv

LEMMA AppendSeqInv ==
    ASSUME TypeInv, SeqInv, NEW r \in Recorder, AppendLine(r) \/ AppendFails(r)
    PROVE  SeqInv'
<1> SUFFICES ASSUME clears = 0 PROVE SeqInv'
  BY DEF AppendLine, AppendFails, bounds, SeqInv
<1>1. /\ UNCHANGED <<mode, sequences, clears>> /\ rec[r].pc = "inserted" /\ PushEvent(r)
  BY DEF AppendLine, AppendFails, bounds
<1>2. Types /\ events \in Seq(EventInfo) /\ mode = "up"
  BY <1>1 DEF TypeInv, Types, Recorders, Recording
<1>3. ~Waiting(r)' /\ \A q \in Recorder \ {r} : rec'[q] = rec[q]
  <2>1. rec[r] \in Inserted
    BY <1>1, <1>2, RecKinds
  <2> QED
    BY <2>1, <1>2 DEF AppendLine, AppendFails, Types, Waiting, Idle, Inserted
<1>4. PICK e \in EventInfo : /\ e.dom = rec[r].dom /\ e.sequence = rec[r].sequence
                             /\ events' = Append(events, e)
  <2> DEFINE z == [index |-> rec[r].index, dom |-> rec[r].dom, sequence |-> rec[r].sequence]
  <2>1. rec[r] \in Inserted
    BY <1>1, <1>2, RecKinds
  <2>2. z \in EventInfo /\ z.dom = rec[r].dom /\ z.sequence = rec[r].sequence
    BY <2>1 DEF EventInfo, Inserted
  <2>3. events' = Append(events, z)
    BY <1>1 DEF PushEvent
  <2> HIDE DEF z
  <2> QED
    BY <2>2, <2>3
<1>5. /\ Len(events') = Len(events) + 1 /\ Len(events) \in Nat /\ events'[Len(events) + 1] = e
      /\ \A i \in 1..Len(events) : events'[i] = events[i]
      /\ \A i \in 1..Len(events') : i \in 1..Len(events) \/ i = Len(events) + 1
  BY <1>2, <1>4
<1>6. Waiting(r)
  BY <1>1 DEF Waiting
<1>7. /\ rec[r].sequence < sequences[rec[r].dom]
      /\ \A i \in 1..Len(events) :
           events[i].dom = rec[r].dom => events[i].sequence # rec[r].sequence
      /\ \A q \in Recorder :
           Waiting(q) /\ rec[q].dom = rec[r].dom /\ rec[q].sequence = rec[r].sequence => q = r
  BY <1>6 DEF SeqInv
<1>8. SequencesDistinct'
  <2>1. \A i \in 1..Len(events) :
          /\ events[i].sequence < sequences[events[i].dom]
          /\ \A j \in 1..Len(events) :
               i # j /\ events[i].dom = events[j].dom => events[i].sequence # events[j].sequence
    BY <1>2 DEF SeqInv, SequencesDistinct
  <2>2. \A i \in 1..Len(events') : events'[i].sequence < sequences'[events'[i].dom]
    BY <2>1, <1>1, <1>4, <1>5, <1>7
  <2>3. \A i, j \in 1..Len(events') :
          i # j /\ events'[i].dom = events'[j].dom => events'[i].sequence # events'[j].sequence
    BY <2>1, <1>4, <1>5, <1>7
  <2> QED
    BY <2>2, <2>3 DEF SequencesDistinct
<1>9. ASSUME NEW q \in Recorder, Waiting(q)'
      PROVE  /\ rec'[q].sequence < sequences'[rec'[q].dom]
             /\ \A i \in 1..Len(events') :
                  events'[i].dom = rec'[q].dom => events'[i].sequence # rec'[q].sequence
             /\ \A p \in Recorder :
                  Waiting(p)' /\ rec'[p].dom = rec'[q].dom /\ rec'[p].sequence = rec'[q].sequence
                    => p = q
  <2>1. q # r /\ rec'[q] = rec[q] /\ Waiting(q)
    BY <1>3, <1>9 DEF Waiting
  <2>2. /\ rec[q].sequence < sequences[rec[q].dom]
        /\ \A i \in 1..Len(events) :
             events[i].dom = rec[q].dom => events[i].sequence # rec[q].sequence
        /\ \A p \in Recorder :
             Waiting(p) /\ rec[p].dom = rec[q].dom /\ rec[p].sequence = rec[q].sequence => p = q
    BY <2>1 DEF SeqInv
  <2>3. \A i \in 1..Len(events') :
           events'[i].dom = rec[q].dom => events'[i].sequence # rec[q].sequence
    BY <2>1, <2>2, <1>4, <1>5, <1>7
  <2>4. \A p \in Recorder : Waiting(p)' => p # r /\ rec'[p] = rec[p] /\ Waiting(p)
    BY <1>3 DEF Waiting
  <2> QED
    BY <2>1, <2>2, <2>3, <2>4, <1>1
<1> QED
  BY <1>8, <1>9 DEF SeqInv

LEMMA InsertSeqInv ==
    ASSUME TypeInv, SeqInv, NEW r \in Recorder, InsertLeaf(r)
    PROVE  SeqInv'
<1> SUFFICES ASSUME clears = 0 PROVE SeqInv'
  BY DEF InsertLeaf, bounds, SeqInv
<1>1. UNCHANGED <<mode, events, sequences, clears>> /\ rec[r].pc = "numbered"
  BY DEF InsertLeaf, bounds
<1>2. /\ rec'[r].pc = "inserted" /\ rec'[r].dom = rec[r].dom /\ rec'[r].sequence = rec[r].sequence
      /\ \A q \in Recorder \ {r} : rec'[q] = rec[q]
  BY DEF InsertLeaf, TypeInv, Types
<1>3. \A q \in Recorder : Waiting(q)' =>
        Waiting(q) /\ rec'[q].dom = rec[q].dom /\ rec'[q].sequence = rec[q].sequence
  BY <1>1, <1>2 DEF Waiting
<1>4. SequencesDistinct'
  BY <1>1 DEF SeqInv, SequencesDistinct
<1> HIDE DEF Waiting
<1> QED
  BY <1>1, <1>3, <1>4 DEF SeqInv

LEMMA SaveSeqInv ==
    ASSUME TypeInv, SeqInv, NEW r \in Recorder, SaveLeaf(r)
    PROVE  SeqInv'
<1> SUFFICES ASSUME clears = 0 PROVE SeqInv'
  BY DEF SaveLeaf, bounds, SeqInv
<1>1. UNCHANGED <<mode, events, sequences, clears>> /\ rec[r].pc = "appended"
  BY DEF SaveLeaf, bounds, memory
<1>2. rec'[r].pc = "idle" /\ \A q \in Recorder \ {r} : rec'[q] = rec[q]
  BY DEF SaveLeaf, TypeInv, Types, Idle
<1>3. \A q \in Recorder : Waiting(q)' => Waiting(q) /\ rec'[q] = rec[q]
  BY <1>2 DEF Waiting
<1>4. SequencesDistinct'
  BY <1>1 DEF SeqInv, SequencesDistinct
<1> QED
  BY <1>1, <1>3, <1>4 DEF SeqInv

LEMMA PruneSeqInv ==
    ASSUME TypeInv, SeqInv, PruneApply
    PROVE  SeqInv'
<1> SUFFICES ASSUME clears = 0 PROVE SeqInv'
  BY DEF PruneApply, bounds, SeqInv
<1>1. UNCHANGED <<mode, sequences, clears, rec>>
  BY DEF PruneApply, bounds
<1>2. events \in Seq(EventInfo)
  BY DEF TypeInv, Types
<1>3. CASE events' = events
  BY <1>1, <1>3, SeqUnchanged
<1>4. CASE events' # events
  <2> DEFINE I == {i \in 1..Len(events) : events[i].dom # pruning}
             N == Cardinality(I)
  <2>1. events' = Kept(events, I)
    BY <1>4 DEF PruneApply, EventsOutside
  <2>2. I \in SUBSET (1..Len(events)) /\ Len(events) \in Nat
    BY <1>2
  <2> HIDE DEF I
  <2>3. /\ Len(events') = N /\ N \in Nat
        /\ \A x \in 1..N : events'[x] = events[Nth(I, x)] /\ Nth(I, x) \in I
        /\ \A x, y \in 1..N : Nth(I, x) = Nth(I, y) => x = y
    <3>1. /\ Cardinality(I) \in 0..Len(events)
          /\ \A x, y \in 1..Cardinality(I) : Nth(I, x) = Nth(I, y) => x = y
      BY <2>2, NthInOrder
    <3>2. /\ Len(Kept(events, I)) = Cardinality(I)
          /\ \A x \in 1..Cardinality(I) : Kept(events, I)[x] = events[Nth(I, x)] /\ Nth(I, x) \in I
      BY <2>2, KeptInOrder
    <3> QED
      BY <2>1, <2>2, <3>1, <3>2
  <2> HIDE DEF N
  <2>4. \A x \in 1..Len(events') : Nth(I, x) \in 1..Len(events) /\ events'[x] = events[Nth(I, x)]
    BY <2>2, <2>3
  <2>5. SequencesDistinct'
    <3> SUFFICES ASSUME mode = "up", NEW x \in 1..Len(events'), NEW y \in 1..Len(events')
                 PROVE  /\ events'[x].sequence < sequences[events'[x].dom]
                        /\ x # y /\ events'[x].dom = events'[y].dom
                             => events'[x].sequence # events'[y].sequence
      BY <1>1 DEF SequencesDistinct
    <3>1. SequencesDistinct /\ (x # y => Nth(I, x) # Nth(I, y))
      BY <2>3 DEF SeqInv
    <3> QED
      BY <3>1, <2>4 DEF SequencesDistinct
  <2>6. \A q \in Recorder : Waiting(q)' <=> Waiting(q)
    BY <1>1 DEF Waiting
  <2> QED
    BY <2>4, <2>5, <2>6, <1>1 DEF SeqInv
<1> QED
  BY <1>3, <1>4

LEMMA RestartSeqInv ==
    ASSUME TypeInv, SeqInv, Restart
    PROVE  SeqInv'
<1> DEFINE f == Repaired(jsonl)
           lines == EventLines(f)
           P == Uncovered(f)
           N == Cardinality(P)
<1>1. UNCHANGED <<rec, clears>> /\ mode = "down"
      /\ (mode' = "up" => events' = EventsIn(f) /\ sequences' = SequencesIn(f))
  BY DEF Restart, bounds
<1>2. \A q \in Recorder : ~Waiting(q)'
  BY <1>1 DEF TypeInv, Recorders, Recording, Waiting
<1>3. f \in Files
  BY RepairedShape DEF TypeInv, Types
<1> HIDE DEF f
<1>4. /\ P \in SUBSET (1..Len(lines)) /\ Len(EventsIn(f)) = N /\ N \in Nat
      /\ \A x \in 1..N :
           /\ Nth(P, x) \in P
           /\ EventsIn(f)[x] = [index |-> lines[Nth(P, x)].index, dom |-> lines[Nth(P, x)].dom,
                                sequence |-> Cardinality(Before(f, Nth(P, x)))]
      /\ \A x, y \in 1..N : Nth(P, x) = Nth(P, y) => x = y
  BY <1>3, EventsInShape
<1>5. /\ \A i \in 1..Len(lines) : /\ Cardinality(Before(f, i)) \in Nat
                                  /\ Cardinality(Before(f, i)) < SequencesIn(f)[lines[i].dom]
      /\ \A i, j \in 1..Len(lines) :
           i < j /\ lines[i].dom = lines[j].dom =>
             Cardinality(Before(f, i)) < Cardinality(Before(f, j))
  BY <1>3, LoadedSequences
<1>6. Len(lines) \in Nat
  BY <1>3, EventLinesShape
<1> HIDE DEF lines, P, N
<1>7. \A x \in 1..N :
        /\ Nth(P, x) \in 1..Len(lines) /\ EventsIn(f)[x].dom = lines[Nth(P, x)].dom
        /\ EventsIn(f)[x].sequence = Cardinality(Before(f, Nth(P, x)))
  BY <1>4
<1>8. \A i, j \in 1..Len(lines) :
        i # j /\ lines[i].dom = lines[j].dom => Cardinality(Before(f, i)) # Cardinality(Before(f, j))
  <2> SUFFICES ASSUME NEW i \in 1..Len(lines), NEW j \in 1..Len(lines), i # j,
                      lines[i].dom = lines[j].dom
               PROVE  Cardinality(Before(f, i)) # Cardinality(Before(f, j))
    OBVIOUS
  <2>1. i < j \/ j < i
    BY <1>6
  <2>2. Cardinality(Before(f, i)) \in Nat /\ Cardinality(Before(f, j)) \in Nat
    BY <1>5
  <2>3. \/ Cardinality(Before(f, i)) < Cardinality(Before(f, j))
        \/ Cardinality(Before(f, j)) < Cardinality(Before(f, i))
    BY <2>1, <1>5
  <2> QED
    BY <2>2, <2>3
<1>9. SequencesDistinct'
  <2> SUFFICES ASSUME mode' = "up", NEW x \in 1..N, NEW y \in 1..N
               PROVE  /\ EventsIn(f)[x].sequence < SequencesIn(f)[EventsIn(f)[x].dom]
                      /\ x # y /\ EventsIn(f)[x].dom = EventsIn(f)[y].dom
                           => EventsIn(f)[x].sequence # EventsIn(f)[y].sequence
    BY <1>1, <1>4 DEF SequencesDistinct
  <2>1. x # y => Nth(P, x) # Nth(P, y)
    BY <1>4
  <2> QED
    BY <2>1, <1>5, <1>7, <1>8
<1> QED
  BY <1>2, <1>9 DEF SeqInv

LEMMA NextSeqInv ==
    ASSUME TypeInv, SeqInv, [Next]_vars
    PROVE  SeqInv'
<1>0. Types
  BY DEF TypeInv
<1>1. CASE UNCHANGED vars
  BY <1>1, SeqUnchanged DEF vars, memory, bounds
<1>2. ASSUME NEW d \in Domain, NEW on \in BOOLEAN, SetLegalHold(d, on) PROVE SeqInv'
  BY <1>2, SeqUnchanged DEF SetLegalHold
<1>3. ASSUME NEW d \in Domain, PruneCheck(d) PROVE SeqInv'
  BY <1>3, SeqUnchanged DEF PruneCheck, memory
<1>4. CASE ClearTree \/ ClearMemory \/ ClearSled \/ ClearFile
  <2>1. clears' # 0
    BY <1>0, <1>4 DEF ClearTree, ClearMemory, ClearSled, ClearFile, Types, bounds
  <2> QED
    BY <2>1 DEF SeqInv
<1>5. CASE Crash
  <2>1. mode' = "down" /\ \A r \in Recorder : ~Waiting(r)'
    BY <1>5 DEF Crash, Waiting, Idle
  <2> QED
    BY <2>1 DEF SeqInv, SequencesDistinct
<1> QED
  BY <1>1, <1>2, <1>3, <1>4, <1>5, BeginSeqInv, InsertSeqInv, AppendSeqInv, SaveSeqInv,
     PruneSeqInv, RestartSeqInv DEF Next

(* Until somebody calls clear(), no two events of a domain ever share a    *)
(* sequence number, and the next one is unused, whatever crashes, failing  *)
(* appends, recounts of a restart and prunes come between.                 *)
THEOREM SequencesAlwaysDistinct == Spec => []SequencesDistinct
<1>1. Init => TypeInv /\ SeqInv
  <2>1. Init => SeqInv
    BY DEF Init, SeqInv, SequencesDistinct, Waiting, Idle
  <2> QED
    BY <2>1, InitTypeInv
<1>2. TypeInv /\ SeqInv /\ [Next]_vars => (TypeInv /\ SeqInv)'
  BY NextTypeInv, NextSeqInv
<1>3. SeqInv => SequencesDistinct
  BY DEF SeqInv, SequencesDistinct
<1> QED
  BY <1>1, <1>2, <1>3, PTL DEF Spec

-----------------------------------------------------------------------------
(* The history of roots *)

LEMMA GoodRoots ==
    ASSUME NEW f \in Files, NEW n, FileGood(f, n), NEW k \in LinesAt(f, "event")
    PROVE  /\ f.lines[k] \in EventRecs /\ f.lines[k].index \in Nat
           /\ f.lines[k].root \in Seq(1..MaxEvents) /\ Len(f.lines[k].root) = f.lines[k].index + 1
           /\ f.lines[k].root[f.lines[k].index + 1] = f.lines[k].leaf
<1>1. f.lines[k] \in EventRecs
  BY EventLinesShape
<1> QED
  BY <1>1 DEF EventRecs, FileGood, GoodLine, Begun

LEMMA WritesKeepOrder ==
    ASSUME TypeInv, AckInv, RootInv, clears = 0, intact', NEW line, FileStep(line),
           line.kind = "event" => \E r \in Recorder : rec[r].pc = "inserted" /\ line = LineOf(r)
    PROVE  /\ intact /\ Ordered(jsonl') /\ (mode = "up" => Under(jsonl', tree))
           /\ \A s : Stored(jsonl, s) => Stored(jsonl', s)
<1> DEFINE n == Len(jsonl.lines)
<1>1. jsonl \in Files /\ intact \in BOOLEAN /\ n \in Nat /\ tree \in Seq(1..MaxEvents)
  BY DEF TypeInv, Types, Files, Leaves, Begun
<1>2. jsonl' \in Files /\ Kin(jsonl, jsonl', line) /\ intact /\ Keeps(jsonl, jsonl')
  BY <1>1, StepShape
<1>3. \A k \in LinesAt(jsonl', "event") :
        \/ k \in LinesAt(jsonl, "event") /\ jsonl'.lines[k] = jsonl.lines[k] /\ k \in 1..n
        \/ k = n + 1 /\ jsonl'.lines[k] = line /\ line.kind = "event"
  BY <1>2 DEF Kin, LinesAt
<1>4. \A k \in LinesAt(jsonl, "event") : k \in LinesAt(jsonl', "event")
                                         /\ jsonl'.lines[k] = jsonl.lines[k]
  <2> SUFFICES ASSUME NEW k \in LinesAt(jsonl, "event")
               PROVE  k \in LinesAt(jsonl', "event") /\ jsonl'.lines[k] = jsonl.lines[k]
    OBVIOUS
  <2>1. k \in 1..n /\ jsonl.lines[k].kind = "event"
    BY DEF LinesAt
  <2>2. jsonl'.lines[k] = jsonl.lines[k] /\ k \in 1..Len(jsonl'.lines)
    BY <2>1, <1>1, <1>2 DEF Keeps
  <2> QED
    BY <2>1, <2>2 DEF LinesAt
<1>5. \A s : Stored(jsonl, s) => Stored(jsonl', s)
  BY <1>4 DEF Stored
<1>6. Ordered(jsonl) /\ (mode = "up" => Under(jsonl, tree))
  BY <1>2 DEF RootInv
<1>7. ASSUME line.kind = "event"
      PROVE  /\ mode = "up" /\ line.root = tree /\ line.index < Len(tree)
             /\ line.root = SubSeq(tree, 1, line.index + 1)
             /\ \A k \in LinesAt(jsonl, "event") : jsonl.lines[k].index < line.index
  <2>1. PICK r \in Recorder : rec[r].pc = "inserted" /\ line = LineOf(r)
    BY <1>7
  <2>2. line.root = rec[r].root /\ line.index = rec[r].index /\ rec[r].index \in 0..(MaxEvents - 1)
    BY <2>1, EventWritten DEF TypeInv
  <2>3. mode = "up" /\ rec[r].root = tree /\ Len(tree) = rec[r].index + 1
    BY <2>1 DEF TypeInv, Recorders, Recording, Holder
  <2>4. \A k \in LinesAt(jsonl, "event") : jsonl.lines[k].index < line.index
    BY <2>1, <2>2, <1>2 DEF RootInv, Ev
  <2>5. SubSeq(tree, 1, Len(tree)) = tree
    BY <1>1
  <2> QED
    BY <2>2, <2>3, <2>4, <2>5
<1>8. Ordered(jsonl')
  <2> SUFFICES ASSUME NEW j \in LinesAt(jsonl', "event"), NEW k \in LinesAt(jsonl', "event"), j < k
               PROVE  /\ jsonl'.lines[j].index < jsonl'.lines[k].index
                      /\ jsonl'.lines[j].root
                           = SubSeq(jsonl'.lines[k].root, 1, jsonl'.lines[j].index + 1)
    BY DEF Ordered
  <2>1. j \in LinesAt(jsonl, "event") /\ jsonl'.lines[j] = jsonl.lines[j]
    BY <1>1, <1>3
  <2>2. CASE k \in LinesAt(jsonl, "event") /\ jsonl'.lines[k] = jsonl.lines[k]
    BY <2>1, <2>2, <1>6 DEF Ordered
  <2>3. CASE k = n + 1 /\ jsonl'.lines[k] = line /\ line.kind = "event"
    BY <2>1, <2>3, <1>6, <1>7 DEF Under
  <2> QED
    BY <2>2, <2>3, <1>3
<1>9. mode = "up" => Under(jsonl', tree)
  BY <1>3, <1>6, <1>7 DEF Under
<1> QED
  BY <1>2, <1>5, <1>8, <1>9

LEMMA RootUnchanged ==
    ASSUME RootInv, clears' = 0 => UNCHANGED <<clears, intact, mode, rootAfter, tree, jsonl, sled>>,
           \A r \in Recorder : rec'[r].pc = "inserted" => rec'[r] = rec[r]
    PROVE  RootInv'
BY DEF RootInv, Ev

LEMMA InsertRootInv ==
    ASSUME TypeInv, RootInv, NEW r \in Recorder, InsertLeaf(r)
    PROVE  RootInv'
<1> SUFFICES ASSUME clears = 0, intact PROVE RootInv'
  BY DEF InsertLeaf, bounds, history, RootInv
<1>1. UNCHANGED <<mode, jsonl, sled, clears, intact, Ev>> /\ TreeFree
  BY DEF InsertLeaf, disk, bounds, history, Ev
<1>2. PICK x \in 1..MaxEvents : tree' = Append(tree, x)
  BY RecKinds DEF InsertLeaf, TypeInv
<1>3. mode = "up" /\ jsonl \in Files /\ FileGood(jsonl, nextLeaf)
  BY DEF InsertLeaf, TypeInv, Types, Leaves, Recorders, Recording
<1>4. tree \in Seq(1..MaxEvents)
  BY DEF TypeInv, Leaves, Begun
<1>5. rootAfter = RootHistory(tree) /\ Under(jsonl, tree) /\ Ordered(jsonl) /\ Stored(jsonl, sled)
  BY <1>3 DEF RootInv
<1>6. /\ tree' \in Seq(1..MaxEvents) /\ Len(tree') = Len(tree) + 1 /\ Len(tree) \in Nat
      /\ \A i \in 1..Len(tree) : tree'[i] = tree[i]
  BY <1>2, <1>4
<1>7. \A m \in 0..Len(tree) : SubSeq(tree', 1, m) = SubSeq(tree, 1, m)
  <2> SUFFICES ASSUME NEW m \in 0..Len(tree) PROVE SubSeq(tree', 1, m) = SubSeq(tree, 1, m)
    OBVIOUS
  <2>1. m \in 0..Len(tree')
    BY <1>6
  <2>2. SubSeq(tree', 1, m) = [k \in 1..m |-> tree'[k]] /\ SubSeq(tree, 1, m) = [k \in 1..m |-> tree[k]]
    BY <2>1, <1>4, <1>6, Prefix
  <2>3. \A k \in 1..m : tree'[k] = tree[k]
    BY <1>6
  <2> QED
    BY <2>2, <2>3
<1>8. SubSeq(tree', 1, Len(tree) + 1) = tree'
  BY <1>6
<1>9. rootAfter' = RootHistory(tree')
  <2>1. rootAfter' = Append(RootHistory(tree), tree')
    BY <1>5 DEF InsertLeaf
  <2>2. \A m \in 1..Len(tree) : SubSeq(tree, 1, m) \in Seq(1..MaxEvents)
    <3> SUFFICES ASSUME NEW m \in 1..Len(tree) PROVE SubSeq(tree, 1, m) \in Seq(1..MaxEvents)
      OBVIOUS
    <3>1. m \in 0..Len(tree)
      BY <1>6
    <3> QED
      BY <3>1, <1>4, Prefix
  <2>3. RootHistory(tree) \in [1..Len(tree) -> Seq(1..MaxEvents)]
    BY <2>2 DEF RootHistory
  <2>4. PICK h \in Seq(Seq(1..MaxEvents)) : h = RootHistory(tree) /\ Len(h) = Len(tree)
                                            /\ \A m \in 1..Len(tree) : h[m] = SubSeq(tree, 1, m)
    <3>1. RootHistory(tree) \in Seq(Seq(1..MaxEvents)) /\ Len(RootHistory(tree)) = Len(tree)
      BY <2>3, <1>6, FromFunction
    <3>2. \A m \in 1..Len(tree) : RootHistory(tree)[m] = SubSeq(tree, 1, m)
      BY DEF RootHistory
    <3> QED
      BY <3>1, <3>2
  <2>5. PICK t \in Seq(1..MaxEvents) : t = tree'
    BY <1>6
  <2>6. /\ Append(h, t)[Len(h) + 1] = t /\ \A m \in 1..Len(h) : Append(h, t)[m] = h[m]
        /\ Append(h, t) = [m \in 1..(Len(h) + 1) |-> Append(h, t)[m]]
    BY Appending
  <2>7. \A m \in 1..(Len(h) + 1) : Append(h, t)[m] = SubSeq(t, 1, m)
    BY <2>4, <2>5, <2>6, <1>6, <1>7, <1>8
  <2>8. Append(h, t) = [m \in 1..(Len(h) + 1) |-> SubSeq(t, 1, m)]
    BY <2>6, <2>7
  <2> QED
    BY <2>1, <2>4, <2>5, <2>8, <1>6 DEF RootHistory
<1>10. Under(jsonl, tree')
  <2> SUFFICES ASSUME NEW k \in LinesAt(jsonl, "event")
               PROVE  /\ jsonl.lines[k].index < Len(tree')
                      /\ jsonl.lines[k].root = SubSeq(tree', 1, jsonl.lines[k].index + 1)
    BY DEF Under
  <2>1. jsonl.lines[k].index \in Nat
    BY <1>3, GoodRoots
  <2>2. /\ jsonl.lines[k].index < Len(tree)
        /\ jsonl.lines[k].root = SubSeq(tree, 1, jsonl.lines[k].index + 1)
    BY <1>5 DEF Under
  <2>3. jsonl.lines[k].index + 1 \in 0..Len(tree)
    BY <2>1, <2>2, <1>6
  <2> QED
    BY <2>1, <2>2, <2>3, <1>6, <1>7
<1>11. \A q \in Recorder : rec'[q].pc = "inserted" =>
          \A k \in Ev : jsonl.lines[k].index < rec'[q].index
  <2>1. /\ rec'[r].index = Len(tree)
        /\ \A q \in Recorder \ {r} : rec'[q] = rec[q] /\ rec[q].pc # "inserted"
    BY <1>1 DEF InsertLeaf, TypeInv, Types, TreeFree
  <2> QED
    BY <2>1, <1>5 DEF Under, Ev
<1> QED
  BY <1>1, <1>5, <1>9, <1>10, <1>11 DEF RootInv

LEMMA AppendRootInv ==
    ASSUME TypeInv, AckInv, RootInv, NEW r \in Recorder, AppendLine(r) \/ AppendFails(r)
    PROVE  RootInv'
<1> SUFFICES ASSUME clears = 0, intact' PROVE RootInv'
  BY DEF AppendLine, AppendFails, bounds, RootInv
<1>1. UNCHANGED <<mode, tree, rootAfter, sled, clears>> /\ rec[r].pc = "inserted"
  BY DEF AppendLine, AppendFails, bounds
<1>2. Types
  BY DEF TypeInv
<1>3. FileStep(LineOf(r))
  BY <1>2, RecordWrites
<1>4. /\ intact /\ Ordered(jsonl') /\ (mode = "up" => Under(jsonl', tree))
      /\ \A s : Stored(jsonl, s) => Stored(jsonl', s)
  BY <1>1, <1>3, WritesKeepOrder
<1>5. rec'[r].pc # "inserted" /\ \A q \in Recorder \ {r} : rec'[q] = rec[q]
  <2>1. rec[r] \in Inserted
    BY <1>1, <1>2, RecKinds
  <2> QED
    BY <2>1, <1>2 DEF AppendLine, AppendFails, Types, Idle, Inserted
<1>6. \A q \in Recorder : rec'[q].pc # "inserted"
  BY <1>1, <1>5 DEF TypeInv, Recorders, Holder
<1> QED
  BY <1>1, <1>4, <1>6 DEF RootInv

LEMMA SaveRootInv ==
    ASSUME TypeInv, AckInv, RootInv, NEW r \in Recorder, SaveLeaf(r)
    PROVE  RootInv'
<1> SUFFICES ASSUME clears = 0, intact PROVE RootInv'
  BY DEF SaveLeaf, bounds, RootInv
<1>1. UNCHANGED <<mode, tree, rootAfter, jsonl, clears, intact, Ev>> /\ rec[r].pc = "appended"
  BY DEF SaveLeaf, bounds, memory, Ev
<1>2. rec'[r].pc = "idle" /\ \A q \in Recorder \ {r} : rec'[q] = rec[q]
  BY DEF SaveLeaf, TypeInv, Types, Idle
<1>3. Stored(jsonl, sled')
  <2>0. Stored(jsonl, sled)
    BY DEF RootInv
  <2>1. CASE sled' = sled
    BY <2>0, <2>1
  <2>2. CASE sled' = SledPut(rec[r].index, rec[r].leaf, rec[r].index + 1)
    <3>1. rec[r].index + 1 \in 0..MaxEvents
      BY <1>1, EventWritten, AuditLogAssumption DEF TypeInv
    <3>2. DOMAIN sled'.leaves = DOMAIN sled.leaves \cup {rec[r].index}
      BY <2>2, <3>1, <1>1, SledPutShape
    <3>3. Len(jsonl.lines) \in Ev /\ jsonl.lines[Len(jsonl.lines)].index = rec[r].index
      BY <1>1, EventWritten DEF AckInv, LastIsOwn, TypeInv
    <3> QED
      BY <2>0, <3>2, <3>3 DEF Stored, Ev
  <2> QED
    BY <2>1, <2>2 DEF SaveLeaf
<1> QED
  BY <1>1, <1>2, <1>3 DEF RootInv

LEMMA MetaRootInv ==
    ASSUME TypeInv, AckInv, RootInv, NEW line, FileStep(line), line.kind # "event",
           UNCHANGED <<mode, tree, rootAfter, sled, rec, clears>>
    PROVE  RootInv'
<1> SUFFICES ASSUME clears = 0, intact' PROVE RootInv'
  BY DEF RootInv
<1>1. /\ intact /\ Ordered(jsonl') /\ (mode = "up" => Under(jsonl', tree))
      /\ \A s : Stored(jsonl, s) => Stored(jsonl', s)
  BY WritesKeepOrder
<1>2. \A k \in Ev' : k \in Ev /\ jsonl'.lines[k] = jsonl.lines[k]
  <2>1. Kin(jsonl, jsonl', line)
    BY StepShape DEF TypeInv, Types
  <2> QED
    BY <2>1 DEF Kin, Ev
<1> QED
  BY <1>1, <1>2 DEF RootInv

LEMMA CrashRootInv ==
    ASSUME TypeInv, AckInv, RootInv, Crash
    PROVE  RootInv'
<1> SUFFICES ASSUME clears = 0, intact' PROVE RootInv'
  BY DEF Crash, RootInv
<1>1. PICK line : /\ FileStep(line) /\ (line.kind = "none" => jsonl' = jsonl)
                  /\ line.kind # "none" => EventsFree
                  /\ line.kind = "event" => \E r \in Recorder : rec[r].pc = "inserted" /\ line = LineOf(r)
  BY CrashWrites DEF TypeInv
<1>2. /\ intact /\ Ordered(jsonl')
      /\ \A s : Stored(jsonl, s) => Stored(jsonl', s)
  BY <1>1, WritesKeepOrder
<1>3. mode' = "down" /\ \A r \in Recorder : rec'[r].pc = "idle"
  BY DEF Crash, Idle
<1>4. Stored(jsonl, sled')
  <2>0. Stored(jsonl, sled)
    BY <1>2 DEF RootInv
  <2>1. CASE sled' = sled
    BY <2>0, <2>1
  <2>2. ASSUME NEW r \in Recorder, rec[r].pc = "appended",
               sled' = SledPut(rec[r].index, rec[r].leaf, sled.count)
        PROVE  Stored(jsonl, sled')
    <3>1. sled.count \in 0..MaxEvents
      BY DEF TypeInv, Types
    <3>2. DOMAIN sled'.leaves = DOMAIN sled.leaves \cup {rec[r].index}
      BY <2>2, <3>1, SledPutShape
    <3>3. Len(jsonl.lines) \in Ev /\ jsonl.lines[Len(jsonl.lines)].index = rec[r].index
      BY <2>2, <1>2, EventWritten DEF AckInv, LastIsOwn, TypeInv
    <3> QED
      BY <2>0, <3>2, <3>3 DEF Stored, Ev
  <2> QED
    BY <2>1, <2>2 DEF Crash
<1> QED
  BY <1>2, <1>3, <1>4 DEF RootInv

(* g lists the numbers below c in increasing order. *)
Climbs(g, N, c) ==
  /\ \A n \in 1..N : g[n] \in 0..(c - 1)
  /\ \A n, m \in 1..N : n < m => g[n] < g[m]
  /\ \A v \in 0..(c - 1) : \E n \in 1..N : g[n] = v

(* Increasing values that fill 0..(c - 1) count up from 0. *)
LEMMA CountUp ==
    ASSUME NEW N \in Nat, NEW c \in Nat \ {0}, NEW g, Climbs(g, N, c)
    PROVE  N = c /\ \A n \in 1..N : g[n] = n - 1
<1> USE DEF Climbs
<1> DEFINE Off == {n \in 1..N : g[n] # n - 1}
<1>1. ASSUME Off # {} PROVE FALSE
  <2>1. Off \in SUBSET Nat
    OBVIOUS
  <2>2. PICK n \in Off : \A m \in Off : n <= m
    BY <2>1, <1>1, Least
  <2>3. n \in 1..N /\ n \in Nat /\ g[n] # n - 1 /\ g[n] \in Nat /\ g[n] < c
    OBVIOUS
  <2>4. \A m \in 1..N : m < n => g[m] = m - 1
    BY <2>2, <2>3
  <2>5. g[n] > n - 1
    <3>1. CASE n = 1
      BY <3>1, <2>3
    <3>2. CASE n # 1
      <4>1. n - 1 \in 1..N /\ n - 1 < n
        BY <3>2, <2>3
      <4>2. g[n - 1] = (n - 1) - 1 /\ g[n - 1] < g[n]
        BY <4>1, <2>3, <2>4
      <4> QED
        BY <4>2, <2>3
    <3> QED
      BY <3>1, <3>2
  <2>6. n - 1 \in 0..(c - 1)
    BY <2>3, <2>5
  <2>7. PICK m \in 1..N : g[m] = n - 1
    BY <2>6
  <2>8. ~(m < n)
    <3>1. m < n => g[m] = m - 1
      BY <2>4
    <3> QED
      BY <3>1, <2>7, <2>3
  <2>9. m # n
    BY <2>7, <2>3
  <2>10. n < m
    BY <2>8, <2>9, <2>3
  <2>11. g[n] < g[m]
    BY <2>10, <2>3
  <2> QED
    BY <2>11, <2>7, <2>5, <2>3
<1>2. \A n \in 1..N : g[n] = n - 1
  BY <1>1
<1>3. c <= N
  <2>1. c - 1 \in 0..(c - 1)
    OBVIOUS
  <2>2. PICK n \in 1..N : g[n] = c - 1
    BY <2>1
  <2> QED
    BY <2>2, <1>2
<1>4. N <= c
  <2>1. N \in 1..N
    BY <1>3
  <2>2. g[N] = N - 1 /\ g[N] \in 0..(c - 1)
    BY <2>1, <1>2
  <2> QED
    BY <2>2
<1> QED
  BY <1>2, <1>3, <1>4

(* An accepted restart loads a tree of which every line's root is a prefix.*)
LEMMA RootsLoad ==
    ASSUME TypeInv, NEW f \in Files, FileGood(f, nextLeaf), Ordered(f), Stored(f, sled)
    PROVE  LET lines == EventLines(f)
               t == [i \in 1..Len(lines) |-> lines[i].leaf]
           IN  /\ SledLoads /\ VerifiesAgainstSled(lines)
                    => RootsIn(lines) = RootHistory(SledTree) /\ Under(f, SledTree)
               /\ Replays(lines) => RootsIn(lines) = RootHistory(t) /\ Under(f, t)
<1> DEFINE lines == EventLines(f)
           t == [i \in 1..Len(lines) |-> lines[i].leaf]
           E == LinesAt(f, "event")
           N == Len(lines)
<1>1. /\ N \in Nat /\ E \in SUBSET (1..Len(f.lines)) /\ Len(f.lines) \in Nat
      /\ \A m \in 1..N : Nth(E, m) \in E /\ lines[m] = f.lines[Nth(E, m)]
      /\ \A i \in E : \E m \in 1..N : Nth(E, m) = i
      /\ \A n, m \in 1..N : n < m => Nth(E, n) < Nth(E, m)
  BY EventLinesShape
<1>2. \A k \in E : /\ f.lines[k] \in EventRecs /\ f.lines[k].index \in Nat
                   /\ f.lines[k].root \in Seq(1..MaxEvents)
                   /\ Len(f.lines[k].root) = f.lines[k].index + 1
  BY GoodRoots
<1> HIDE DEF lines, E
<1>3. \A m \in 1..N : /\ lines[m].index \in Nat /\ lines[m].root \in Seq(1..MaxEvents)
                      /\ lines[m] \in EventRecs /\ Len(lines[m].root) = lines[m].index + 1
  BY <1>1, <1>2
<1>4. \A n, m \in 1..N : n < m =>
        /\ lines[n].index < lines[m].index
        /\ lines[n].root = SubSeq(lines[m].root, 1, lines[n].index + 1)
  BY <1>1 DEF Ordered, E
<1>5. RootsIn(lines) = [i \in 1..N |-> lines[i].root]
  BY DEF RootsIn
(* It is enough that line m has index m - 1 and the first m leaves. *)
<1>6. ASSUME NEW u, Len(u) = N,
             \A m \in 1..N : lines[m].index = m - 1 /\ lines[m].root = SubSeq(u, 1, m)
      PROVE  RootsIn(lines) = RootHistory(u) /\ Under(f, u)
  <2>1. RootsIn(lines) = RootHistory(u)
    BY <1>5, <1>6 DEF RootHistory
  <2>2. Under(f, u)
    <3> SUFFICES ASSUME NEW k \in E
                 PROVE  f.lines[k].index < Len(u) /\ f.lines[k].root = SubSeq(u, 1, f.lines[k].index + 1)
      BY DEF Under, E
    <3>1. PICK m \in 1..N : Nth(E, m) = k /\ f.lines[k] = lines[m]
      BY <1>1
    <3>2. f.lines[k].index = m - 1 /\ f.lines[k].root = SubSeq(u, 1, m)
      BY <3>1, <1>6
    <3>3. f.lines[k].index + 1 = m /\ f.lines[k].index < N
      BY <3>2, <1>1
    <3> QED
      BY <3>2, <3>3, <1>6
  <2> QED
    BY <2>1, <2>2
<1>7. ASSUME SledLoads, VerifiesAgainstSled(lines)
      PROVE  RootsIn(lines) = RootHistory(SledTree) /\ Under(f, SledTree)
  <2> DEFINE c == sled.count
             g == [n \in 1..N |-> lines[n].index]
  <2>1. c \in Nat \ {0} /\ Len(SledTree) = c /\ SledTree \in Seq(1..MaxEvents)
        /\ \A i \in 0..(c - 1) : i \in DOMAIN sled.leaves
    BY <1>7, SledTreeBegun DEF Begun
  <2> HIDE DEF c
  <2>2. \A n \in 1..N : g[n] \in 0..(c - 1)
    BY <2>1, <1>3, <1>7 DEF VerifiesAgainstSled, c
  <2>3. \A n, m \in 1..N : n < m => g[n] < g[m]
    BY <1>4
  <2>4. \A v \in 0..(c - 1) : \E n \in 1..N : g[n] = v
    <3> SUFFICES ASSUME NEW v \in 0..(c - 1) PROVE \E n \in 1..N : g[n] = v
      OBVIOUS
    <3>1. PICK k \in E : f.lines[k].index = v
      BY <2>1 DEF Stored, E
    <3>2. PICK n \in 1..N : Nth(E, n) = k /\ lines[n] = f.lines[k]
      BY <1>1
    <3> QED
      BY <3>1, <3>2
  <2>5. N = c /\ \A n \in 1..N : g[n] = n - 1
    <3> HIDE DEF g, N
    <3>1. N \in Nat
      BY <1>1
    <3>2. c \in Nat \ {0}
      BY <2>1
    <3>3. Climbs(g, N, c)
      BY <2>2, <2>3, <2>4 DEF Climbs
    <3> QED
      BY ONLY <3>1, <3>2, <3>3, CountUp
  <2>6. N \in 1..N /\ lines # <<>>
    BY <2>1, <2>5
  <2>7. lines[N].root = SledTree
    BY <2>6, <1>7 DEF VerifiesAgainstSled
  <2>8. SubSeq(SledTree, 1, N) = SledTree
    BY <2>1, <2>5
  <2>9. \A m \in 1..N : lines[m].index = m - 1 /\ lines[m].root = SubSeq(SledTree, 1, m)
    <3> SUFFICES ASSUME NEW m \in 1..N
                 PROVE  lines[m].index = m - 1 /\ lines[m].root = SubSeq(SledTree, 1, m)
      OBVIOUS
    <3>1. lines[m].index = m - 1 /\ lines[m].index + 1 = m
      BY <2>5, <1>1
    <3>2. m < N => lines[m].root = SubSeq(SledTree, 1, m)
      BY <3>1, <2>6, <2>7, <1>4
    <3>3. m = N => lines[m].root = SubSeq(SledTree, 1, m)
      BY <2>7, <2>8
    <3>4. m < N \/ m = N
      BY <1>1
    <3> QED
      BY <3>1, <3>2, <3>3, <3>4
  <2> QED
    BY <2>1, <2>5, <2>9, <1>6
<1>8. ASSUME Replays(lines) PROVE RootsIn(lines) = RootHistory(t) /\ Under(f, t)
  <2>1. \A m \in 1..N : lines[m].leaf \in 1..MaxEvents
    BY <1>3 DEF EventRecs
  <2>2. t \in [1..N -> 1..MaxEvents] /\ \A m \in 1..N : t[m] = lines[m].leaf
    BY <2>1
  <2> HIDE DEF t
  <2>3. t \in Seq(1..MaxEvents) /\ Len(t) = N
    BY <2>2, <1>1, FromFunction
  <2>4. \A m \in 1..N : lines[m].index = m - 1 /\ lines[m].root = SubSeq(t, 1, m)
    <3> SUFFICES ASSUME NEW m \in 1..N PROVE lines[m].index = m - 1 /\ lines[m].root = SubSeq(t, 1, m)
      OBVIOUS
    <3>1. lines[m].index = m - 1 /\ lines[m].root = [j \in 1..m |-> lines[j].leaf]
      BY <1>8 DEF Replays
    <3>2. m \in 0..Len(t) /\ \A j \in 1..m : t[j] = lines[j].leaf
      BY <2>2, <2>3, <1>1
    <3>3. SubSeq(t, 1, m) = [j \in 1..m |-> t[j]]
      BY <2>3, <3>2, Prefix
    <3> QED
      BY <3>1, <3>2, <3>3
  <2> QED
    BY <2>3, <2>4, <1>6
<1> QED
  BY <1>7, <1>8 DEF lines

LEMMA RestartRootInv ==
    ASSUME TypeInv, AckInv, RootInv, Restart
    PROVE  RootInv'
<1> SUFFICES ASSUME clears = 0, intact PROVE RootInv'
  BY DEF Restart, bounds, history, RootInv
<1> DEFINE f == Repaired(jsonl)
           lines == EventLines(f)
           accepted == IF SledLoads THEN VerifiesAgainstSled(lines) ELSE Replays(lines)
           t == [i \in 1..Len(lines) |-> lines[i].leaf]
<1>1. /\ jsonl' = f /\ UNCHANGED <<rec, sled, clears, intact>> /\ mode = "down"
      /\ accepted => /\ mode' = "up" /\ tree' = (IF SledLoads THEN SledTree ELSE t)
                     /\ rootAfter' = RootsIn(lines)
      /\ ~accepted => mode' = "refused"
  BY DEF Restart, bounds, history
<1>2. f \in Files /\ Same(jsonl, f)
  BY RestartSame
<1>3. FileGood(f, nextLeaf)
  <2>1. jsonl' = f /\ nextLeaf' = nextLeaf
    BY <1>1 DEF Restart, bounds
  <2> HIDE DEF f
  <2> QED
    BY <2>1, RestartTypeInv DEF TypeInv, Leaves
<1> HIDE DEF f
<1>4. /\ LinesAt(f, "event") = LinesAt(jsonl, "event")
      /\ \A j \in LinesAt(jsonl, "event") : f.lines[j] = jsonl.lines[j]
  BY <1>2 DEF Same, Kinds
<1>5. Ordered(f) /\ Stored(f, sled)
  <2>1. Ordered(jsonl) /\ Stored(jsonl, sled)
    BY DEF RootInv
  <2> QED
    BY <2>1, <1>4 DEF Ordered, Stored
<1>6. /\ SledLoads /\ VerifiesAgainstSled(lines)
           => RootsIn(lines) = RootHistory(SledTree) /\ Under(f, SledTree)
      /\ Replays(lines) => RootsIn(lines) = RootHistory(t) /\ Under(f, t)
  BY <1>2, <1>3, <1>5, RootsLoad
<1> HIDE DEF lines, t
<1>7. ASSUME mode' = "up" PROVE rootAfter' = RootHistory(tree') /\ Under(f, tree')
  <2>1. accepted
    BY <1>1, <1>7
  <2>2. CASE SledLoads
    BY <2>1, <2>2, <1>1, <1>6
  <2>3. CASE ~SledLoads
    BY <2>1, <2>3, <1>1, <1>6
  <2> QED
    BY <2>2, <2>3
<1>8. \A r \in Recorder : rec'[r].pc # "inserted"
  BY <1>1 DEF TypeInv, Recorders, Recording
<1> QED
  BY <1>1, <1>5, <1>7, <1>8 DEF RootInv

LEMMA NextRootInv ==
    ASSUME TypeInv, AckInv, RootInv, [Next]_vars
    PROVE  RootInv'
<1>0. Types
  BY DEF TypeInv
<1>1. CASE UNCHANGED vars
  BY <1>1, RootUnchanged DEF vars, memory, disk, bounds, history
<1>2. ASSUME NEW r \in Recorder, NEW d \in Domain, BeginRecord(r, d) PROVE RootInv'
  <2>1. \A q \in Recorder : rec'[q].pc = "inserted" => rec'[q] = rec[q]
    BY <1>0, <1>2 DEF BeginRecord, Types
  <2> QED
    BY <2>1, <1>2, RootUnchanged DEF BeginRecord, disk, history
<1>3. ASSUME NEW d \in Domain, NEW on \in BOOLEAN, SetLegalHold(d, on) PROVE RootInv'
  <2>1. FileStep(HoldLine(d, on)) /\ HoldLine(d, on).kind = "hold"
    BY <1>0, <1>3, HoldWrites, HoldWritten
  <2> QED
    BY <2>1, <1>3, MetaRootInv DEF SetLegalHold
<1>4. ASSUME NEW d \in Domain, PruneCheck(d) PROVE RootInv'
  BY <1>4, RootUnchanged DEF PruneCheck, memory, disk, history
<1>5. CASE PruneApply
  <2>1. PICK line : FileStep(line) /\ line.kind \in {"none", "pruned"}
    BY <1>0, <1>5, PruneWrites
  <2> QED
    BY <2>1, <1>5, MetaRootInv DEF PruneApply, bounds
<1>6. CASE ClearTree \/ ClearMemory \/ ClearSled \/ ClearFile
  <2>1. clears' # 0
    BY <1>0, <1>6 DEF ClearTree, ClearMemory, ClearSled, ClearFile, Types, bounds
  <2> QED
    BY <2>1 DEF RootInv
<1> QED
  BY <1>1, <1>2, <1>3, <1>4, <1>5, <1>6, InsertRootInv, AppendRootInv, SaveRootInv,
     CrashRootInv, RestartRootInv DEF Next

LEMMA InitRootInv == Init => RootInv
<1> SUFFICES ASSUME Init PROVE RootInv
  OBVIOUS
<1>1. /\ tree = <<>> /\ rootAfter = <<>> /\ jsonl = EmptyFile /\ DOMAIN sled.leaves = {}
      /\ rec = [r \in Recorder |-> Idle]
  BY DEF Init
<1>2. LinesAt(jsonl, "event") = {}
  BY <1>1 DEF LinesAt, EmptyFile
<1>3. RootHistory(<<>>) = <<>>
  BY DEF RootHistory
<1> QED
  BY <1>1, <1>2, <1>3 DEF RootInv, Under, Ordered, Stored, Idle

-----------------------------------------------------------------------------
(* Holds and retention *)

(* g is f with one more line. *)
Adds(f, g, line) ==
    /\ Len(f.lines) \in Nat
    /\ \A kind \in Kinds \cup {"torn"} : \A k \in LinesAt(f, kind) :
         k \in LinesAt(g, kind) /\ g.lines[k] = f.lines[k] /\ k \in 1..Len(f.lines)
    /\ \A kind \in Kinds \cup {"torn"} : \A k \in LinesAt(g, kind) :
         \/ k \in LinesAt(f, kind) /\ g.lines[k] = f.lines[k]
         \/ k = Len(f.lines) + 1 /\ g.lines[k] = line /\ line.kind = kind
    /\ Len(f.lines) + 1 \in LinesAt(g, line.kind) /\ g.lines[Len(f.lines) + 1] = line

LEMMA AppendAdds ==
    ASSUME NEW f \in Files, NEW line \in Lines,
           NEW g, g = [lines |-> Append(f.lines, line), eol |-> TRUE]
    PROVE  Adds(f, g, line)
<1>1. PICK s \in Seq(Lines) : s = f.lines /\ Len(s) \in Nat
  BY DEF Files
<1>2. /\ g.lines = Append(s, line) /\ Len(g.lines) = Len(s) + 1
      /\ g.lines[Len(s) + 1] = line /\ \A k \in 1..Len(s) : g.lines[k] = s[k]
  BY <1>1
<1>3. \A k \in 1..(Len(s) + 1) : k \in 1..Len(s) \/ k = Len(s) + 1
  BY <1>1
<1>4. \A k \in 1..Len(s) : k \in 1..(Len(s) + 1)
  BY <1>1
<1>5. Len(s) + 1 \in 1..(Len(s) + 1)
  BY <1>1
<1>6. ASSUME NEW kind, NEW k \in LinesAt(f, kind)
      PROVE  k \in LinesAt(g, kind) /\ g.lines[k] = f.lines[k] /\ k \in 1..Len(f.lines)
  BY <1>1, <1>2, <1>4 DEF LinesAt
<1>7. ASSUME NEW kind, NEW k \in LinesAt(g, kind)
      PROVE  \/ k \in LinesAt(f, kind) /\ g.lines[k] = f.lines[k]
             \/ k = Len(f.lines) + 1 /\ g.lines[k] = line /\ line.kind = kind
  BY <1>1, <1>2, <1>3 DEF LinesAt
<1>8. Len(f.lines) + 1 \in LinesAt(g, line.kind) /\ g.lines[Len(f.lines) + 1] = line
  BY <1>1, <1>2, <1>5 DEF LinesAt
<1> QED
  BY <1>1, <1>6, <1>7, <1>8 DEF Adds

(* What metadata a longer file holds. *)
LEMMA HoldsAdded ==
    ASSUME NEW f, NEW g, NEW line, Adds(f, g, line)
    PROVE  /\ line.kind # "hold" => HoldsIn(g) = HoldsIn(f)
           /\ line.kind = "hold" =>
                HoldsIn(g) \ {line.dom} = HoldsIn(f) \ {line.dom}
                /\ (line.dom \in Domain => (line.dom \in HoldsIn(g) <=> line.on))
<1> DEFINE n == Len(f.lines)
           F == LinesAt(f, "hold")
           G == LinesAt(g, "hold")
<1>1. /\ n \in Nat /\ \A k \in F : k \in G /\ g.lines[k] = f.lines[k] /\ k \in 1..n
      /\ \A k \in G : \/ k \in F /\ g.lines[k] = f.lines[k]
                      \/ k = n + 1 /\ g.lines[k] = line /\ line.kind = "hold"
      /\ line.kind = "hold" => n + 1 \in G /\ g.lines[n + 1] = line
  BY DEF Adds, Kinds
<1>2. /\ HoldsIn(f) = {d \in Domain : \E i \in F : /\ f.lines[i].dom = d /\ f.lines[i].on
                                                   /\ \A j \in F : j > i => f.lines[j].dom # d}
      /\ HoldsIn(g) = {d \in Domain : \E i \in G : /\ g.lines[i].dom = d /\ g.lines[i].on
                                                   /\ \A j \in G : j > i => g.lines[j].dom # d}
  BY DEF HoldsIn
<1> HIDE DEF n, F, G
<1>3. \A i \in G : i \in F => ~(i > n)
  BY <1>1
<1>4. ASSUME NEW d \in Domain, line.kind = "hold" => line.dom # d
      PROVE  d \in HoldsIn(f) <=> d \in HoldsIn(g)
  <2>1. ASSUME NEW i \in F, f.lines[i].dom = d, f.lines[i].on,
               \A j \in F : j > i => f.lines[j].dom # d
        PROVE  d \in HoldsIn(g)
    <3>1. i \in G /\ g.lines[i] = f.lines[i]
      BY <1>1
    <3>2. \A j \in G : j > i => g.lines[j].dom # d
      BY <1>1, <1>4, <2>1
    <3> QED
      BY <1>2, <2>1, <3>1, <3>2
  <2>2. ASSUME NEW i \in G, g.lines[i].dom = d, g.lines[i].on,
               \A j \in G : j > i => g.lines[j].dom # d
        PROVE  d \in HoldsIn(f)
    <3>1. i \in F /\ g.lines[i] = f.lines[i]
      BY <1>1, <1>4, <2>2
    <3>2. \A j \in F : j > i => f.lines[j].dom # d
      BY <1>1, <2>2
    <3> QED
      BY <1>2, <2>2, <3>1, <3>2
  <2> QED
    BY <1>2, <2>1, <2>2
<1>5. ASSUME line.kind # "hold" PROVE HoldsIn(g) = HoldsIn(f)
  BY <1>4, <1>5 DEF HoldsIn
<1>6. ASSUME line.kind = "hold" PROVE HoldsIn(g) \ {line.dom} = HoldsIn(f) \ {line.dom}
  BY <1>4, <1>6 DEF HoldsIn
<1>7. ASSUME line.kind = "hold", line.dom \in Domain
      PROVE  line.dom \in HoldsIn(g) <=> line.on
  <2>1. n + 1 \in G /\ g.lines[n + 1] = line
    BY <1>1, <1>7
  <2>2. \A j \in G : ~(j > n + 1)
    BY <1>1
  <2>3. line.on => line.dom \in HoldsIn(g)
    BY <1>2, <1>7, <2>1, <2>2
  <2>4. ASSUME line.dom \in HoldsIn(g) PROVE line.on
    <3>1. PICK i \in G : /\ g.lines[i].dom = line.dom /\ g.lines[i].on
                         /\ \A j \in G : j > i => g.lines[j].dom # line.dom
      BY <1>2, <2>4
    <3>2. ~(n + 1 > i)
      BY <2>1, <3>1
    <3>3. i = n + 1
      BY <1>1, <3>2
    <3> QED
      BY <2>1, <3>1, <3>3
  <2> QED
    BY <2>3, <2>4
<1> QED
  BY <1>5, <1>6, <1>7

LEMMA RetainedAdded ==
    ASSUME NEW f, NEW g, NEW line, Adds(f, g, line)
    PROVE  /\ line.kind # "pruned" => RetainedIn(g) = RetainedIn(f)
           /\ line.kind = "pruned" =>
                RetainedIn(g) = [RetainedIn(f) EXCEPT ![line.dom] = @ \cup {line.max}]
<1> DEFINE n == Len(f.lines)
           F == LinesAt(f, "pruned")
           G == LinesAt(g, "pruned")
           A(d) == {f.lines[i].max : i \in {j \in F : f.lines[j].dom = d}}
           B(d) == {g.lines[i].max : i \in {j \in G : g.lines[j].dom = d}}
<1>1. /\ \A k \in F : k \in G /\ g.lines[k] = f.lines[k]
      /\ \A k \in G : \/ k \in F /\ g.lines[k] = f.lines[k]
                      \/ k = n + 1 /\ g.lines[k] = line /\ line.kind = "pruned"
      /\ line.kind = "pruned" => n + 1 \in G /\ g.lines[n + 1] = line
  BY DEF Adds, Kinds
<1>2. RetainedIn(f) = [d \in Domain |-> A(d)] /\ RetainedIn(g) = [d \in Domain |-> B(d)]
  BY DEF RetainedIn
<1> HIDE DEF F, G, n
<1>3. \A d \in Domain : line.kind # "pruned" \/ line.dom # d => B(d) = A(d)
  BY <1>1
<1>4. line.kind = "pruned" => B(line.dom) = A(line.dom) \cup {line.max}
  BY <1>1
<1> HIDE DEF A, B
<1> QED
  BY <1>2, <1>3, <1>4

(* Files with the same lines hold the same metadata. *)
LEMMA SameReads ==
    ASSUME NEW f, NEW g, Same(f, g)
    PROVE  /\ Anchored(f) => Anchored(g)
           /\ Ordered(f) => Ordered(g)
BY DEF Same, Kinds, Anchored, Ordered

LEMMA RetUnchanged ==
    ASSUME RetInv, (clears' = 0 => clears = 0), UNCHANGED <<intact, errors>>,
           clears' = 0 => UNCHANGED <<mode, events, holds, retained, jsonl>>
    PROVE  RetInv'
BY DEF RetInv

(* Without an error the append wrote its line, and began on a new one. *)
LEMMA CleanWrite ==
    ASSUME Types, NEW line \in Lines, line.kind # "torn",
           WriteLine(line) \/ FailedWrite(line), intact', errors' = 0
    PROVE  WriteLine(line) /\ intact /\ errors = 0 /\ jsonl \in Files /\ Adds(jsonl, jsonl', line)
<1>1. jsonl \in Files /\ intact \in BOOLEAN /\ errors \in Nat
  BY DEF Types
<1>2. ~FailedWrite(line)
  BY <1>1, FailedWriteSteps
<1>3. WriteLine(line)
  BY <1>2
<1>4. jsonl' = [lines |-> Append(jsonl.lines, line), eol |-> TRUE]
  BY <1>1, <1>3, WriteLineSteps
<1>5. errors = 0 /\ intact
  BY <1>3 DEF WriteLine
<1> QED
  BY <1>1, <1>3, <1>4, <1>5, AppendAdds

LEMMA AddedKeeps ==
    ASSUME NEW f, NEW g, NEW line, Adds(f, g, line), line.kind \in Kinds,
           LinesAt(f, "torn") = {}, Anchored(f)
    PROVE  /\ LinesAt(g, "torn") = {}
           /\ (line.kind = "pruned" =>
                 \E k \in LinesAt(f, "event") : f.lines[k].index = line.max) => Anchored(g)
           /\ \A es : Listed(f, es) => Listed(g, es)
           /\ line.kind # "event" =>
                /\ \A es, rs : Displayed(f, es, rs) => Displayed(g, es, rs)
                /\ LinesAt(g, "event") = LinesAt(f, "event")
                /\ \A k \in LinesAt(f, "event") : g.lines[k] = f.lines[k]
<1>1. LinesAt(g, "torn") = {}
  BY DEF Adds, Kinds
<1>2. /\ \A k \in LinesAt(f, "event") : k \in LinesAt(g, "event") /\ g.lines[k] = f.lines[k]
      /\ \A k \in LinesAt(g, "pruned") :
           \/ k \in LinesAt(f, "pruned") /\ g.lines[k] = f.lines[k]
           \/ g.lines[k] = line /\ line.kind = "pruned"
      /\ line.kind # "event" => \A k \in LinesAt(g, "event") : k \in LinesAt(f, "event")
  BY DEF Adds, Kinds
<1>3. (line.kind = "pruned" =>
         \E k \in LinesAt(f, "event") : f.lines[k].index = line.max) => Anchored(g)
  BY <1>2 DEF Anchored
<1>4. \A es : Listed(f, es) => Listed(g, es)
  BY <1>2 DEF Listed
<1>5. ASSUME line.kind # "event"
      PROVE  /\ \A es, rs : Displayed(f, es, rs) => Displayed(g, es, rs)
             /\ LinesAt(g, "event") = LinesAt(f, "event")
             /\ \A k \in LinesAt(f, "event") : g.lines[k] = f.lines[k]
  BY <1>2, <1>5 DEF Displayed
<1> QED
  BY <1>1, <1>3, <1>4, <1>5

(* No retained root covers what comes after every event of the file. *)
LEMMA LaterUncovered ==
    ASSUME NEW f \in Files, Anchored(f), NEW x \in Nat,
           \A k \in LinesAt(f, "event") : f.lines[k].index < x,
           NEW d \in Domain, NEW m \in RetainedIn(f)[d]
    PROVE  m < x
<1>1. PICK j \in LinesAt(f, "pruned") : m = f.lines[j].max
  BY DEF RetainedIn
<1> QED
  BY <1>1 DEF Anchored

LEMMA AppendRetInv ==
    ASSUME TypeInv, RootInv, RetInv, NEW r \in Recorder, AppendLine(r) \/ AppendFails(r)
    PROVE  RetInv'
<1> SUFFICES ASSUME clears = 0, intact', errors' = 0 PROVE RetInv'
  BY DEF AppendLine, AppendFails, bounds, RetInv
<1> DEFINE line == LineOf(r)
           n == Len(jsonl.lines)
<1>1. /\ UNCHANGED <<mode, holds, retained, clears>> /\ rec[r].pc = "inserted" /\ PushEvent(r)
      /\ WriteLine(line) \/ FailedWrite(line)
  BY DEF AppendLine, AppendFails, bounds
<1>2. Types /\ mode = "up" /\ events \in Seq(EventInfo)
  BY <1>1 DEF TypeInv, Types, Recorders, Recording
<1>3. /\ line \in Lines /\ line.kind = "event" /\ line.dom = rec[r].dom
      /\ line.index = rec[r].index /\ rec[r].index \in 0..(MaxEvents - 1)
  BY <1>1, <1>2, EventWritten
<1>4. line.dom \in Domain /\ line.index \in Nat
  BY <1>1, <1>2, <1>3, RecKinds
<1> HIDE DEF line
<1>5. intact /\ errors = 0 /\ jsonl \in Files /\ Adds(jsonl, jsonl', line)
  BY <1>1, <1>2, <1>3, CleanWrite
<1>6. PICK e \in EventInfo : e.dom = line.dom /\ e.index = line.index /\ events' = Append(events, e)
  <2> DEFINE z == [index |-> rec[r].index, dom |-> rec[r].dom, sequence |-> rec[r].sequence]
  <2>1. rec[r] \in Inserted
    BY <1>1, <1>2, RecKinds
  <2>2. z \in EventInfo /\ z.dom = line.dom /\ z.index = line.index
    BY <2>1, <1>3 DEF EventInfo, Inserted
  <2>3. events' = Append(events, z)
    BY <1>1 DEF PushEvent
  <2> HIDE DEF z
  <2> QED
    BY <2>2, <2>3
<1>7. /\ Len(events') = Len(events) + 1 /\ Len(events) \in Nat /\ events'[Len(events) + 1] = e
      /\ \A i \in 1..Len(events) : events'[i] = events[i] /\ i \in 1..Len(events')
      /\ \A i \in 1..Len(events') : i \in 1..Len(events) \/ i = Len(events) + 1
      /\ Len(events) + 1 \in 1..Len(events')
  BY <1>2, <1>6
<1>8. /\ Anchored(jsonl) /\ LinesAt(jsonl, "torn") = {}
      /\ holds = HoldsIn(jsonl) /\ retained = RetainedIn(jsonl)
      /\ Listed(jsonl, events) /\ Displayed(jsonl, events, retained)
  BY <1>2, <1>5 DEF RetInv
<1>9. /\ LinesAt(jsonl', "torn") = {} /\ Anchored(jsonl') /\ Listed(jsonl', events)
  BY <1>3, <1>5, <1>8, AddedKeeps DEF Kinds
<1>10. holds' = HoldsIn(jsonl') /\ retained' = RetainedIn(jsonl')
  BY <1>1, <1>3, <1>5, <1>8, HoldsAdded, RetainedAdded
<1>11. /\ \A k \in LinesAt(jsonl', "event") :
            \/ k \in LinesAt(jsonl, "event") /\ jsonl'.lines[k] = jsonl.lines[k]
            \/ jsonl'.lines[k] = line
       /\ n + 1 \in LinesAt(jsonl', "event") /\ jsonl'.lines[n + 1] = line
  BY <1>3, <1>5 DEF Adds, Kinds
<1>12. Listed(jsonl', events')
  <2> SUFFICES ASSUME NEW i \in 1..Len(events')
               PROVE  \E k \in LinesAt(jsonl', "event") :
                        /\ jsonl'.lines[k].index = events'[i].index
                        /\ jsonl'.lines[k].dom = events'[i].dom
    BY DEF Listed
  <2>1. CASE i \in 1..Len(events)
    BY <2>1, <1>7, <1>9 DEF Listed
  <2>2. CASE i = Len(events) + 1
    BY <2>2, <1>6, <1>7, <1>11
  <2> QED
    BY <2>1, <2>2, <1>7
<1>13. \A k \in LinesAt(jsonl, "event") : jsonl.lines[k].index < line.index
  BY <1>1, <1>3, <1>5 DEF RootInv, Ev
<1>14. Displayed(jsonl', events', retained)
  <2> SUFFICES ASSUME NEW k \in LinesAt(jsonl', "event")
               PROVE  Shown(jsonl'.lines[k].index, events') <=> ~Covered(jsonl'.lines[k], retained)
    BY DEF Displayed
  <2>1. CASE k \in LinesAt(jsonl, "event") /\ jsonl'.lines[k] = jsonl.lines[k]
    <3>1. jsonl.lines[k].index # line.index
      <4>1. jsonl.lines[k].index < line.index /\ jsonl.lines[k] \in EventRecs
        BY <2>1, <1>13, <1>5, EventLinesShape
      <4> QED
        BY <4>1, <1>4 DEF EventRecs
    <3>2. Shown(jsonl.lines[k].index, events') <=> Shown(jsonl.lines[k].index, events)
      BY <3>1, <1>6, <1>7 DEF Shown
    <3> QED
      BY <2>1, <3>2, <1>8 DEF Displayed
  <2>2. CASE jsonl'.lines[k] = line
    <3>1. Shown(line.index, events')
      BY <1>6, <1>7 DEF Shown
    <3>2. \A m \in retained[line.dom] : m < line.index
      BY <1>4, <1>5, <1>8, <1>13, LaterUncovered
    <3>3. \A m \in retained[line.dom] : m \in Nat
      BY <1>2, <1>4 DEF Types
    <3>4. ~Covered(line, retained)
      BY <3>2, <3>3, <1>4 DEF Covered
    <3> QED
      BY <2>2, <3>1, <3>4
  <2> QED
    BY <2>1, <2>2, <1>11
<1> QED
  BY <1>1, <1>9, <1>10, <1>12, <1>14 DEF RetInv

LEMMA HoldRetInv ==
    ASSUME TypeInv, RetInv, NEW d \in Domain, NEW on \in BOOLEAN, SetLegalHold(d, on)
    PROVE  RetInv'
<1> SUFFICES ASSUME clears = 0, intact', errors' = 0, mode = "up" PROVE RetInv'
  BY DEF SetLegalHold, RetInv
<1> DEFINE line == HoldLine(d, on)
<1>1. /\ UNCHANGED <<mode, events, retained, clears>> /\ (WriteLine(line) \/ FailedWrite(line))
      /\ holds' = IF on THEN holds \cup {d} ELSE holds \ {d}
  BY DEF SetLegalHold
<1>2. line \in Lines /\ line.kind = "hold" /\ line.dom = d /\ line.on = on
  BY HoldWritten DEF HoldLine
<1> HIDE DEF line
<1>3. intact /\ errors = 0 /\ jsonl \in Files /\ Adds(jsonl, jsonl', line)
  BY <1>1, <1>2, CleanWrite DEF TypeInv
<1>4. /\ Anchored(jsonl) /\ LinesAt(jsonl, "torn") = {}
      /\ holds = HoldsIn(jsonl) /\ retained = RetainedIn(jsonl)
      /\ Listed(jsonl, events) /\ Displayed(jsonl, events, retained)
  BY <1>3 DEF RetInv
<1>5. /\ LinesAt(jsonl', "torn") = {} /\ Anchored(jsonl') /\ Listed(jsonl', events)
      /\ Displayed(jsonl', events, retained)
  BY <1>2, <1>3, <1>4, AddedKeeps DEF Kinds
<1>6. retained' = RetainedIn(jsonl')
  BY <1>1, <1>2, <1>3, <1>4, RetainedAdded
<1>7. holds' = HoldsIn(jsonl')
  <2>1. HoldsIn(jsonl') \ {d} = holds \ {d} /\ (d \in HoldsIn(jsonl') <=> on)
    BY <1>2, <1>3, <1>4, HoldsAdded
  <2>2. CASE on = TRUE
    BY <2>1, <2>2, <1>1
  <2>3. CASE on = FALSE
    BY <2>1, <2>3, <1>1
  <2> QED
    BY <2>2, <2>3
<1> QED
  BY <1>1, <1>5, <1>6, <1>7 DEF RetInv

(* An index names one event line. *)
LEMMA IndexUnique ==
    ASSUME NEW f \in Files, Ordered(f), NEW j \in LinesAt(f, "event"), NEW k \in LinesAt(f, "event"),
           f.lines[j].index = f.lines[k].index
    PROVE  j = k
<1>1. j \in Nat /\ k \in Nat
  BY DEF LinesAt, Files
<1>2. f.lines[j].index \in Nat
  <2>1. f.lines[j] \in EventRecs
    BY EventLinesShape
  <2> QED
    BY <2>1 DEF EventRecs
<1>3. ~(j < k) /\ ~(k < j)
  BY <1>2 DEF Ordered
<1> QED
  BY <1>1, <1>3

(* The last index of a domain that has events is that of an event line. *)
LEMMA LastIsAnchored ==
    ASSUME Types, NEW d \in Domain, IndicesOf(d) # {}, Listed(jsonl, events)
    PROVE  \E k \in LinesAt(jsonl, "event") : jsonl.lines[k].index = MaxOf(IndicesOf(d))
<1>1. MaxOf(IndicesOf(d)) \in IndicesOf(d)
  BY PruneWritten
<1>2. PICK i \in 1..Len(events) : events[i].index = MaxOf(IndicesOf(d))
  BY <1>1 DEF IndicesOf
<1> QED
  BY <1>2 DEF Listed

LEMMA PruneRetInv ==
    ASSUME TypeInv, RootInv, RetInv, PruneApply
    PROVE  RetInv'
<1>0. UNCHANGED <<mode, holds, clears>> /\ pruning \in Domain /\ mode = "up" /\ Types
  BY DEF PruneApply, bounds, TypeInv, Types
<1>1. CASE IndicesOf(pruning) = {}
  <2>1. UNCHANGED <<events, retained, jsonl, errors, intact>>
    BY <1>1 DEF PruneApply
  <2> QED
    BY <2>1, <1>0, RetUnchanged
<1>2. CASE IndicesOf(pruning) # {}
  <2> SUFFICES ASSUME clears = 0, intact', errors' = 0 PROVE RetInv'
    BY <1>0 DEF RetInv
  <2> DEFINE d == pruning
             top == MaxOf(IndicesOf(d))
             line == PruneLine(d, top)
             I == {i \in 1..Len(events) : events[i].dom # d}
  <2>1. /\ line \in Lines /\ line.kind = "pruned" /\ line.dom = d /\ line.max = top
        /\ top \in IndicesOf(d) /\ top \in Nat /\ \A x \in IndicesOf(d) : x <= top
    BY <1>0, <1>2, PruneWritten DEF PruneLine
  <2>2. /\ WriteLine(line) \/ FailedWrite(line)
        /\ FailedWrite(line) \/ (/\ retained' = [retained EXCEPT ![d] = @ \cup {top}]
                                 /\ events' = Kept(events, I))
    BY <1>2 DEF PruneApply, EventsOutside
  <2> HIDE DEF line, top
  <2>3. WriteLine(line) /\ intact /\ errors = 0 /\ jsonl \in Files /\ Adds(jsonl, jsonl', line)
    BY <1>0, <2>1, <2>2, CleanWrite
  <2>4. retained' = [retained EXCEPT ![d] = @ \cup {top}] /\ events' = Kept(events, I)
    <3>1. ~FailedWrite(line)
      BY <2>1, <1>0, FailedWriteSteps DEF Types
    <3> QED
      BY <3>1, <2>2
  <2>5. /\ Anchored(jsonl) /\ LinesAt(jsonl, "torn") = {}
        /\ holds = HoldsIn(jsonl) /\ retained = RetainedIn(jsonl)
        /\ Listed(jsonl, events) /\ Displayed(jsonl, events, retained) /\ Ordered(jsonl)
    BY <1>0, <2>3 DEF RetInv, RootInv
  <2>6. \E k \in LinesAt(jsonl, "event") : jsonl.lines[k].index = top
    BY <1>0, <1>2, <2>5, LastIsAnchored DEF top
  <2>7. /\ LinesAt(jsonl', "torn") = {} /\ Anchored(jsonl')
        /\ LinesAt(jsonl', "event") = LinesAt(jsonl, "event")
        /\ \A k \in LinesAt(jsonl, "event") : jsonl'.lines[k] = jsonl.lines[k]
    BY <2>1, <2>3, <2>5, <2>6, AddedKeeps DEF Kinds
  <2>8. holds' = HoldsIn(jsonl')
    BY <1>0, <2>1, <2>3, <2>5, HoldsAdded
  <2>9. retained' = RetainedIn(jsonl')
    BY <2>1, <2>3, <2>4, <2>5, RetainedAdded
  (* The events that stay, and the domain each event line has. *)
  <2>10. /\ \A x \in 1..Len(events') : \E i \in 1..Len(events) :
                events'[x] = events[i] /\ events[i].dom # d
         /\ \A i \in 1..Len(events) : events[i].dom # d =>
                \E x \in 1..Len(events') : events'[x] = events[i]
    <3>1. I \in SUBSET (1..Len(events)) /\ Len(events) \in Nat
      BY <1>0 DEF Types
    <3>2. \A i \in I : i \in 1..Len(events) /\ events[i].dom # d
      OBVIOUS
    <3>3. \A i \in 1..Len(events) : events[i].dom # d => i \in I
      OBVIOUS
    <3> HIDE DEF I
    <3>4. /\ Cardinality(I) \in 0..Len(events)
          /\ \A i \in I : \E x \in 1..Cardinality(I) : Nth(I, x) = i
      BY <3>1, NthInOrder
    <3>5. /\ Len(Kept(events, I)) = Cardinality(I)
          /\ \A x \in 1..Cardinality(I) : Kept(events, I)[x] = events[Nth(I, x)] /\ Nth(I, x) \in I
      BY <3>1, KeptInOrder
    <3> QED
      BY <2>4, <3>2, <3>3, <3>4, <3>5
  <2>11. ASSUME NEW k \in LinesAt(jsonl, "event"), NEW i \in 1..Len(events),
                events[i].index = jsonl.lines[k].index
         PROVE  events[i].dom = jsonl.lines[k].dom
    <3>1. PICK j \in LinesAt(jsonl, "event") :
            jsonl.lines[j].index = events[i].index /\ jsonl.lines[j].dom = events[i].dom
      BY <2>5 DEF Listed
    <3>2. j = k
      BY <3>1, <2>11, <2>3, <2>5, IndexUnique
    <3> QED
      BY <3>1, <3>2
  <2>12. Listed(jsonl', events')
    <3> SUFFICES ASSUME NEW x \in 1..Len(events')
                 PROVE  \E k \in LinesAt(jsonl', "event") :
                          /\ jsonl'.lines[k].index = events'[x].index
                          /\ jsonl'.lines[k].dom = events'[x].dom
      BY DEF Listed
    <3>1. PICK i \in 1..Len(events) : events'[x] = events[i]
      BY <2>10
    <3> QED
      BY <3>1, <2>5, <2>7 DEF Listed
  <2>13. ASSUME NEW k \in LinesAt(jsonl, "event")
         PROVE  Shown(jsonl.lines[k].index, events') <=> ~Covered(jsonl.lines[k], retained')
    <3> DEFINE l == jsonl.lines[k]
    <3>1. l.dom \in Domain /\ l.index \in Nat
      BY <2>3, EventLinesShape DEF EventRecs
    <3>2. Shown(l.index, events) <=> ~Covered(l, retained)
      BY <2>5 DEF Displayed
    <3>3. retained \in [Domain -> SUBSET (0..(MaxEvents - 1))]
      BY <1>0 DEF Types
    <3>4. Shown(l.index, events') <=> l.dom # d /\ Shown(l.index, events)
      <4>1. ASSUME Shown(l.index, events') PROVE l.dom # d /\ Shown(l.index, events)
        <5>1. PICK x \in 1..Len(events') : events'[x].index = l.index
          BY <4>1 DEF Shown
        <5>2. PICK i \in 1..Len(events) : events'[x] = events[i] /\ events[i].dom # d
          BY <2>10
        <5> QED
          BY <5>1, <5>2, <2>11 DEF Shown
      <4>2. ASSUME l.dom # d, Shown(l.index, events) PROVE Shown(l.index, events')
        <5>1. PICK i \in 1..Len(events) : events[i].index = l.index
          BY <4>2 DEF Shown
        <5>2. events[i].dom # d
          BY <5>1, <4>2, <2>11
        <5>3. PICK x \in 1..Len(events') : events'[x] = events[i]
          BY <5>2, <2>10
        <5> QED
          BY <5>1, <5>3 DEF Shown
      <4> QED
        BY <4>1, <4>2
    <3>5. CASE l.dom # d
      <4>1. retained'[l.dom] = retained[l.dom]
        BY <3>1, <3>3, <3>5, <2>4
      <4> QED
        BY <4>1, <3>2, <3>4, <3>5 DEF Covered
    <3>6. CASE l.dom = d
      <4>1. retained'[l.dom] = retained[l.dom] \cup {top}
        BY <3>1, <3>3, <3>6, <2>4
      <4>2. ASSUME Shown(l.index, events) PROVE l.index <= top
        <5>1. PICK i \in 1..Len(events) : events[i].index = l.index
          BY <4>2 DEF Shown
        <5>2. events[i].dom = d
          BY <5>1, <3>6, <2>11
        <5>3. l.index \in IndicesOf(d)
          BY <5>1, <5>2 DEF IndicesOf
        <5> QED
          BY <5>3, <2>1
      <4>3. Covered(l, retained')
        BY <4>1, <4>2, <3>2 DEF Covered
      <4> QED
        BY <4>3, <3>4, <3>6
    <3> QED
      BY <3>5, <3>6
  <2>14. Displayed(jsonl', events', retained')
    BY <2>7, <2>13 DEF Displayed
  <2> QED
    BY <1>0, <2>7, <2>8, <2>9, <2>12, <2>14 DEF RetInv
<1> QED
  BY <1>1, <1>2

LEMMA CrashRetInv ==
    ASSUME TypeInv, RetInv, Crash
    PROVE  RetInv'
<1> SUFFICES ASSUME clears = 0, intact', errors = 0 PROVE Anchored(jsonl')
  BY DEF Crash, RetInv
<1>1. Types /\ jsonl \in Files /\ intact \in BOOLEAN /\ mode = "up"
  BY DEF Crash, TypeInv, Types
<1>2. PICK line : /\ FileStep(line)
                  /\ line.kind = "pruned" =>
                       \E d \in Domain : IndicesOf(d) # {} /\ line = PruneLine(d, MaxOf(IndicesOf(d)))
  BY <1>1, CrashWrites
<1>3. Kin(jsonl, jsonl', line) /\ intact /\ Keeps(jsonl, jsonl') /\ Len(jsonl.lines) \in Nat
  BY <1>1, <1>2, StepShape DEF Files
<1>4. Anchored(jsonl) /\ Listed(jsonl, events)
  BY <1>1, <1>3 DEF RetInv
<1>5. \A k \in LinesAt(jsonl, "event") :
        k \in LinesAt(jsonl', "event") /\ jsonl'.lines[k] = jsonl.lines[k]
  BY <1>3 DEF Keeps, LinesAt
<1>6. ASSUME line.kind = "pruned"
      PROVE  \E k \in LinesAt(jsonl, "event") : jsonl.lines[k].index = line.max
  <2>1. PICK d \in Domain : IndicesOf(d) # {} /\ line = PruneLine(d, MaxOf(IndicesOf(d)))
    BY <1>2, <1>6
  <2>2. line.max = MaxOf(IndicesOf(d))
    BY <2>1 DEF PruneLine
  <2> QED
    BY <2>1, <2>2, <1>1, <1>4, LastIsAnchored
<1>7. \A j \in LinesAt(jsonl', "pruned") :
        \/ j \in LinesAt(jsonl, "pruned") /\ jsonl'.lines[j] = jsonl.lines[j]
        \/ jsonl'.lines[j] = line /\ line.kind = "pruned"
  BY <1>3 DEF Kin
<1> QED
  BY <1>4, <1>5, <1>6, <1>7 DEF Anchored

(* The events a restart reads are those its retained roots do not cover. *)
LEMMA LoadsDisplayed ==
    ASSUME NEW f \in Files, Ordered(f)
    PROVE  Listed(f, EventsIn(f)) /\ Displayed(f, EventsIn(f), RetainedIn(f))
<1> DEFINE E == LinesAt(f, "event")
           lines == EventLines(f)
           P == Uncovered(f)
           N == Cardinality(P)
           es == EventsIn(f)
<1>1. /\ \A n \in 1..Len(lines) : Nth(E, n) \in E /\ lines[n] = f.lines[Nth(E, n)]
      /\ \A k \in E : \E n \in 1..Len(lines) : Nth(E, n) = k
  BY EventLinesShape
<1>2. /\ Len(es) = N
      /\ \A x \in 1..N : Nth(P, x) \in P
                         /\ es[x] = [index |-> lines[Nth(P, x)].index, dom |-> lines[Nth(P, x)].dom,
                                     sequence |-> Cardinality(Before(f, Nth(P, x)))]
      /\ \A i \in P : \E x \in 1..N : Nth(P, x) = i
  BY EventsInShape
<1>3. \A i \in P : i \in 1..Len(lines) /\ ~Covered(lines[i], RetainedIn(f))
  BY DEF Uncovered, Covered
<1>4. \A i \in 1..Len(lines) : ~Covered(lines[i], RetainedIn(f)) => i \in P
  BY DEF Uncovered, Covered
<1> HIDE DEF E, lines, P, N, es
<1>5. \A x \in 1..N : es[x].index = lines[Nth(P, x)].index /\ es[x].dom = lines[Nth(P, x)].dom
  BY <1>2
<1>6. Listed(f, es)
  <2> SUFFICES ASSUME NEW x \in 1..N
               PROVE  \E k \in E : f.lines[k].index = es[x].index /\ f.lines[k].dom = es[x].dom
    BY <1>2 DEF Listed, E
  <2>1. Nth(P, x) \in 1..Len(lines)
    BY <1>2, <1>3
  <2>2. PICK k \in E : lines[Nth(P, x)] = f.lines[k]
    BY <2>1, <1>1
  <2> QED
    BY <2>2, <1>5
<1>7. ASSUME NEW k \in E PROVE Shown(f.lines[k].index, es) <=> ~Covered(f.lines[k], RetainedIn(f))
  <2>1. PICK n \in 1..Len(lines) : Nth(E, n) = k /\ lines[n] = f.lines[k]
    BY <1>1
  <2>2. ASSUME ~Covered(f.lines[k], RetainedIn(f)) PROVE Shown(f.lines[k].index, es)
    <3>1. n \in P
      BY <2>1, <2>2, <1>4
    <3> QED
      BY <3>1, <2>1, <1>2, <1>5 DEF Shown
  <2>3. ASSUME Shown(f.lines[k].index, es) PROVE ~Covered(f.lines[k], RetainedIn(f))
    <3>1. PICK x \in 1..N : es[x].index = f.lines[k].index
      BY <2>3, <1>2 DEF Shown
    <3>2. PICK i \in P : i = Nth(P, x) /\ lines[i].index = f.lines[k].index
      BY <3>1, <1>2, <1>5
    <3>3. PICK j \in E : lines[i] = f.lines[j]
      BY <1>1, <1>3
    <3>4. j = k
      BY <3>2, <3>3, IndexUnique DEF E
    <3> QED
      BY <3>2, <3>3, <3>4, <1>3
  <2> QED
    BY <2>2, <2>3
<1>8. Displayed(f, es, RetainedIn(f))
  BY <1>7 DEF Displayed, E
<1> QED
  BY <1>6, <1>8 DEF es

LEMMA RestartRetInv ==
    ASSUME TypeInv, AckInv, RootInv, RetInv, Restart
    PROVE  RetInv'
<1> SUFFICES ASSUME clears = 0, intact, errors = 0 PROVE RetInv'
  BY DEF Restart, bounds, history, RetInv
<1> DEFINE f == Repaired(jsonl)
<1>1. /\ jsonl' = f
      /\ mode' = "up" => /\ events' = EventsIn(f) /\ holds' = HoldsIn(f)
                         /\ retained' = RetainedIn(f)
  BY DEF Restart
<1>2. f \in Files /\ Same(jsonl, f)
  BY RestartSame
<1>3. LinesAt(f, "torn") = {}
  BY RepairedShape DEF TypeInv, Types
<1> HIDE DEF f
<1>4. Anchored(f) /\ Ordered(f)
  <2>1. Anchored(jsonl) /\ Ordered(jsonl)
    BY DEF RetInv, RootInv
  <2> QED
    BY <2>1, <1>2, SameReads
<1>5. Listed(f, EventsIn(f)) /\ Displayed(f, EventsIn(f), RetainedIn(f))
  BY <1>2, <1>4, LoadsDisplayed
<1> QED
  BY <1>1, <1>3, <1>4, <1>5 DEF RetInv

LEMMA NextRetInv ==
    ASSUME TypeInv, AckInv, RootInv, RetInv, [Next]_vars
    PROVE  RetInv'
<1>0. Types
  BY DEF TypeInv
<1>1. CASE UNCHANGED vars
  BY <1>1, RetUnchanged DEF vars, memory, disk, bounds, history
<1>2. ASSUME NEW r \in Recorder, NEW d \in Domain, BeginRecord(r, d) PROVE RetInv'
  BY <1>2, RetUnchanged DEF BeginRecord, disk, history
<1>3. ASSUME NEW r \in Recorder, InsertLeaf(r) PROVE RetInv'
  BY <1>3, RetUnchanged DEF InsertLeaf, disk, bounds, history
<1>4. ASSUME NEW r \in Recorder, SaveLeaf(r) PROVE RetInv'
  BY <1>4, RetUnchanged DEF SaveLeaf, memory, bounds
<1>5. ASSUME NEW d \in Domain, PruneCheck(d) PROVE RetInv'
  BY <1>5, RetUnchanged DEF PruneCheck, memory, disk, history
<1>6. CASE ClearTree \/ ClearMemory \/ ClearSled \/ ClearFile
  <2>1. clears' # 0
    BY <1>0, <1>6 DEF ClearTree, ClearMemory, ClearSled, ClearFile, Types, bounds
  <2> QED
    BY <2>1 DEF RetInv
<1> QED
  BY <1>1, <1>2, <1>3, <1>4, <1>5, <1>6, AppendRetInv, HoldRetInv, PruneRetInv, CrashRetInv,
     RestartRetInv DEF Next

LEMMA InitRetInv == Init => RetInv
<1> SUFFICES ASSUME Init PROVE RetInv
  OBVIOUS
<1>1. /\ jsonl = EmptyFile /\ events = <<>> /\ holds = {} /\ retained = [d \in Domain |-> {}]
  BY DEF Init
<1>2. \A kind : LinesAt(jsonl, kind) = {}
  BY <1>1 DEF LinesAt, EmptyFile
<1>3. HoldsIn(jsonl) = {} /\ RetainedIn(jsonl) = [d \in Domain |-> {}]
  BY <1>2 DEF HoldsIn, RetainedIn
<1> QED
  BY <1>1, <1>2, <1>3 DEF RetInv, Anchored, Listed, Displayed

LEMMA RetentionTold ==
    ASSUME TypeInv, RetInv
    PROVE  RetentionMatchesFile
<1> SUFFICES ASSUME clears = 0, mode = "up", errors = 0, intact PROVE RetentionMatchesFile
  BY DEF RetentionMatchesFile
<1>1. jsonl \in Files
  BY DEF TypeInv, Types
<1>2. /\ LinesAt(jsonl, "torn") = {} /\ holds = HoldsIn(jsonl) /\ retained = RetainedIn(jsonl)
      /\ Displayed(jsonl, events, retained)
  BY DEF RetInv
<1>3. Repaired(jsonl) = jsonl
  BY <1>1, <1>2, RepairedShape
<1>4. ASSUME NEW n \in 1..Len(EventLines(jsonl))
      PROVE  LET l == EventLines(jsonl)[n] IN
             l.index \in {events[i].index : i \in 1..Len(events)}
               <=> ~ \E m \in retained[l.dom] : l.index <= m
  <2>1. PICK k \in LinesAt(jsonl, "event") : EventLines(jsonl)[n] = jsonl.lines[k]
    BY <1>1, EventLinesShape
  <2> QED
    BY <2>1, <1>2 DEF Displayed, Shown, Covered
<1> QED
  BY <1>2, <1>3, <1>4 DEF RetentionMatchesFile

LEMMA TypesTold ==
    ASSUME TypeInv
    PROVE  TypeOK
<1>1. Types /\ Leaves
  BY DEF TypeInv
<1>2. tree \in Seq(1..MaxEvents)
  BY <1>1 DEF Leaves, Begun
<1>3. \A i \in 1..Len(rootAfter) : rootAfter[i] \in Seq(1..MaxEvents)
  BY <1>1, Elements DEF Types
<1>4. \A i \in 1..Len(events) : events[i] \in EventInfo
  BY <1>1, Elements DEF Types
<1>5. \A i \in 1..Len(jsonl.lines) : jsonl.lines[i].kind \in {"event", "hold", "pruned", "torn"}
  <2> SUFFICES ASSUME NEW i \in 1..Len(jsonl.lines)
               PROVE  jsonl.lines[i].kind \in {"event", "hold", "pruned", "torn"}
    OBVIOUS
  <2>1. jsonl.lines[i] \in Lines
    BY <1>1, Elements DEF Types, Files
  <2> QED
    BY <2>1, LineKinds
<1> QED
  BY <1>1, <1>2, <1>3, <1>4, <1>5 DEF TypeOK, Types, EventInfo

(* What the running log holds in memory is what its file says: as long as  *)
(* nobody clears the log and no line is joined to an unterminated one, the *)
(* history of roots stays aligned with the tree through every restart,     *)
(* and without failing appends holds, retained roots and hidden events are *)
(* those a restart would read, whatever is pruned, held and crashes when.  *)
THEOREM MemoryAlwaysMatchesFile == Spec => []MemoryMatchesFile
<1> DEFINE IInv == TypeInv /\ AckInv /\ RootInv /\ RetInv
<1>1. Init => IInv
  BY InitTypeInv, InitAckInv, InitRootInv, InitRetInv
<1>2. IInv /\ [Next]_vars => IInv'
  <2>1. IInv /\ [Next]_vars => TypeInv'
    BY NextTypeInv
  <2>2. IInv /\ [Next]_vars => AckInv'
    BY NextAckInv
  <2>3. IInv /\ [Next]_vars => RootInv'
    BY NextRootInv
  <2>4. IInv /\ [Next]_vars => RetInv'
    BY NextRetInv
  <2> QED
    BY <2>1, <2>2, <2>3, <2>4
<1>3. IInv => MemoryMatchesFile
  <2> SUFFICES ASSUME IInv PROVE MemoryMatchesFile
    OBVIOUS
  <2>1. TypeOK /\ RetentionMatchesFile
    BY TypesTold, RetentionTold
  <2>2. RootHistoryAlignedUntilClear
    BY DEF RootInv, RootHistory, RootHistoryAlignedUntilClear, RootHistoryAligned
  <2> QED
    BY <2>1, <2>2 DEF MemoryMatchesFile
<1> QED
  BY <1>1, <1>2, <1>3, PTL DEF Spec
=============================================================================
