---------------------------- MODULE DesktopProofs ----------------------------
(***************************************************************************)
(* Proofs about the desktop application: the Data Timeline and the safe    *)
(* changes beside it (Timeline, SafeChange), the transfer jobs (Transfer), *)
(* the audit commands (DesktopAudit), the deployment they work with        *)
(* (Deployment), the connection profiles (Profiles) and the data-model     *)
(* diagram (DataModel).  Each part states its inductive invariant, one     *)
(* lemma for every step, and the theorem.                                  *)
(***************************************************************************)
EXTENDS SafeChange, Transfer, DesktopAudit, Deployment, Profiles, DataModel, FiniteSetTheorems, WellFoundedInduction, TLAPS

-----------------------------------------------------------------------------
(* Positions in order *)

LEMMA Smaller ==
    ASSUME NEW n \in Nat, NEW T \in SUBSET (1..n), NEW S \in SUBSET T
    PROVE  /\ IsFiniteSet(T) /\ Cardinality(T) \in 0..n
           /\ Cardinality(S) \in 0..Cardinality(T)
           /\ S # T => Cardinality(S) < Cardinality(T)
<1>1. IsFiniteSet(1..n) /\ Cardinality(1..n) = n
  BY FS_Interval
<1>2. IsFiniteSet(T) /\ Cardinality(T) <= n
  BY <1>1, FS_Subset
<1>3. /\ IsFiniteSet(S) /\ Cardinality(S) <= Cardinality(T)
      /\ Cardinality(S) = Cardinality(T) <=> S = T
  BY <1>2, FS_Subset
<1>4. Cardinality(S) \in Nat /\ Cardinality(T) \in Nat
  BY <1>2, <1>3, FS_CardinalityType
<1> QED
  BY <1>2, <1>3, <1>4

TotalOrder(I, R) ==
    /\ \A i \in I : <<i, i>> \in R
    /\ \A i, j \in I : <<i, j>> \in R /\ <<j, i>> \in R => i = j
    /\ \A i, j \in I : <<i, j>> \in R \/ <<j, i>> \in R
    /\ \A i, j, k \in I : <<i, j>> \in R /\ <<j, k>> \in R => <<i, k>> \in R
RankOf(I, R, i) == Cardinality({j \in I : <<j, i>> \in R})

(* In a total order of finitely many positions each rank is taken once. *)
LEMMA RankInOrder ==
    ASSUME NEW n \in Nat, NEW I \in SUBSET (1..n), NEW R, TotalOrder(I, R)
    PROVE  /\ Cardinality(I) \in 0..n
           /\ \A i \in I : RankOf(I, R, i) \in 1..Cardinality(I)
           /\ \A i, j \in I : <<i, j>> \in R /\ i # j => RankOf(I, R, i) < RankOf(I, R, j)
           /\ \A k \in 1..Cardinality(I) : \E i \in I : RankOf(I, R, i) = k
<1> USE DEF TotalOrder
<1> DEFINE UpTo(i) == {j \in I : <<j, i>> \in R}
           rank == [i \in I |-> Cardinality(UpTo(i))]
           N == Cardinality(I)
<1>1. IsFiniteSet(I) /\ N \in 0..n
  BY Smaller
<1>2. \A i \in I : Cardinality(UpTo(i)) \in 1..N
  <2> SUFFICES ASSUME NEW i \in I PROVE Cardinality(UpTo(i)) \in 1..N
    OBVIOUS
  <2>1. i \in UpTo(i) /\ UpTo(i) \in SUBSET I /\ UpTo(i) \in SUBSET (1..n)
    OBVIOUS
  <2> HIDE DEF UpTo
  <2>2. Cardinality(UpTo(i)) \in 0..N
    BY <2>1, Smaller
  <2>3. IsFiniteSet(UpTo(i))
    BY <2>1, Smaller
  <2>4. Cardinality(UpTo(i)) # 0
    BY <2>3, <2>1, FS_EmptySet
  <2> QED
    BY <2>2, <2>4, <1>1
<1>3. \A i, j \in I : <<i, j>> \in R /\ i # j => Cardinality(UpTo(i)) < Cardinality(UpTo(j))
  <2> SUFFICES ASSUME NEW i \in I, NEW j \in I, <<i, j>> \in R, i # j
               PROVE  Cardinality(UpTo(i)) < Cardinality(UpTo(j))
    OBVIOUS
  <2>1. UpTo(i) \in SUBSET UpTo(j) /\ UpTo(j) \in SUBSET (1..n) /\ j \in UpTo(j) /\ j \notin UpTo(i)
    OBVIOUS
  <2> HIDE DEF UpTo
  <2> QED
    BY <2>1, Smaller
<1>4. \A i, j \in I : rank[i] = rank[j] => i = j
  <2> SUFFICES ASSUME NEW i \in I, NEW j \in I, i # j PROVE rank[i] # rank[j]
    OBVIOUS
  <2>1. <<i, j>> \in R \/ <<j, i>> \in R
    OBVIOUS
  <2>2. rank[i] < rank[j] \/ rank[j] < rank[i]
    <3> HIDE DEF UpTo
    <3> QED
      BY <2>1, <1>3
  <2>3. rank[i] \in Int /\ rank[j] \in Int
    <3> HIDE DEF UpTo
    <3> QED
      BY <1>1, <1>2
  <2> HIDE DEF rank
  <2> QED
    BY <2>2, <2>3
<1> HIDE DEF UpTo
<1>5. rank \in Injection(I, 1..N)
  BY <1>2, <1>4 DEF Injection, IsInjective
<1>6. IsFiniteSet(1..N) /\ Cardinality(1..N) = N
  BY <1>1, FS_Interval
<1>7. rank \in Surjection(I, 1..N)
  BY <1>1, <1>5, <1>6, FS_Injection
<1>8. \A k \in 1..N : \E i \in I : rank[i] = k
  BY <1>7 DEF Surjection
<1>9. \A k \in 1..N : \E i \in I : Cardinality(UpTo(i)) = k
  BY <1>8
<1> QED
  BY <1>1, <1>2, <1>3, <1>9 DEF UpTo, RankOf

(* Nth counts off the positions I in order. *)
LEMMA NthInOrder ==
    ASSUME NEW n \in Nat, NEW I \in SUBSET (1..n)
    PROVE  /\ Cardinality(I) \in 0..n
           /\ \A k \in 1..Cardinality(I) : Nth(I, k) \in I
           /\ \A i \in I : \E k \in 1..Cardinality(I) : Nth(I, k) = i
           /\ \A j, k \in 1..Cardinality(I) : Nth(I, j) = Nth(I, k) => j = k
<1> DEFINE R == {r \in I \X I : r[1] <= r[2]}
           rank(i) == RankOf(I, R, i)
<1>0. \A i \in I : i \in Int
  OBVIOUS
<1>1. TotalOrder(I, R)
  BY <1>0 DEF TotalOrder
<1>2. /\ Cardinality(I) \in 0..n
      /\ \A i \in I : rank(i) \in 1..Cardinality(I)
      /\ \A i, j \in I : <<i, j>> \in R /\ i # j => rank(i) < rank(j)
      /\ \A k \in 1..Cardinality(I) : \E i \in I : rank(i) = k
  <2> HIDE DEF R
  <2> QED
    BY <1>1, RankInOrder
<1>3. \A i \in I : {j \in I : j <= i} = {j \in I : <<j, i>> \in R}
  OBVIOUS
<1>4. \A k : Nth(I, k) = CHOOSE i \in I : rank(i) = k
  <2> SUFFICES ASSUME NEW k PROVE Nth(I, k) = CHOOSE i \in I : rank(i) = k
    OBVIOUS
  <2>1. \A i \in I : (Cardinality({j \in I : j <= i}) = k) <=> (rank(i) = k)
    <3> HIDE DEF R
    <3> QED
      BY <1>3 DEF RankOf
  <2> HIDE DEF rank
  <2> QED
    BY <2>1, Zenon DEF Nth
<1> HIDE DEF rank
<1>5. \A k \in 1..Cardinality(I) : Nth(I, k) \in I /\ rank(Nth(I, k)) = k
  BY <1>2, <1>4
<1>6. \A i, j \in I : rank(i) = rank(j) => i = j
  <2> SUFFICES ASSUME NEW i \in I, NEW j \in I, i # j PROVE rank(i) # rank(j)
    OBVIOUS
  <2>1. <<i, j>> \in R \/ <<j, i>> \in R
    BY <1>1 DEF TotalOrder
  <2>2. rank(i) \in Int /\ rank(j) \in Int
    BY <1>2
  <2> HIDE DEF R
  <2> QED
    BY <1>2, <2>1, <2>2
<1> QED
  BY <1>2, <1>5, <1>6

LEMMA KeptInOrder ==
    ASSUME NEW s, NEW n \in Nat, NEW I \in SUBSET (1..n)
    PROVE  /\ DOMAIN Kept(s, I) = 1..Cardinality(I) /\ Len(Kept(s, I)) = Cardinality(I)
           /\ Cardinality(I) \in Nat
           /\ \A k \in 1..Cardinality(I) : Kept(s, I)[k] = s[Nth(I, k)] /\ Nth(I, k) \in I
<1>1. Cardinality(I) \in Nat /\ \A k \in 1..Cardinality(I) : Nth(I, k) \in I
  BY NthInOrder
<1> QED
  BY <1>1 DEF Kept

(* The timeline's invariant *)

IsEntry(e) ==
    /\ DOMAIN e = {"id", "profile", "kind", "script", "noted"}
    /\ e.id \in Nat /\ e.profile \in Profiles

(* A list of entries with ids of their own. *)
EntryList(list, n) ==
    /\ Len(list) \in Nat /\ list = [i \in 1..Len(list) |-> list[i]]
    /\ \A i \in 1..Len(list) : IsEntry(list[i]) /\ list[i].id \in 1..n
    /\ \A i, j \in 1..Len(list) : list[i].id = list[j].id => i = j

Ids(list) == {list[i].id : i \in 1..Len(list)}

Pending(t) == task[t].st \in {"built", "index"}
Saving(t) == task[t].st \in {"save", "writing"}
SaveTasks == [st : {"save", "writing"}, acks : SUBSET Nat, gone : SUBSET Nat]

TimelineTypes ==
    /\ drawn \in Nat /\ EntryList(entries, drawn) /\ EntryList(file, drawn)
    /\ task = [t \in Tasks |-> task[t]]
    /\ \A t \in Tasks : task[t].st \in {"idle", "built", "index", "rebuild", "store", "save", "writing"}
    /\ \A t \in Tasks : Saving(t) => task[t] \in SaveTasks
    /\ marks \in [acked : SUBSET (1..drawn), removed : SUBSET (1..drawn), gone : SUBSET (1..drawn),
                  overlap : BOOLEAN, torn : BOOLEAN]
    /\ index = [p \in Profiles |-> index[p]]
    /\ \A t \in Tasks : task[t].st = "store" => task[t].built = [p \in Profiles |-> task[t].built[p]]

(* An entry on its way has an id that nobody has been told of; one that is *)
(* not yet in the list has never been there.                               *)
PendingInv ==
    /\ \A t \in Tasks : Pending(t) =>
          /\ IsEntry(task[t].entry) /\ task[t].entry.id \in 1..drawn
          /\ task[t].entry.id \notin marks.acked
          /\ task[t].st = "built" => task[t].entry.id \notin marks.removed \cup Ids(entries)
          /\ task[t].st = "index" => task[t].entry.id \in marks.removed \cup Ids(entries)
    /\ \A t, u \in Tasks : Pending(t) /\ Pending(u) /\ task[t].entry.id = task[u].entry.id => t = u
    /\ \A t, u \in Tasks : Pending(t) /\ Saving(u) => task[t].entry.id \notin task[u].acks

(* What a task is about to acknowledge is in the list, or removed; what it *)
(* has removed is not.                                                     *)
SavingInv ==
    /\ marks.gone \subseteq marks.removed
    /\ \A t \in Tasks : Saving(t) => /\ task[t].acks \subseteq 1..drawn
                                     /\ task[t].acks \subseteq marks.removed \cup Ids(entries)
    /\ \A t \in Tasks : Saving(t) \/ Removing(t) => /\ task[t].gone \subseteq marks.removed
                                                     /\ task[t].gone \cap Ids(entries) = {}

(* The list, and between two saves the file, hold what was acknowledged.   *)
Holds(list) == marks.acked \ marks.removed \subseteq Ids(list) /\ Ids(list) \cap marks.gone = {}
KeptInv == ~marks.torn => Holds(entries) /\ (Writable => Holds(file))

(* The index has each position once, under its profile, but those whose    *)
(* task has not come to it.                                                *)
Indexed(p, i) == \E k \in 1..Len(index[p]) : index[p][k] = i
ColumnExact(p) ==
    /\ Len(index[p]) \in Nat /\ index[p] = [k \in 1..Len(index[p]) |-> index[p][k]]
    /\ \A k \in 1..Len(index[p]) : index[p][k] \in 1..Len(entries) /\ entries[index[p][k]].profile = p
    /\ \A k, l \in 1..Len(index[p]) : index[p][k] = index[p][l] => k = l
PlaceKnown(i) ==
    \/ Indexed(entries[i].profile, i)
    \/ \E t \in Tasks : task[t].st = "index" /\ task[t].at = i
PlaceDue(t) ==
    /\ task[t].at \in 1..Len(entries) /\ entries[task[t].at].id = task[t].entry.id
    /\ entries[task[t].at].profile = task[t].entry.profile
    /\ ~Indexed(task[t].entry.profile, task[t].at)
IndexExact ==
    /\ \A p \in Profiles : ColumnExact(p)
    /\ \A i \in 1..Len(entries) : PlaceKnown(i)
    /\ \A t \in Tasks : task[t].st = "index" => PlaceDue(t)

(* A removal that no other change met is alone, and its index is current.  *)
Alone(u) ==
    /\ Unindexed = {u}
    /\ task[u].st = "store" => task[u].built = BuildIndex(entries)
IndexInv == ~marks.overlap => \/ IndexExact /\ \A t \in Tasks : ~Removing(t)
                              \/ \E u \in Tasks : Removing(u) /\ Alone(u)

TimelineInv == TimelineTypes /\ PendingInv /\ SavingInv /\ KeptInv /\ IndexInv

-----------------------------------------------------------------------------
(* A new index has every position of the list once. *)
LEMMA IndexBuilt ==
    ASSUME NEW list, Len(list) \in Nat, DOMAIN list = 1..Len(list), NEW p \in Profiles
    PROVE  LET b == BuildIndex(list)[p] IN
           /\ Len(b) \in Nat /\ b = [k \in 1..Len(b) |-> b[k]]
           /\ \A k \in 1..Len(b) : b[k] \in 1..Len(list) /\ list[b[k]].profile = p
           /\ \A k, l \in 1..Len(b) : b[k] = b[l] => k = l
           /\ \A i \in 1..Len(list) : list[i].profile = p => \E k \in 1..Len(b) : b[k] = i
<1> DEFINE I == {i \in DOMAIN list : list[i].profile = p}
           s == [i \in DOMAIN list |-> i]
           b == Kept(s, I)
<1>1. BuildIndex(list)[p] = b
  BY DEF BuildIndex
<1>2. /\ I \in SUBSET (1..Len(list)) /\ \A i \in I : s[i] = i /\ list[i].profile = p
      /\ \A i \in 1..Len(list) : list[i].profile = p => i \in I
  OBVIOUS
<1> HIDE DEF I, s
<1>3. /\ DOMAIN b = 1..Cardinality(I) /\ Len(b) = Cardinality(I) /\ Cardinality(I) \in Nat
      /\ \A k \in 1..Cardinality(I) : b[k] = s[Nth(I, k)] /\ Nth(I, k) \in I
  BY <1>2, KeptInOrder
<1>4. b = [k \in 1..Len(b) |-> b[k]]
  BY <1>3 DEF Kept
<1> HIDE DEF b
<1>5. \A k \in 1..Len(b) : b[k] = Nth(I, k) /\ b[k] \in I
  BY <1>2, <1>3
<1>6. /\ \A i \in I : \E k \in 1..Len(b) : b[k] = i
      /\ \A k, l \in 1..Len(b) : b[k] = b[l] => k = l
  BY <1>2, <1>3, <1>5, NthInOrder
<1> QED
  BY <1>1, <1>2, <1>3, <1>4, <1>5, <1>6

LEMMA BuiltIsIndex ==
    ASSUME NEW list
    PROVE  BuildIndex(list) = [p \in Profiles |-> BuildIndex(list)[p]]
BY DEF BuildIndex

(* The index of a list depends on the profiles of its entries only. *)
LEMMA SameIndex ==
    ASSUME NEW l1, NEW l2, DOMAIN l1 = DOMAIN l2, \A i \in DOMAIN l1 : l1[i].profile = l2[i].profile
    PROVE  BuildIndex(l1) = BuildIndex(l2)
<1>1. \A p \in Profiles : {i \in DOMAIN l1 : l1[i].profile = p} = {i \in DOMAIN l2 : l2[i].profile = p}
  OBVIOUS
<1>2. [i \in DOMAIN l1 |-> i] = [i \in DOMAIN l2 |-> i]
  OBVIOUS
<1> QED
  BY <1>1, <1>2, Zenon DEF BuildIndex

(* With such an index the list of a profile is exact. *)
LEMMA ListsExactly ==
    ASSUME EntryList(entries, drawn), IndexExact, NEW p \in Profiles
    PROVE  LET shown == List(p) IN
           /\ ToSet(shown) \subseteq {e \in ToSet(entries) : e.profile = p}
           /\ \A i \in 1..Len(entries) : Indexed(p, i) => entries[i] \in ToSet(shown)
           /\ \A i, j \in DOMAIN shown : i < j => shown[i].id > shown[j].id
<1> DEFINE ix == index[p]
           found == {k \in DOMAIN ix : ix[k] \in DOMAIN entries}
           entry(k) == entries[ix[k]]
           upTo(k) == {j \in found : entry(j).id > entry(k).id \/ (entry(j).id = entry(k).id /\ j <= k)}
           R == {r \in found \X found : entry(r[1]).id > entry(r[2]).id
                                         \/ (entry(r[1]).id = entry(r[2]).id /\ r[1] <= r[2])}
           at(n) == CHOOSE k \in found : Cardinality(upTo(k)) = n
           N == Cardinality(found)
<1>1. List(p) = [n \in 1..N |-> entry(at(n))]
  BY DEF List
<1>2. /\ Len(ix) \in Nat /\ DOMAIN ix = 1..Len(ix) /\ DOMAIN entries = 1..Len(entries) /\ Len(entries) \in Nat
      /\ \A k \in 1..Len(ix) : ix[k] \in 1..Len(entries) /\ entries[ix[k]].profile = p
      /\ \A k, l \in 1..Len(ix) : ix[k] = ix[l] => k = l
  BY DEF IndexExact, ColumnExact, EntryList
<1>3. found = 1..Len(ix)
  BY <1>2
<1>4. \A k \in found : entry(k).id \in Nat /\ k \in Int
  BY <1>2, <1>3 DEF EntryList, IsEntry
<1>5. \A k, l \in found : entry(k).id = entry(l).id => k = l
  BY <1>2, <1>3 DEF EntryList
<1> HIDE DEF found
<1>6. TotalOrder(found, R)
  <2>1. \A k, l \in found : <<k, l>> \in R <=> (entry(k).id > entry(l).id \/ (entry(k).id = entry(l).id /\ k <= l))
    OBVIOUS
  <2> HIDE DEF R, entry
  <2>2. \A i \in found : <<i, i>> \in R
    BY <2>1, <1>4
  <2>3. \A i, j \in found : <<i, j>> \in R /\ <<j, i>> \in R => i = j
    BY <2>1, <1>4
  <2>4. ASSUME NEW i \in found, NEW j \in found PROVE <<i, j>> \in R \/ <<j, i>> \in R
    <3>1. entry(i).id > entry(j).id \/ entry(j).id > entry(i).id \/ entry(i).id = entry(j).id
      BY <1>4
    <3>2. i <= j \/ j <= i
      BY <1>4
    <3> QED
      BY <2>1, <3>1, <3>2
  <2>5. \A i, j, k \in found : <<i, j>> \in R /\ <<j, k>> \in R => <<i, k>> \in R
    BY <2>1, <1>4
  <2> QED
    BY <2>2, <2>3, <2>4, <2>5 DEF TotalOrder
<1>7. \A k \in found : Cardinality(upTo(k)) = RankOf(found, R, k)
  <2>1. \A k \in found : upTo(k) = {j \in found : <<j, k>> \in R}
    OBVIOUS
  <2> HIDE DEF upTo, R
  <2> QED
    BY <2>1 DEF RankOf
<1>8. /\ N \in Nat
      /\ \A i \in found : RankOf(found, R, i) \in 1..N
      /\ \A i, j \in found : <<i, j>> \in R /\ i # j => RankOf(found, R, i) < RankOf(found, R, j)
      /\ \A k \in 1..N : \E i \in found : RankOf(found, R, i) = k
  <2> HIDE DEF R
  <2>1. PICK m \in Nat : found \in SUBSET (1..m)
    BY <1>2, <1>3
  <2>2. /\ Cardinality(found) \in 0..m
        /\ \A i \in found : RankOf(found, R, i) \in 1..Cardinality(found)
        /\ \A i, j \in found : <<i, j>> \in R /\ i # j => RankOf(found, R, i) < RankOf(found, R, j)
        /\ \A k \in 1..Cardinality(found) : \E i \in found : RankOf(found, R, i) = k
    BY <1>6, <2>1, RankInOrder
  <2> QED
    BY <2>2
<1>9. \A i, j \in found : i # j /\ RankOf(found, R, i) < RankOf(found, R, j) => entry(i).id > entry(j).id
  <2> SUFFICES ASSUME NEW i \in found, NEW j \in found, i # j, RankOf(found, R, i) < RankOf(found, R, j)
               PROVE  entry(i).id > entry(j).id
    OBVIOUS
  <2>1. ~(<<j, i>> \in R)
    <3> HIDE DEF R
    <3>1. RankOf(found, R, i) \in Int /\ RankOf(found, R, j) \in Int
      BY <1>8
    <3> QED
      BY <1>8, <3>1
  <2>2. ~(entry(j).id > entry(i).id)
    BY <2>1
  <2> QED
    BY <2>2, <1>4, <1>5
<1>10. \A n \in 1..N : at(n) \in found /\ RankOf(found, R, at(n)) = n
  <2> HIDE DEF R, upTo
  <2> QED
    BY <1>7, <1>8
<1> HIDE DEF R, at, upTo, entry, N
<1>11. DOMAIN List(p) = 1..N /\ \A n \in 1..N : List(p)[n] = entry(at(n))
  BY <1>1
<1>12. \A i, j \in DOMAIN List(p) : i < j => List(p)[i].id > List(p)[j].id
  <2> SUFFICES ASSUME NEW i \in 1..N, NEW j \in 1..N, i < j PROVE entry(at(i)).id > entry(at(j)).id
    BY <1>11
  <2>1. at(i) # at(j)
    BY <1>10, <1>8
  <2> QED
    BY <2>1, <1>9, <1>10
<1>13. ToSet(List(p)) \subseteq {e \in ToSet(entries) : e.profile = p}
  <2> SUFFICES ASSUME NEW n \in 1..N PROVE entry(at(n)) \in ToSet(entries) /\ entry(at(n)).profile = p
    BY <1>11 DEF ToSet
  <2>1. at(n) \in 1..Len(ix)
    BY <1>3, <1>10
  <2> QED
    BY <2>1, <1>2 DEF ToSet, entry
<1>14. ASSUME NEW i \in 1..Len(entries), Indexed(p, i) PROVE entries[i] \in ToSet(List(p))
  <2>1. PICK k \in 1..Len(ix) : ix[k] = i
    BY <1>14 DEF Indexed
  <2>2. k \in found /\ entry(k) = entries[i]
    BY <2>1, <1>3 DEF entry
  <2>3. PICK n \in 1..N : n = RankOf(found, R, k)
    BY <2>2, <1>8
  <2>4. at(n) = k
    <3>1. at(n) \in found /\ RankOf(found, R, at(n)) = RankOf(found, R, k) /\ RankOf(found, R, k) \in Int
      BY <1>8, <1>10, <2>3
    <3>2. <<at(n), k>> \in R \/ <<k, at(n)>> \in R
      BY <1>6, <2>2, <3>1 DEF TotalOrder
    <3>3. ~(RankOf(found, R, at(n)) < RankOf(found, R, k)) /\ ~(RankOf(found, R, k) < RankOf(found, R, at(n)))
      BY <3>1
    <3> QED
      BY <1>8, <2>2, <3>1, <3>2, <3>3
  <2> QED
    BY <2>2, <2>3, <2>4, <1>11 DEF ToSet
<1> QED
  BY <1>12, <1>13, <1>14

-----------------------------------------------------------------------------
(* Lists of entries *)

LEMMA SeqIsFunction ==
    ASSUME NEW S, NEW s \in Seq(S)
    PROVE  Len(s) \in Nat /\ s \in [1..Len(s) -> S]
OBVIOUS

LEMMA ListAppend ==
    ASSUME NEW list, Len(list) \in Nat, list = [i \in 1..Len(list) |-> list[i]], NEW e
    PROVE  /\ Len(Append(list, e)) = Len(list) + 1 /\ Append(list, e)[Len(list) + 1] = e
           /\ \A i \in 1..Len(list) : Append(list, e)[i] = list[i]
           /\ Append(list, e) = [i \in 1..(Len(list) + 1) |-> Append(list, e)[i]]
<1> DEFINE S == {list[i] : i \in 1..Len(list)} \cup {e}
<1>1. list \in [1..Len(list) -> S]
  OBVIOUS
<1> HIDE DEF S
<1>2. list \in Seq(S)
  BY <1>1
<1>3. e \in S
  BY DEF S
<1>4. /\ Len(Append(list, e)) = Len(list) + 1 /\ Append(list, e)[Len(list) + 1] = e
      /\ \A i \in 1..Len(list) : Append(list, e)[i] = list[i]
  BY <1>2, <1>3
<1>5. Append(list, e) \in Seq(S)
  BY <1>2, <1>3
<1>6. Append(list, e) \in [1..Len(Append(list, e)) -> S]
  BY <1>5, SeqIsFunction
<1> QED
  BY <1>4, <1>6

LEMMA AppendedEntries ==
    ASSUME NEW n \in Nat, NEW list, EntryList(list, n), NEW e, IsEntry(e), e.id \in 1..n, e.id \notin Ids(list)
    PROVE  EntryList(Append(list, e), n) /\ Ids(Append(list, e)) = Ids(list) \cup {e.id}
<1> DEFINE new == Append(list, e)
           l == Len(list)
<1>1. /\ Len(new) = l + 1 /\ new[l + 1] = e /\ l \in Nat
      /\ \A i \in 1..l : new[i] = list[i]
      /\ new = [i \in 1..(l + 1) |-> new[i]]
  BY ListAppend DEF EntryList
<1> HIDE DEF new
<1>2. \A i \in 1..(l + 1) : i \in 1..l \/ i = l + 1
  BY <1>1
<1>3. \A i \in 1..l : i \in 1..(l + 1) /\ i # l + 1
  BY <1>1
<1>4. l + 1 \in 1..(l + 1)
  BY <1>1
<1>5. /\ \A i \in 1..l : IsEntry(list[i]) /\ list[i].id \in 1..n /\ list[i].id # e.id
      /\ \A i, j \in 1..l : list[i].id = list[j].id => i = j
  BY DEF EntryList, Ids
<1> HIDE DEF l
<1>6. \A i \in 1..(l + 1) : IsEntry(new[i]) /\ new[i].id \in 1..n
  BY <1>1, <1>2, <1>5
<1>7. \A i, j \in 1..(l + 1) : new[i].id = new[j].id => i = j
  BY <1>1, <1>2, <1>5
<1>8. EntryList(new, n)
  BY <1>1, <1>6, <1>7 DEF EntryList
<1>9. Ids(list) = {list[i].id : i \in 1..l} /\ Ids(new) = {new[i].id : i \in 1..(l + 1)}
  BY <1>1 DEF Ids, l
<1>10. Ids(new) = Ids(list) \cup {e.id}
  <2>1. ASSUME NEW x \in Ids(new) PROVE x \in Ids(list) \cup {e.id}
    <3>1. PICK i \in 1..(l + 1) : x = new[i].id
      BY <1>9
    <3>2. CASE i \in 1..l
      BY <3>1, <3>2, <1>1, <1>9
    <3>3. CASE i = l + 1
      BY <3>1, <3>3, <1>1
    <3> QED
      BY <3>2, <3>3, <1>2
  <2>2. \A i \in 1..l : new[i].id \in Ids(new) /\ new[i].id = list[i].id
    BY <1>1, <1>3, <1>9
  <2>3. e.id \in Ids(new)
    BY <1>1, <1>4, <1>9
  <2>4. \A x \in Ids(list) : x \in Ids(new)
    BY <2>2, <1>9
  <2> QED
    BY <2>1, <2>3, <2>4
<1> QED
  BY <1>8, <1>10 DEF new

LEMMA KeptEntries ==
    ASSUME NEW n \in Nat, NEW list, EntryList(list, n), NEW I \in SUBSET (1..Len(list))
    PROVE  EntryList(Kept(list, I), n) /\ Ids(Kept(list, I)) = {list[i].id : i \in I}
<1> DEFINE new == Kept(list, I)
           c == Cardinality(I)
<1>1. Len(list) \in Nat /\ DOMAIN list = 1..Len(list)
  BY DEF EntryList
<1>2. /\ Len(new) = c /\ c \in Nat
      /\ \A k \in 1..c : new[k] = list[Nth(I, k)] /\ Nth(I, k) \in I
  BY <1>1, KeptInOrder
<1>3. new = [k \in 1..c |-> new[k]]
  BY <1>2 DEF Kept
<1> HIDE DEF new
<1>4. /\ \A i \in I : \E k \in 1..c : Nth(I, k) = i
      /\ \A j, k \in 1..c : Nth(I, j) = Nth(I, k) => j = k
  BY <1>1, NthInOrder
<1> HIDE DEF c
<1>5. \A k \in 1..c : IsEntry(new[k]) /\ new[k].id \in 1..n
  BY <1>2 DEF EntryList
<1>6. \A j, k \in 1..c : new[j].id = new[k].id => j = k
  <2> SUFFICES ASSUME NEW j \in 1..c, NEW k \in 1..c, new[j].id = new[k].id PROVE j = k
    OBVIOUS
  <2>1. Nth(I, j) \in 1..Len(list) /\ Nth(I, k) \in 1..Len(list) /\ list[Nth(I, j)].id = list[Nth(I, k)].id
    BY <1>2
  <2> QED
    BY <2>1, <1>4 DEF EntryList
<1>7. EntryList(new, n)
  BY <1>2, <1>3, <1>5, <1>6 DEF EntryList
<1>8. Ids(new) = {new[k].id : k \in 1..c}
  BY <1>2 DEF Ids
<1>9. Ids(new) = {list[i].id : i \in I}
  <2>1. ASSUME NEW x \in Ids(new) PROVE x \in {list[i].id : i \in I}
    <3>1. PICK k \in 1..c : x = new[k].id
      BY <1>8, <2>1
    <3>2. PICK i \in I : new[k] = list[i]
      BY <1>2
    <3> QED
      BY <3>1, <3>2
  <2>2. ASSUME NEW i \in I PROVE list[i].id \in Ids(new)
    <3>1. PICK k \in 1..c : Nth(I, k) = i
      BY <1>4
    <3> QED
      BY <3>1, <1>2, <1>8
  <2> QED
    BY <2>1, <2>2
<1> QED
  BY <1>7, <1>9 DEF new

LEMMA PrefixEntries ==
    ASSUME NEW n \in Nat, NEW list, EntryList(list, n), NEW new \in Prefixes(list)
    PROVE  EntryList(new, n)
<1>1. PICK l \in 0..Len(list) : new = SubSeq(list, 1, l)
  BY DEF Prefixes
<1>2. Len(list) \in Nat /\ list = [i \in 1..Len(list) |-> list[i]]
  BY DEF EntryList
<1> DEFINE S == {list[i] : i \in 1..Len(list)}
<1>3. list \in [1..Len(list) -> S]
  BY <1>2
<1> HIDE DEF S
<1>4. list \in Seq(S)
  BY <1>2, <1>3
<1>5. l \in Nat /\ \A k \in 1..l : k \in 1..Len(list)
  BY <1>2
<1>6. SubSeq(list, 1, l) = [k \in 1..(1 + l - 1) |-> list[1 + k - 1]]
  BY <1>4, <1>5
<1>7. (1 + l - 1) = l /\ \A k \in 1..l : 1 + k - 1 = k
  BY <1>5
<1>8. new = [k \in 1..l |-> list[k]]
  BY <1>1, <1>6, <1>7
<1>9. Len(new) = l
  BY <1>5, <1>8
<1>10. \A k \in 1..l : new[k] = list[k] /\ k \in 1..Len(list)
  BY <1>5, <1>8
<1> QED
  BY <1>5, <1>8, <1>9, <1>10 DEF EntryList

LEMMA MoreIds ==
    ASSUME NEW n \in Nat, NEW m \in Nat, n <= m, NEW list, EntryList(list, n)
    PROVE  EntryList(list, m)
BY DEF EntryList

LEMMA NoEntries ==
    ASSUME NEW n \in Nat
    PROVE  EntryList(<<>>, n) /\ Ids(<<>>) = {}
BY DEF EntryList, Ids

-----------------------------------------------------------------------------
(* The steps *)

(* A step that leaves the places, ids and profiles of the entries, the     *)
(* index and every task between entries and index as they are.             *)
LEMMA IndexKept ==
    ASSUME IndexInv, index' = index, marks'.overlap = marks.overlap,
           Len(entries') = Len(entries), DOMAIN entries = 1..Len(entries), DOMAIN entries' = 1..Len(entries),
           \A i \in 1..Len(entries) : entries'[i].id = entries[i].id /\ entries'[i].profile = entries[i].profile,
           \A u \in Tasks : \/ task'[u] = task[u]
                            \/ /\ task'[u].st \notin {"index", "rebuild", "store"}
                               /\ task[u].st \notin {"index", "rebuild", "store"}
    PROVE  IndexInv'
<1>1. Unindexed' = Unindexed
  BY DEF Unindexed
<1>2. \A u \in Tasks : Removing(u)' <=> Removing(u)
  BY DEF Removing
<1>3. \A u \in Tasks : Removing(u) => task'[u] = task[u]
  BY DEF Removing
<1>4. BuildIndex(entries') = BuildIndex(entries)
  BY SameIndex
<1>5. \A p, i : Indexed(p, i)' <=> Indexed(p, i)
  BY DEF Indexed
<1>6. ASSUME IndexExact PROVE IndexExact'
  <2>1. ASSUME NEW p \in Profiles PROVE ColumnExact(p)'
    <3>1. ColumnExact(p)
      BY <1>6 DEF IndexExact
    <3>2. index'[p] = index[p]
      OBVIOUS
    <3> QED
      BY <3>1, <3>2 DEF ColumnExact
  <2>2. \A u \in Tasks : task'[u].st = "index" \/ task[u].st = "index" => task'[u] = task[u]
    OBVIOUS
  <2>4. ASSUME NEW i \in 1..Len(entries') PROVE PlaceKnown(i)'
    <3>1. PlaceKnown(i) /\ entries'[i].profile = entries[i].profile
      BY <1>6 DEF IndexExact
    <3>2. Indexed(entries[i].profile, i)' <=> Indexed(entries[i].profile, i)
      BY <3>1 DEF Indexed
    <3> QED
      BY <2>2, <3>1, <3>2 DEF PlaceKnown, Indexed
  <2>5. ASSUME NEW t \in Tasks, task'[t].st = "index" PROVE PlaceDue(t)'
    <3>1. PlaceDue(t) /\ task'[t] = task[t]
      BY <1>6, <2>2, <2>5 DEF IndexExact
    <3> QED
      BY <3>1 DEF PlaceDue, Indexed
  <2> QED
    BY <2>1, <2>4, <2>5 DEF IndexExact
<1>7. ASSUME NEW u \in Tasks, Removing(u), Alone(u) PROVE Removing(u)' /\ Alone(u)'
  BY <1>1, <1>2, <1>3, <1>4, <1>7 DEF Alone, Removing
<1> QED
  BY <1>2, <1>6, <1>7 DEF IndexInv

StepsTo(t, r) ==
    /\ task'[t] = r /\ \A u \in Tasks \ {t} : task'[u] = task[u]
    /\ task' = [u \in Tasks |-> task'[u]]

LEMMA BuildEntryStep ==
    ASSUME TimelineInv, NEW t \in Tasks, NEW p \in Profiles, NEW kind, NEW script, BuildEntry(t, p, kind, script)
    PROVE  TimelineInv'
<1> DEFINE e == [id |-> drawn + 1, profile |-> p, kind |-> kind, script |-> script, noted |-> FALSE]
<1>1. /\ task[t].st = "idle" /\ drawn' = drawn + 1 /\ drawn \in Nat
      /\ entries' = entries /\ index' = index /\ file' = file /\ marks' = marks
  BY DEF BuildEntry, Busy, TimelineInv, TimelineTypes
<1>2. StepsTo(t, [st |-> "built", entry |-> e])
  BY <1>1 DEF BuildEntry, StepsTo, TimelineInv, TimelineTypes
<1>3. IsEntry(e) /\ e.id = drawn + 1
  BY <1>1 DEF IsEntry
<1> HIDE DEF e
<1>4. task'[t].st = "built" /\ task'[t].entry = e
  BY <1>2 DEF StepsTo
<1>5. \A u \in Tasks : u # t => task'[u] = task[u]
  BY <1>2 DEF StepsTo
<1>6. TimelineTypes'
  <2>1. EntryList(entries, drawn + 1) /\ EntryList(file, drawn + 1)
    BY <1>1, MoreIds DEF TimelineInv, TimelineTypes
  <2>2. \A u \in Tasks : task'[u].st \in {"idle", "built", "index", "rebuild", "store", "save", "writing"}
    BY <1>4, <1>5 DEF TimelineInv, TimelineTypes
  <2>3. \A u \in Tasks : task'[u].st \in {"save", "writing"} => task'[u] \in SaveTasks
    BY <1>4, <1>5 DEF TimelineInv, TimelineTypes, Saving
  <2>4. 1..drawn \subseteq 1..(drawn + 1)
    BY <1>1
  <2>5. marks \in [acked : SUBSET (1..(drawn + 1)), removed : SUBSET (1..(drawn + 1)), gone : SUBSET (1..(drawn + 1)),
                  overlap : BOOLEAN, torn : BOOLEAN]
    BY <2>4 DEF TimelineInv, TimelineTypes
  <2> QED
    BY <1>1, <1>2, <2>1, <2>2, <2>3, <2>5 DEF TimelineInv, TimelineTypes, Saving, StepsTo
<1>7. \A S \in SUBSET (1..drawn) : drawn + 1 \notin S
  BY <1>1
<1>8. /\ Ids(entries) \in SUBSET (1..drawn) /\ marks.acked \in SUBSET (1..drawn)
      /\ marks.removed \in SUBSET (1..drawn)
  BY DEF TimelineInv, TimelineTypes, EntryList, Ids
<1>9. PendingInv'
  <2>1. drawn + 1 \notin marks.acked /\ drawn + 1 \notin marks.removed \cup Ids(entries)
    BY <1>7, <1>8
  <2>2. \A u \in Tasks : Pending(u) => task[u].entry.id \in 1..drawn
    BY DEF TimelineInv, PendingInv
  <2>3. \A u \in Tasks : Pending(u) => u # t /\ task[u].entry.id # drawn + 1
    BY <1>1, <2>2, <1>7 DEF Pending
  <2>4. \A u \in Tasks : Saving(u) => u # t /\ drawn + 1 \notin task[u].acks
    BY <1>1, <1>7 DEF Saving, TimelineInv, SavingInv
  <2>5. \A u \in Tasks : (Pending(u)' <=> u = t \/ Pending(u)) /\ (Saving(u)' <=> Saving(u))
    BY <1>1, <1>4, <1>5 DEF Pending, Saving
  <2>6. Ids(entries)' = Ids(entries)
    BY <1>1 DEF Ids
  <2>7. drawn + 1 \in 1..(drawn + 1) /\ \A x \in 1..drawn : x \in 1..(drawn + 1)
    BY <1>1
  <2>8. ASSUME NEW u \in Tasks, Pending(u)'
        PROVE  /\ IsEntry(task'[u].entry) /\ task'[u].entry.id \in 1..drawn'
               /\ task'[u].entry.id \notin marks'.acked
               /\ task'[u].st = "built" => task'[u].entry.id \notin marks'.removed \cup Ids(entries)'
               /\ task'[u].st = "index" => task'[u].entry.id \in marks'.removed \cup Ids(entries)'
    <3>1. CASE u = t
      BY <3>1, <1>1, <1>3, <1>4, <2>1, <2>6, <2>7
    <3>2. CASE u # t
      BY <3>2, <1>1, <1>5, <2>5, <2>6, <2>7, <2>8 DEF TimelineInv, PendingInv
    <3> QED
      BY <3>1, <3>2
  <2>9. ASSUME NEW u \in Tasks, NEW v \in Tasks, Pending(u)', Pending(v)', task'[u].entry.id = task'[v].entry.id PROVE u = v
    BY <1>3, <1>4, <1>5, <2>3, <2>5, <2>9 DEF TimelineInv, PendingInv
  <2>10. ASSUME NEW u \in Tasks, NEW v \in Tasks, Pending(u)', Saving(v)' PROVE task'[u].entry.id \notin task'[v].acks
    BY <1>3, <1>4, <1>5, <2>4, <2>5, <2>10 DEF TimelineInv, PendingInv
  <2> QED
    BY <2>8, <2>9, <2>10 DEF PendingInv
<1>10. SavingInv'
  <2>1. \A u \in Tasks : (Saving(u)' => Saving(u) /\ task'[u] = task[u]) /\ (Removing(u)' => Removing(u) /\ task'[u] = task[u])
    BY <1>4, <1>5 DEF Saving, Removing
  <2>2. 1..drawn \subseteq 1..(drawn + 1)
    BY <1>1
  <2> QED
    BY <1>1, <2>1, <2>2 DEF TimelineInv, SavingInv, Ids
<1>11. KeptInv'
  <2>1. Writable' <=> Writable
    BY <1>1, <1>4, <1>5 DEF Writable
  <2> QED
    BY <1>1, <2>1 DEF TimelineInv, KeptInv, Holds, Ids
<1>12. IndexInv'
  <2>1. DOMAIN entries = 1..Len(entries)
    BY DEF TimelineInv, TimelineTypes, EntryList
  <2> QED
    BY <1>1, <1>4, <1>5, <2>1, IndexKept DEF TimelineInv
<1> QED
  BY <1>6, <1>9, <1>10, <1>11, <1>12 DEF TimelineInv

(* append_batch(), first part. *)
LEMMA PushStep ==
    ASSUME TimelineInv, NEW t \in Tasks, Push(t)
    PROVE  TimelineInv'
<1> DEFINE e == task[t].entry
           l == Len(entries)
<1>1. /\ task[t].st = "built" /\ drawn' = drawn /\ drawn \in Nat /\ entries' = Append(entries, e)
      /\ index' = index /\ file' = file /\ Writable
  BY DEF Push, TimelineInv, TimelineTypes
<1>2. /\ task'[t].st = "index" /\ task'[t].entry = e /\ task'[t].at = l + 1
      /\ \A u \in Tasks : u # t => task'[u] = task[u]
      /\ task' = [u \in Tasks |-> task'[u]]
  BY DEF Push, TimelineInv, TimelineTypes
<1>3. /\ IsEntry(e) /\ e.id \in 1..drawn /\ e.id \notin marks.acked /\ e.id \notin marks.removed
      /\ e.id \notin Ids(entries)
  BY <1>1 DEF TimelineInv, PendingInv, Pending
<1>4. /\ marks'.acked = marks.acked /\ marks'.removed = marks.removed /\ marks'.gone = marks.gone
      /\ marks'.torn = marks.torn /\ (~marks'.overlap => ~marks.overlap /\ \A u \in Tasks : ~Removing(u))
      /\ marks' \in [acked : SUBSET (1..drawn), removed : SUBSET (1..drawn), gone : SUBSET (1..drawn),
                     overlap : BOOLEAN, torn : BOOLEAN]
  <2> DEFINE o == marks.overlap \/ \E u \in Unindexed : Removing(u)
  <2>1. marks' = [marks EXCEPT !.overlap = o]
    BY DEF Push
  <2>2. o \in BOOLEAN
    BY Zenon
  <2>3. ~o => ~marks.overlap /\ \A u \in Tasks : ~Removing(u)
    BY Zenon DEF Unindexed, Removing
  <2> HIDE DEF o
  <2>4. marks \in [acked : SUBSET (1..drawn), removed : SUBSET (1..drawn), gone : SUBSET (1..drawn),
                   overlap : BOOLEAN, torn : BOOLEAN]
    BY DEF TimelineInv, TimelineTypes
  <2>5. marks'.overlap = o
    BY <2>1, <2>4
  <2> QED
    BY <2>1, <2>2, <2>3, <2>4, <2>5
<1>5. EntryList(entries', drawn) /\ Ids(entries') = Ids(entries) \cup {e.id}
  BY <1>1, <1>3, AppendedEntries DEF TimelineInv, TimelineTypes
<1>6. /\ Len(entries') = l + 1 /\ entries'[l + 1] = e /\ l \in Nat
      /\ \A i \in 1..l : entries'[i] = entries[i]
  BY <1>1, ListAppend DEF TimelineInv, TimelineTypes, EntryList
<1> HIDE DEF e, l
<1>7. TimelineTypes'
  <2>1. \A u \in Tasks : task'[u].st \in {"idle", "built", "index", "rebuild", "store", "save", "writing"}
    BY <1>2 DEF TimelineInv, TimelineTypes
  <2>2. \A u \in Tasks : task'[u].st \in {"save", "writing"} => task'[u] \in SaveTasks
    BY <1>2 DEF TimelineInv, TimelineTypes, Saving
  <2>3. EntryList(file, drawn)' /\ (index = [p \in Profiles |-> index[p]])'
    BY <1>1 DEF TimelineInv, TimelineTypes, EntryList
  <2>4. \A u \in Tasks : task'[u].st = "store" => task'[u].built = [p \in Profiles |-> task'[u].built[p]]
    BY <1>2 DEF TimelineInv, TimelineTypes
  <2>5. marks' \in [acked : SUBSET (1..drawn'), removed : SUBSET (1..drawn'), gone : SUBSET (1..drawn'),
                    overlap : BOOLEAN, torn : BOOLEAN]
    BY <1>1, <1>4
  <2>6. EntryList(entries, drawn)' /\ drawn' \in Nat
    BY <1>1, <1>5 DEF EntryList
  <2> QED
    BY <1>2, <2>1, <2>2, <2>3, <2>4, <2>5, <2>6 DEF TimelineTypes, Saving
<1>8. /\ \A u \in Tasks : (Pending(u)' <=> Pending(u)) /\ (Pending(u) => task'[u].entry = task[u].entry)
      /\ \A u \in Tasks : (Saving(u)' => Saving(u) /\ task'[u] = task[u])
      /\ \A u \in Tasks : (Removing(u)' => Removing(u) /\ task'[u] = task[u])
  BY <1>1, <1>2 DEF Pending, Saving, Removing, e
<1>9. Ids(entries)' = Ids(entries) \cup {e.id}
  BY <1>5 DEF Ids
<1>10. PendingInv'
  <2>1. \A u \in Tasks : Pending(u) /\ u # t => task[u].entry.id # e.id
    BY <1>1 DEF TimelineInv, PendingInv, Pending, e
  <2>2. ASSUME NEW u \in Tasks, Pending(u)'
        PROVE  /\ IsEntry(task'[u].entry) /\ task'[u].entry.id \in 1..drawn'
               /\ task'[u].entry.id \notin marks'.acked
               /\ task'[u].st = "built" => task'[u].entry.id \notin marks'.removed \cup Ids(entries)'
               /\ task'[u].st = "index" => task'[u].entry.id \in marks'.removed \cup Ids(entries)'
    <3>1. CASE u = t
      BY <3>1, <1>1, <1>2, <1>3, <1>4, <1>9
    <3>2. CASE u # t
      BY <3>2, <1>1, <1>2, <1>4, <1>8, <1>9, <2>1, <2>2 DEF TimelineInv, PendingInv
    <3> QED
      BY <3>1, <3>2
  <2> QED
    BY <2>2, <1>8 DEF TimelineInv, PendingInv
<1>11. SavingInv'
  BY <1>1, <1>3, <1>4, <1>8, <1>9 DEF TimelineInv, SavingInv
<1>12. KeptInv'
  <2>1. Ids(file)' = Ids(file)
    BY <1>1 DEF Ids
  <2>2. ASSUME Holds(entries) PROVE Holds(entries)'
    BY <2>2, <1>3, <1>4, <1>9 DEF Holds, TimelineInv, SavingInv
  <2>3. ASSUME Holds(file) PROVE Holds(file)'
    BY <2>1, <2>3, <1>4 DEF Holds
  <2> QED
    BY <1>1, <1>4, <2>2, <2>3 DEF TimelineInv, KeptInv
<1>13. IndexInv'
  <2> SUFFICES ASSUME ~marks.overlap, \A u \in Tasks : ~Removing(u) PROVE IndexExact' /\ \A u \in Tasks : ~Removing(u)'
    BY <1>4 DEF IndexInv
  <2>1. IndexExact
    BY DEF TimelineInv, IndexInv
  <2>2. \A p, i : Indexed(p, i)' <=> Indexed(p, i)
    BY <1>1 DEF Indexed
  <2>3. \A i \in 1..l : i \in 1..(l + 1) /\ i # l + 1
    BY <1>6
  <2>4. ASSUME NEW p \in Profiles PROVE ColumnExact(p)'
    <3>1. ColumnExact(p) /\ index'[p] = index[p]
      BY <2>1, <1>1 DEF IndexExact
    <3> QED
      BY <3>1, <2>3, <1>6 DEF ColumnExact, l
  <2>5. ASSUME NEW i \in 1..Len(entries') PROVE PlaceKnown(i)'
    <3>1. i \in 1..l \/ i = l + 1
      BY <1>6
    <3>2. CASE i \in 1..l
      <4>1. PlaceKnown(i) /\ entries'[i].profile = entries[i].profile
        BY <3>2, <2>1, <1>6 DEF IndexExact, l
      <4>2. \A u \in Tasks : task[u].st = "index" => task'[u] = task[u]
        BY <1>1, <1>2
      <4>3. Indexed(entries[i].profile, i)' <=> Indexed(entries[i].profile, i)
        BY <4>1, <1>1 DEF Indexed
      <4> QED
        BY <4>1, <4>2, <4>3 DEF PlaceKnown
    <3>3. CASE i = l + 1
      BY <3>3, <1>2 DEF PlaceKnown
    <3> QED
      BY <3>1, <3>2, <3>3
  <2>6. ASSUME NEW u \in Tasks, task'[u].st = "index" PROVE PlaceDue(u)'
    <3>1. CASE u = t
      <4>1. \A p \in Profiles : ~Indexed(p, l + 1)
        BY <2>1, <2>3 DEF IndexExact, ColumnExact, Indexed, l
      <4>2. e.profile \in Profiles /\ l + 1 \in 1..(l + 1)
        BY <1>3, <1>6 DEF IsEntry
      <4> QED
        BY <3>1, <4>1, <4>2, <1>1, <1>2, <1>6 DEF PlaceDue, Indexed
    <3>2. CASE u # t
      <4>1. PlaceDue(u) /\ task'[u] = task[u]
        BY <3>2, <2>1, <2>6, <1>2 DEF IndexExact
      <4> QED
        BY <4>1, <2>3, <1>1, <1>6 DEF PlaceDue, Indexed, l
    <3> QED
      BY <3>1, <3>2
  <2>7. \A u \in Tasks : ~Removing(u)'
    BY <1>8
  <2> QED
    BY <2>4, <2>5, <2>6, <2>7 DEF IndexExact
<1> QED
  BY <1>7, <1>10, <1>11, <1>12, <1>13 DEF TimelineInv

(* append_batch(), second part. *)
LEMMA PushIndexStep ==
    ASSUME TimelineInv, NEW t \in Tasks, PushIndex(t)
    PROVE  TimelineInv'
<1>0. PICK p0 \in Profiles : p0 = task[t].entry.profile
  BY DEF TimelineInv, PendingInv, Pending, IsEntry, PushIndex
<1> DEFINE e == task[t].entry
           at == task[t].at
           col == index[p0]
<1>1. /\ task[t].st = "index" /\ drawn' = drawn /\ drawn \in Nat /\ entries' = entries
      /\ file' = file /\ marks' = marks
  BY DEF PushIndex, TimelineInv, TimelineTypes
<1>2. /\ task'[t] = [st |-> "save", acks |-> {e.id}, gone |-> {}]
      /\ \A u \in Tasks : u # t => task'[u] = task[u]
      /\ task' = [u \in Tasks |-> task'[u]]
  BY DEF PushIndex, TimelineInv, TimelineTypes
<1>3. /\ IsEntry(e) /\ e.id \in 1..drawn /\ e.id \notin marks.acked
      /\ e.id \in marks.removed \cup Ids(entries) /\ e.profile = p0
  BY <1>0, <1>1 DEF TimelineInv, PendingInv, Pending, IsEntry
<1>4. /\ index' = [q \in Profiles |-> index'[q]]
      /\ index'[p0] = Append(col, at) /\ \A q \in Profiles : q # p0 => index'[q] = index[q]
  BY <1>0 DEF PushIndex, TimelineInv, TimelineTypes
<1> HIDE DEF e, at, col
<1>5. task'[t].st = "save" /\ task'[t].acks = {e.id} /\ task'[t].gone = {}
  BY <1>2
<1>6. TimelineTypes'
  <2>1. \A u \in Tasks : task'[u].st \in {"idle", "built", "index", "rebuild", "store", "save", "writing"}
    BY <1>2 DEF TimelineInv, TimelineTypes
  <2>2. e.id \in Nat
    BY <1>3 DEF IsEntry
  <2>3. task'[t] \in SaveTasks
    BY <1>2, <2>2 DEF SaveTasks
  <2>4. \A u \in Tasks : task'[u].st \in {"save", "writing"} => task'[u] \in SaveTasks
    BY <1>2, <2>3 DEF TimelineInv, TimelineTypes, Saving
  <2> QED
    BY <1>1, <1>2, <1>4, <2>1, <2>4 DEF TimelineInv, TimelineTypes, Saving
<1>7. /\ \A u \in Tasks : Pending(u)' => u # t /\ Pending(u) /\ task'[u] = task[u]
      /\ \A u \in Tasks : Saving(u)' => u = t \/ (Saving(u) /\ task'[u] = task[u])
      /\ \A u \in Tasks : (Removing(u)' <=> Removing(u)) /\ (Removing(u) => task'[u] = task[u] /\ u # t)
      /\ Pending(t)
  BY <1>1, <1>2, <1>5 DEF Pending, Saving, Removing
<1>8. Ids(entries)' = Ids(entries) /\ Ids(file)' = Ids(file)
  BY <1>1 DEF Ids
<1>9. PendingInv'
  <2>1. \A u \in Tasks : Pending(u)' => task'[u].entry.id # e.id
    BY <1>7 DEF TimelineInv, PendingInv, e
  <2>2. ASSUME NEW u \in Tasks, Pending(u)'
        PROVE  /\ IsEntry(task'[u].entry) /\ task'[u].entry.id \in 1..drawn'
               /\ task'[u].entry.id \notin marks'.acked
               /\ task'[u].st = "built" => task'[u].entry.id \notin marks'.removed \cup Ids(entries)'
               /\ task'[u].st = "index" => task'[u].entry.id \in marks'.removed \cup Ids(entries)'
    BY <1>1, <1>7, <1>8, <2>2 DEF TimelineInv, PendingInv
  <2>3. ASSUME NEW u \in Tasks, NEW v \in Tasks, Pending(u)', Pending(v)', task'[u].entry.id = task'[v].entry.id PROVE u = v
    BY <1>7, <2>3 DEF TimelineInv, PendingInv
  <2>4. ASSUME NEW u \in Tasks, NEW v \in Tasks, Pending(u)', Saving(v)' PROVE task'[u].entry.id \notin task'[v].acks
    BY <1>5, <1>7, <2>1, <2>4 DEF TimelineInv, PendingInv
  <2> QED
    BY <2>2, <2>3, <2>4 DEF PendingInv
<1>10. SavingInv'
  <2>1. ASSUME NEW u \in Tasks, Saving(u)'
        PROVE  task'[u].acks \subseteq 1..drawn /\ task'[u].acks \subseteq marks.removed \cup Ids(entries)
    BY <2>1, <1>3, <1>5, <1>7 DEF TimelineInv, SavingInv
  <2>2. ASSUME NEW u \in Tasks, Saving(u)' \/ Removing(u)'
        PROVE  task'[u].gone \subseteq marks.removed /\ task'[u].gone \cap Ids(entries) = {}
    BY <2>2, <1>5, <1>7 DEF TimelineInv, SavingInv
  <2> QED
    BY <1>1, <1>8, <2>1, <2>2 DEF TimelineInv, SavingInv
<1>11. KeptInv'
  <2>1. (Holds(entries)' <=> Holds(entries)) /\ (Holds(file)' <=> Holds(file))
    BY <1>1, <1>8 DEF Holds
  <2>2. Writable' => Writable
    BY <1>1, <1>2 DEF Writable
  <2> QED
    BY <1>1, <2>1, <2>2 DEF TimelineInv, KeptInv
<1>12. IndexInv'
  <2> SUFFICES ASSUME ~marks.overlap PROVE IndexExact' /\ \A u \in Tasks : ~Removing(u)'
    BY <1>1 DEF IndexInv
  <2>1. ~ \E u \in Tasks : Removing(u) /\ Alone(u)
    BY <1>1, <1>7 DEF Alone, Unindexed
  <2>2. IndexExact /\ \A u \in Tasks : ~Removing(u)
    BY <2>1 DEF TimelineInv, IndexInv
  <2>3. ColumnExact(p0) /\ PlaceDue(t)
    BY <1>1, <1>3, <2>2 DEF IndexExact
  <2>4. /\ Len(col) \in Nat /\ col = [k \in 1..Len(col) |-> col[k]]
        /\ \A k \in 1..Len(col) : col[k] \in 1..Len(entries) /\ entries[col[k]].profile = p0
        /\ \A k, l \in 1..Len(col) : col[k] = col[l] => k = l
    BY <2>3 DEF ColumnExact, col
  <2>5. /\ at \in 1..Len(entries) /\ entries[at].id = e.id /\ entries[at].profile = p0
        /\ \A k \in 1..Len(col) : col[k] # at
    BY <2>3, <1>3 DEF PlaceDue, Indexed, at, col, e
  <2> DEFINE new == Append(col, at)
             l == Len(col)
  <2>6. /\ Len(new) = l + 1 /\ new[l + 1] = at
        /\ \A k \in 1..l : new[k] = col[k]
        /\ new = [k \in 1..(l + 1) |-> new[k]]
    BY <2>4, ListAppend
  <2> HIDE DEF new
  <2>7. \A k \in 1..(l + 1) : k \in 1..l \/ k = l + 1
    BY <2>4
  <2>8. \A k \in 1..l : k \in 1..(l + 1)
    BY <2>4
  <2>9. l + 1 \in 1..(l + 1) /\ l + 1 \in Nat
    BY <2>4
  <2>10. index'[p0] = new
    BY <1>4 DEF new
  <2>11. ColumnExact(p0)'
    <3>1. \A k \in 1..Len(new) : new[k] \in 1..Len(entries) /\ entries[new[k]].profile = p0
      BY <2>4, <2>5, <2>6, <2>7
    <3>2. ASSUME NEW j \in 1..Len(new), NEW k \in 1..Len(new), new[j] = new[k] PROVE j = k
      <4>1. (j \in 1..l \/ j = l + 1) /\ (k \in 1..l \/ k = l + 1)
        BY <2>6, <2>7
      <4>2. /\ j \in 1..l => new[j] = col[j] /\ col[j] # at
            /\ k \in 1..l => new[k] = col[k] /\ col[k] # at
        BY <2>5, <2>6
      <4> QED
        BY <3>2, <4>1, <4>2, <2>4, <2>6
    <3>3. Len(new) \in Nat /\ new = [k \in 1..Len(new) |-> new[k]]
      BY <2>6, <2>9
    <3> QED
      BY <1>1, <2>10, <3>1, <3>2, <3>3 DEF ColumnExact
  <2>12. ASSUME NEW q \in Profiles PROVE ColumnExact(q)'
    <3>1. CASE q = p0
      BY <3>1, <2>11
    <3>2. CASE q # p0
      <4>1. ColumnExact(q) /\ index'[q] = index[q]
        BY <3>2, <2>2, <1>4 DEF IndexExact
      <4> QED
        BY <4>1, <1>1 DEF ColumnExact
    <3> QED
      BY <3>1, <3>2
  <2>13. ASSUME NEW q \in Profiles, NEW i PROVE Indexed(q, i)' <=> (Indexed(q, i) \/ (q = p0 /\ i = at))
    <3>1. CASE q = p0
      <4>1. \A k \in 1..(l + 1) : new[k] = i => i = at \/ \E j \in 1..l : col[j] = i
        BY <2>6, <2>7
      <4>2. (\E k \in 1..(l + 1) : new[k] = i) <=> (i = at \/ \E j \in 1..l : col[j] = i)
        BY <4>1, <2>6, <2>8, <2>9
      <4>3. Indexed(q, i) <=> \E j \in 1..l : col[j] = i
        BY <3>1 DEF Indexed, col
      <4>4. Indexed(q, i)' <=> \E k \in 1..(l + 1) : new[k] = i
        BY <3>1, <2>6, <2>10 DEF Indexed
      <4> QED
        BY <3>1, <4>2, <4>3, <4>4
    <3>2. CASE q # p0
      BY <3>2, <1>4 DEF Indexed
    <3> QED
      BY <3>1, <3>2
  <2>14. ASSUME NEW i \in 1..Len(entries') PROVE PlaceKnown(i)'
    <3>1. PICK q \in Profiles : q = entries[i].profile /\ q = entries'[i].profile
      BY <1>1 DEF TimelineInv, TimelineTypes, EntryList, IsEntry
    <3>2. PlaceKnown(i)
      BY <1>1, <2>2 DEF IndexExact
    <3>3. PlaceKnown(i)' <=> (Indexed(q, i)' \/ \E u \in Tasks : task'[u].st = "index" /\ task'[u].at = i)
      BY <3>1 DEF PlaceKnown, Indexed
    <3>4. CASE Indexed(q, i)
      BY <3>3, <3>4, <2>13
    <3>5. ASSUME NEW u \in Tasks, task[u].st = "index", task[u].at = i PROVE PlaceKnown(i)'
      <4>1. CASE u = t
        <5>1. i = at /\ q = p0
          BY <3>1, <3>5, <4>1, <2>5 DEF at
        <5> QED
          BY <5>1, <3>3, <2>13
      <4>2. CASE u # t
        BY <3>5, <4>2, <3>3, <1>2
      <4> QED
        BY <4>1, <4>2
    <3> QED
      BY <3>1, <3>2, <3>4, <3>5 DEF PlaceKnown
  <2>15. ASSUME NEW u \in Tasks, task'[u].st = "index" PROVE PlaceDue(u)'
    <3>1. u # t /\ task'[u] = task[u] /\ task[u].st = "index"
      BY <2>15, <1>2, <1>5
    <3>2. PlaceDue(u)
      BY <3>1, <2>2 DEF IndexExact
    <3>3. PICK q \in Profiles : q = task[u].entry.profile
      BY <3>1 DEF TimelineInv, PendingInv, Pending, IsEntry
    <3>4. PICK i : i = task[u].at
      OBVIOUS
    <3>5. i # at
      <4>1. entries[i].id = task[u].entry.id
        BY <3>2, <3>4 DEF PlaceDue
      <4>2. task[u].entry.id # e.id
        BY <1>7, <3>1 DEF TimelineInv, PendingInv, Pending, e
      <4> QED
        BY <4>1, <4>2, <2>5
    <3>6. ~Indexed(q, i)'
      BY <3>2, <3>3, <3>4, <3>5, <2>13 DEF PlaceDue
    <3> QED
      BY <3>1, <3>2, <3>3, <3>4, <3>6, <1>1 DEF PlaceDue, Indexed
  <2> QED
    BY <2>2, <2>12, <2>14, <2>15, <1>7 DEF IndexExact
<1> QED
  BY <1>6, <1>9, <1>10, <1>11, <1>12 DEF TimelineInv

(* Nothing that the invariant speaks of changes. *)
LEMMA Unchanged ==
    ASSUME TimelineInv, entries' = entries, index' = index, file' = file, task' = task, drawn' = drawn, marks' = marks
    PROVE  TimelineInv'
<1>1. Ids(entries)' = Ids(entries) /\ Ids(file)' = Ids(file)
  BY DEF Ids
<1>2. \A u : (Pending(u)' <=> Pending(u)) /\ (Saving(u)' <=> Saving(u)) /\ (Removing(u)' <=> Removing(u))
  BY DEF Pending, Saving, Removing
<1>3. TimelineTypes'
  BY <1>2 DEF TimelineInv, TimelineTypes
<1>4. PendingInv' /\ SavingInv'
  BY <1>1, <1>2 DEF TimelineInv, PendingInv, SavingInv
<1>5. KeptInv'
  BY <1>1 DEF TimelineInv, KeptInv, Holds, Writable
<1>6. IndexInv'
  <2>1. DOMAIN entries = 1..Len(entries)
    BY DEF TimelineInv, TimelineTypes, EntryList
  <2> QED
    BY <2>1, IndexKept DEF TimelineInv
<1> QED
  BY <1>3, <1>4, <1>5, <1>6 DEF TimelineInv

(* delete() and prune(), first part. *)
LEMMA RetainStep ==
    ASSUME TimelineInv, NEW t \in Tasks, NEW kept, Retain(t, kept)
    PROVE  TimelineInv'
<1> DEFINE keep == {i \in DOMAIN entries : entries[i] \in kept}
           out == {entries[i].id : i \in DOMAIN entries \ keep}
<1>1. /\ task[t].st = "idle" /\ drawn' = drawn /\ drawn \in Nat /\ Writable
      /\ index' = index /\ file' = file
  BY DEF Retain, Busy, TimelineInv, TimelineTypes
<1>2. CASE out = {}
  BY <1>1, <1>2, Unchanged DEF Retain
<1>3. CASE out # {}
  <2>1. /\ entries' = Kept(entries, keep)
        /\ task' = [task EXCEPT ![t] = [st |-> "rebuild", gone |-> out]]
        /\ marks' = [marks EXCEPT !.removed = @ \cup out, !.overlap = @ \/ Unindexed # {}]
    BY <1>3 DEF Retain
  <2>2. DOMAIN entries = 1..Len(entries) /\ EntryList(entries, drawn)
    BY DEF TimelineInv, TimelineTypes, EntryList
  <2>3. keep \in SUBSET (1..Len(entries)) /\ out \subseteq 1..drawn
    BY <2>2 DEF EntryList
  <2> HIDE DEF keep
  <2>4. EntryList(entries', drawn) /\ Ids(entries') = {entries[i].id : i \in keep}
    BY <2>1, <2>2, <2>3, <1>1, KeptEntries
  <2>5. Ids(entries)' = Ids(entries')
    BY DEF Ids
  <2>6. Ids(entries') \cap out = {}
    BY <2>2, <2>3, <2>4 DEF EntryList
  <2>7. Ids(entries) = Ids(entries') \cup out
    <3>1. Ids(entries) = {entries[i].id : i \in 1..Len(entries)}
      BY DEF Ids
    <3>2. ASSUME NEW i \in 1..Len(entries) PROVE entries[i].id \in Ids(entries') \cup out
      BY <2>2, <2>4
    <3>3. ASSUME NEW i \in keep PROVE entries[i].id \in Ids(entries)
      BY <2>3, <3>1
    <3>4. ASSUME NEW i \in DOMAIN entries \ keep PROVE entries[i].id \in Ids(entries)
      BY <2>2, <3>1
    <3> QED
      BY <2>4, <3>1, <3>2, <3>3, <3>4
  <2> HIDE DEF out
  <2>8. /\ task'[t].st = "rebuild" /\ task'[t].gone = out
        /\ \A u \in Tasks : u # t => task'[u] = task[u]
        /\ task' = [u \in Tasks |-> task'[u]]
    BY <2>1 DEF TimelineInv, TimelineTypes
  <2>9. /\ marks'.acked = marks.acked /\ marks'.removed = marks.removed \cup out /\ marks'.gone = marks.gone
        /\ marks'.torn = marks.torn /\ (~marks'.overlap => ~marks.overlap /\ Unindexed = {})
        /\ marks' \in [acked : SUBSET (1..drawn), removed : SUBSET (1..drawn), gone : SUBSET (1..drawn),
                       overlap : BOOLEAN, torn : BOOLEAN]
    <3> DEFINE o == marks.overlap \/ Unindexed # {}
    <3>1. marks' = [marks EXCEPT !.removed = @ \cup out, !.overlap = o]
      BY <2>1
    <3>2. o \in BOOLEAN
      BY Zenon
    <3>3. ~o => ~marks.overlap /\ Unindexed = {}
      BY Zenon
    <3> HIDE DEF o
    <3>4. marks \in [acked : SUBSET (1..drawn), removed : SUBSET (1..drawn), gone : SUBSET (1..drawn),
                     overlap : BOOLEAN, torn : BOOLEAN]
      BY DEF TimelineInv, TimelineTypes
    <3>5. marks'.overlap = o
      BY <3>1, <3>4
    <3> QED
      BY <3>1, <3>2, <3>3, <3>4, <3>5, <2>3
  <2>10. TimelineTypes'
    <3>1. \A u \in Tasks : task'[u].st \in {"idle", "built", "index", "rebuild", "store", "save", "writing"}
      BY <2>8 DEF TimelineInv, TimelineTypes
    <3>2. \A u \in Tasks : task'[u].st \in {"save", "writing"} => task'[u] \in SaveTasks
      BY <2>8 DEF TimelineInv, TimelineTypes, Saving
    <3> QED
      BY <1>1, <2>4, <2>8, <2>9, <3>1, <3>2 DEF TimelineInv, TimelineTypes, Saving
  <2>11. /\ \A u \in Tasks : Pending(u)' => Pending(u) /\ task'[u] = task[u]
         /\ \A u \in Tasks : Saving(u)' => Saving(u) /\ task'[u] = task[u]
         /\ \A u \in Tasks : Removing(u)' => u = t \/ (Removing(u) /\ task'[u] = task[u])
    BY <2>8 DEF Pending, Saving, Removing
  <2>12. PendingInv'
    <3>1. ASSUME NEW u \in Tasks, Pending(u)'
          PROVE  /\ IsEntry(task'[u].entry) /\ task'[u].entry.id \in 1..drawn'
                 /\ task'[u].entry.id \notin marks'.acked
                 /\ task'[u].st = "built" => task'[u].entry.id \notin marks'.removed \cup Ids(entries)'
                 /\ task'[u].st = "index" => task'[u].entry.id \in marks'.removed \cup Ids(entries)'
      BY <1>1, <2>5, <2>7, <2>9, <2>11, <3>1 DEF TimelineInv, PendingInv
    <3> QED
      BY <3>1, <2>11 DEF TimelineInv, PendingInv
  <2>13. SavingInv'
    <3>1. ASSUME NEW u \in Tasks, Saving(u)'
          PROVE  task'[u].acks \subseteq 1..drawn' /\ task'[u].acks \subseteq marks'.removed \cup Ids(entries)'
      BY <1>1, <2>5, <2>7, <2>9, <2>11, <3>1 DEF TimelineInv, SavingInv
    <3>2. ASSUME NEW u \in Tasks, Saving(u)' \/ Removing(u)'
          PROVE  task'[u].gone \subseteq marks'.removed /\ task'[u].gone \cap Ids(entries)' = {}
      <4>1. CASE u = t
        BY <4>1, <2>5, <2>6, <2>8, <2>9
      <4>2. CASE u # t
        BY <4>2, <2>5, <2>7, <2>9, <2>11, <3>2 DEF TimelineInv, SavingInv
      <4> QED
        BY <4>1, <4>2
    <3> QED
      BY <3>1, <3>2, <2>9 DEF TimelineInv, SavingInv
  <2>14. KeptInv'
    <3>1. Ids(file)' = Ids(file)
      BY <1>1 DEF Ids
    <3>2. ASSUME Holds(entries) PROVE Holds(entries)'
      BY <3>2, <2>5, <2>7, <2>9 DEF Holds
    <3>3. ASSUME Holds(file) PROVE Holds(file)'
      BY <3>1, <3>3, <2>9 DEF Holds
    <3> QED
      BY <1>1, <2>9, <3>2, <3>3 DEF TimelineInv, KeptInv
  <2>15. IndexInv'
    <3> SUFFICES ASSUME Unindexed = {} PROVE Removing(t)' /\ Alone(t)'
      BY <2>9 DEF IndexInv
    <3>1. Unindexed' = {t}
      BY <2>8 DEF Unindexed
    <3> QED
      BY <2>8, <3>1 DEF Removing, Alone
  <2> QED
    BY <2>10, <2>12, <2>13, <2>14, <2>15 DEF TimelineInv
<1> QED
  BY <1>2, <1>3

(* Second part. *)
LEMMA RebuildStep ==
    ASSUME TimelineInv, NEW t \in Tasks, Rebuild(t)
    PROVE  TimelineInv'
<1>1. /\ task[t].st = "rebuild" /\ drawn' = drawn /\ entries' = entries /\ index' = index
      /\ file' = file /\ marks' = marks
  BY DEF Rebuild
<1>2. /\ task'[t].st = "store" /\ task'[t].gone = task[t].gone /\ task'[t].built = BuildIndex(entries)
      /\ \A u \in Tasks : u # t => task'[u] = task[u]
      /\ task' = [u \in Tasks |-> task'[u]]
  BY DEF Rebuild, TimelineInv, TimelineTypes
<1>3. Ids(entries)' = Ids(entries) /\ Ids(file)' = Ids(file)
  BY <1>1 DEF Ids
<1>4. /\ \A u \in Tasks : Pending(u)' => Pending(u) /\ task'[u] = task[u]
      /\ \A u \in Tasks : Saving(u)' => Saving(u) /\ task'[u] = task[u]
      /\ \A u \in Tasks : Removing(u)' => Removing(u) /\ task'[u].gone = task[u].gone
  BY <1>1, <1>2 DEF Pending, Saving, Removing
<1>5. TimelineTypes'
  <2>1. \A u \in Tasks : task'[u].st \in {"idle", "built", "index", "rebuild", "store", "save", "writing"}
    BY <1>2 DEF TimelineInv, TimelineTypes
  <2>2. \A u \in Tasks : Saving(u)' => task'[u] \in SaveTasks
    BY <1>4 DEF TimelineInv, TimelineTypes
  <2>3. \A u \in Tasks : task'[u].st = "store" => task'[u].built = [p \in Profiles |-> task'[u].built[p]]
    BY <1>2, BuiltIsIndex DEF TimelineInv, TimelineTypes
  <2> QED
    BY <1>1, <1>2, <2>1, <2>2, <2>3 DEF TimelineInv, TimelineTypes
<1>6. PendingInv'
  BY <1>1, <1>3, <1>4 DEF TimelineInv, PendingInv
<1>7. SavingInv'
  <2>1. ASSUME NEW u \in Tasks, Saving(u)' \/ Removing(u)'
        PROVE  task'[u].gone \subseteq marks'.removed /\ task'[u].gone \cap Ids(entries)' = {}
    <3>1. Saving(u) \/ Removing(u)
      BY <2>1, <1>4
    <3>2. task'[u].gone = task[u].gone
      BY <2>1, <1>4
    <3> QED
      BY <3>1, <3>2, <1>1, <1>3 DEF TimelineInv, SavingInv
  <2> QED
    BY <2>1, <1>1, <1>3, <1>4 DEF TimelineInv, SavingInv
<1>8. KeptInv'
  <2>1. (Holds(entries)' <=> Holds(entries)) /\ (Holds(file)' <=> Holds(file))
    BY <1>1, <1>3 DEF Holds
  <2>2. Writable' => Writable
    BY <1>1, <1>2 DEF Writable
  <2> QED
    BY <1>1, <2>1, <2>2 DEF TimelineInv, KeptInv
<1>9. IndexInv'
  <2> SUFFICES ASSUME ~marks.overlap PROVE Removing(t)' /\ Alone(t)'
    BY <1>1 DEF IndexInv
  <2>1. Removing(t) /\ t \in Unindexed
    BY <1>1 DEF Removing, Unindexed
  <2>2. Unindexed = {t}
    BY <2>1 DEF TimelineInv, IndexInv, Alone
  <2>3. Unindexed' = {t}
    BY <2>2, <1>2 DEF Unindexed
  <2> QED
    BY <2>3, <1>1, <1>2 DEF Removing, Alone
<1> QED
  BY <1>5, <1>6, <1>7, <1>8, <1>9 DEF TimelineInv

(* An index just built, with nobody on the way to it, is exact. *)
LEMMA FreshIndex ==
    ASSUME NEW n, EntryList(entries', n), index' = BuildIndex(entries'), \A u \in Tasks : task'[u].st # "index"
    PROVE  IndexExact'
<1>1. Len(entries') \in Nat /\ DOMAIN entries' = 1..Len(entries')
  BY DEF EntryList
<1>2. ASSUME NEW p \in Profiles
      PROVE  /\ ColumnExact(p)'
             /\ \A i \in 1..Len(entries') : entries'[i].profile = p => Indexed(p, i)'
  <2> DEFINE b == BuildIndex(entries')[p]
  <2>1. /\ Len(b) \in Nat /\ b = [k \in 1..Len(b) |-> b[k]]
        /\ \A k \in 1..Len(b) : b[k] \in 1..Len(entries') /\ entries'[b[k]].profile = p
        /\ \A k, l \in 1..Len(b) : b[k] = b[l] => k = l
        /\ \A i \in 1..Len(entries') : entries'[i].profile = p => \E k \in 1..Len(b) : b[k] = i
    BY <1>1, IndexBuilt
  <2>2. index'[p] = b
    OBVIOUS
  <2> HIDE DEF b
  <2> QED
    BY <2>1, <2>2 DEF ColumnExact, Indexed
<1>3. ASSUME NEW i \in 1..Len(entries') PROVE PlaceKnown(i)'
  <2>1. PICK p \in Profiles : p = entries'[i].profile
    BY DEF EntryList, IsEntry
  <2>2. Indexed(p, i)'
    BY <1>2, <2>1
  <2> QED
    BY <2>1, <2>2 DEF PlaceKnown, Indexed
<1> QED
  BY <1>2, <1>3 DEF IndexExact

(* Third part. *)
LEMMA StoreIndexStep ==
    ASSUME TimelineInv, NEW t \in Tasks, StoreIndex(t)
    PROVE  TimelineInv'
<1>1. /\ task[t].st = "store" /\ drawn' = drawn /\ entries' = entries /\ index' = task[t].built
      /\ file' = file /\ EntryList(entries, drawn)
  BY DEF StoreIndex, TimelineInv, TimelineTypes
<1>2. /\ task'[t] = [st |-> "save", acks |-> {}, gone |-> task[t].gone]
      /\ \A u \in Tasks : u # t => task'[u] = task[u]
      /\ task' = [u \in Tasks |-> task'[u]]
  BY DEF StoreIndex, TimelineInv, TimelineTypes
<1>3. task'[t].st = "save" /\ task'[t].acks = {} /\ task'[t].gone = task[t].gone
  BY <1>2
<1>4. /\ marks'.acked = marks.acked /\ marks'.removed = marks.removed /\ marks'.gone = marks.gone
      /\ marks'.torn = marks.torn
      /\ (~marks'.overlap => ~marks.overlap \/ (Unindexed = {t} /\ task[t].built = BuildIndex(entries)))
      /\ marks' \in [acked : SUBSET (1..drawn), removed : SUBSET (1..drawn), gone : SUBSET (1..drawn),
                     overlap : BOOLEAN, torn : BOOLEAN]
  <2> DEFINE o == marks.overlap /\ (Unindexed # {t} \/ task[t].built # BuildIndex(entries))
  <2>1. marks' = [marks EXCEPT !.overlap = o]
    BY DEF StoreIndex
  <2>2. o \in BOOLEAN
    BY Zenon
  <2>3. ~o => ~marks.overlap \/ (Unindexed = {t} /\ task[t].built = BuildIndex(entries))
    BY Zenon
  <2> HIDE DEF o
  <2>4. marks \in [acked : SUBSET (1..drawn), removed : SUBSET (1..drawn), gone : SUBSET (1..drawn),
                   overlap : BOOLEAN, torn : BOOLEAN]
    BY DEF TimelineInv, TimelineTypes
  <2>5. marks'.overlap = o
    BY <2>1, <2>4
  <2> QED
    BY <2>1, <2>2, <2>3, <2>4, <2>5
<1>5. Ids(entries)' = Ids(entries) /\ Ids(file)' = Ids(file)
  BY <1>1 DEF Ids
<1>6. /\ \A u \in Tasks : Pending(u)' => Pending(u) /\ task'[u] = task[u]
      /\ \A u \in Tasks : Saving(u)' => u = t \/ (Saving(u) /\ task'[u] = task[u])
      /\ \A u \in Tasks : Removing(u)' => u # t /\ Removing(u) /\ task'[u] = task[u]
      /\ Removing(t) /\ t \in Unindexed
  BY <1>1, <1>2, <1>3 DEF Pending, Saving, Removing, Unindexed
<1>7. task[t].gone \subseteq marks.removed /\ task[t].gone \cap Ids(entries) = {}
  BY <1>6 DEF TimelineInv, SavingInv
<1>8. index' = [p \in Profiles |-> index'[p]] /\ (~marks'.overlap => Unindexed = {t} /\ index' = BuildIndex(entries'))
  <2>1. ~marks.overlap => Unindexed = {t} /\ task[t].built = BuildIndex(entries)
    BY <1>1, <1>6 DEF TimelineInv, IndexInv, Alone
  <2>2. task[t].built = [p \in Profiles |-> task[t].built[p]]
    BY <1>1 DEF TimelineInv, TimelineTypes
  <2> QED
    BY <2>1, <2>2, <1>1, <1>4
<1>9. TimelineTypes'
  <2>1. \A u \in Tasks : task'[u].st \in {"idle", "built", "index", "rebuild", "store", "save", "writing"}
    BY <1>2, <1>3 DEF TimelineInv, TimelineTypes
  <2>2. task[t].gone \subseteq Nat
    BY <1>7 DEF TimelineInv, TimelineTypes
  <2>3. task'[t] \in SaveTasks
    BY <2>2, <1>2 DEF SaveTasks
  <2>4. \A u \in Tasks : Saving(u)' => task'[u] \in SaveTasks
    BY <2>3, <1>6 DEF TimelineInv, TimelineTypes
  <2>5. \A u \in Tasks : task'[u].st = "store" => task'[u].built = [p \in Profiles |-> task'[u].built[p]]
    BY <1>2, <1>3 DEF TimelineInv, TimelineTypes
  <2> QED
    BY <1>1, <1>2, <1>4, <1>8, <2>1, <2>4, <2>5 DEF TimelineInv, TimelineTypes
<1>10. PendingInv'
  <2>1. ASSUME NEW u \in Tasks, NEW v \in Tasks, Pending(u)', Saving(v)' PROVE task'[u].entry.id \notin task'[v].acks
    BY <2>1, <1>3, <1>6 DEF TimelineInv, PendingInv
  <2> QED
    BY <2>1, <1>1, <1>4, <1>5, <1>6 DEF TimelineInv, PendingInv
<1>11. SavingInv'
  <2>1. ASSUME NEW u \in Tasks, Saving(u)'
        PROVE  task'[u].acks \subseteq 1..drawn' /\ task'[u].acks \subseteq marks'.removed \cup Ids(entries)'
    BY <2>1, <1>1, <1>3, <1>4, <1>5, <1>6 DEF TimelineInv, SavingInv
  <2>2. ASSUME NEW u \in Tasks, Saving(u)' \/ Removing(u)'
        PROVE  task'[u].gone \subseteq marks'.removed /\ task'[u].gone \cap Ids(entries)' = {}
    <3>1. CASE u = t
      BY <3>1, <1>3, <1>4, <1>5, <1>7
    <3>2. CASE u # t
      BY <2>2, <3>2, <1>4, <1>5, <1>6 DEF TimelineInv, SavingInv
    <3> QED
      BY <3>1, <3>2
  <2> QED
    BY <2>1, <2>2, <1>4 DEF TimelineInv, SavingInv
<1>12. KeptInv'
  <2>1. (Holds(entries)' <=> Holds(entries)) /\ (Holds(file)' <=> Holds(file))
    BY <1>4, <1>5 DEF Holds
  <2>2. Writable' => Writable
    BY <1>1, <1>2 DEF Writable
  <2> QED
    BY <1>4, <2>1, <2>2 DEF TimelineInv, KeptInv
<1>13. IndexInv'
  <2> SUFFICES ASSUME ~marks'.overlap PROVE IndexExact' /\ \A u \in Tasks : ~Removing(u)'
    BY DEF IndexInv
  <2>1. \A u \in Tasks : task'[u].st \notin {"index", "rebuild", "store"}
    BY <1>2, <1>3, <1>8 DEF Unindexed
  <2>2. EntryList(entries', drawn) /\ index' = BuildIndex(entries')
    BY <1>1, <1>8
  <2> QED
    BY <2>1, <2>2, FreshIndex DEF Removing
<1> QED
  BY <1>9, <1>10, <1>11, <1>12, <1>13 DEF TimelineInv

(* update_notes(). *)
LEMMA UpdateNotesStep ==
    ASSUME TimelineInv, NEW t \in Tasks, UpdateNotes(t)
    PROVE  TimelineInv'
<1>1. /\ task[t].st = "idle" /\ drawn' = drawn /\ index' = index /\ file' = file /\ marks' = marks
      /\ EntryList(entries, drawn) /\ Writable
  BY DEF UpdateNotes, Busy, TimelineInv, TimelineTypes
<1>2. /\ task'[t] = [st |-> "save", acks |-> {}, gone |-> {}]
      /\ \A u \in Tasks : u # t => task'[u] = task[u]
      /\ task' = [u \in Tasks |-> task'[u]]
  BY DEF UpdateNotes, TimelineInv, TimelineTypes
<1>3. task'[t].st = "save" /\ task'[t].acks = {} /\ task'[t].gone = {}
  BY <1>2
<1>4. PICK i \in DOMAIN entries : entries' = [entries EXCEPT ![i].noted = TRUE]
  BY DEF UpdateNotes
<1> DEFINE l == Len(entries)
<1>5. l \in Nat /\ DOMAIN entries = 1..l /\ i \in 1..l
  BY <1>1 DEF EntryList
<1>6. /\ entries' = [j \in 1..l |-> entries'[j]] /\ Len(entries') = l
      /\ \A j \in 1..l : j # i => entries'[j] = entries[j]
      /\ entries'[i] = [entries[i] EXCEPT !.noted = TRUE]
  <2> HIDE DEF l
  <2>1. DOMAIN entries' = 1..l
    BY <1>4, <1>5
  <2>2. entries' = [j \in 1..l |-> entries'[j]]
    BY <1>4, <2>1
  <2>3. Len(entries') = l
    BY <2>2, <1>5
  <2>4. /\ \A j \in 1..l : j # i => entries'[j] = entries[j]
        /\ entries'[i] = [entries[i] EXCEPT !.noted = TRUE]
    BY <1>4, <1>5
  <2> QED
    BY <2>2, <2>3, <2>4
<1>7. \A j \in 1..l : IsEntry(entries[j])
  BY <1>1 DEF EntryList
<1>8. IsEntry(entries'[i]) /\ entries'[i].id = entries[i].id /\ entries'[i].profile = entries[i].profile
  <2>1. PICK e : e = entries[i]
    OBVIOUS
  <2>2. DOMAIN e = {"id", "profile", "kind", "script", "noted"} /\ e.id \in Nat /\ e.profile \in Profiles
    BY <2>1, <1>5, <1>7 DEF IsEntry
  <2>3. PICK f : f = [e EXCEPT !.noted = TRUE]
    OBVIOUS
  <2>4. f.id = e.id /\ f.profile = e.profile /\ DOMAIN f = DOMAIN e
    BY <2>2, <2>3
  <2>5. entries'[i] = f
    BY <1>6, <2>1, <2>3
  <2> QED
    BY <2>1, <2>2, <2>4, <2>5 DEF IsEntry
<1>9. \A j \in 1..l : IsEntry(entries'[j]) /\ entries'[j].id = entries[j].id /\ entries'[j].profile = entries[j].profile
  BY <1>6, <1>7, <1>8
<1>10. EntryList(entries', drawn)
  BY <1>1, <1>5, <1>6, <1>9 DEF EntryList
<1>11. Ids(entries)' = Ids(entries) /\ Ids(file)' = Ids(file)
  BY <1>1, <1>6, <1>9 DEF Ids
<1>12. /\ \A u \in Tasks : Pending(u)' => Pending(u) /\ task'[u] = task[u]
       /\ \A u \in Tasks : Saving(u)' => u = t \/ (Saving(u) /\ task'[u] = task[u])
       /\ \A u \in Tasks : Removing(u)' => Removing(u) /\ task'[u] = task[u]
  BY <1>2, <1>3 DEF Pending, Saving, Removing
<1>13. TimelineTypes'
  <2>1. \A u \in Tasks : task'[u].st \in {"idle", "built", "index", "rebuild", "store", "save", "writing"}
    BY <1>2, <1>3 DEF TimelineInv, TimelineTypes
  <2>2. task'[t] \in SaveTasks
    BY <1>2 DEF SaveTasks
  <2>3. \A u \in Tasks : Saving(u)' => task'[u] \in SaveTasks
    BY <2>2, <1>12 DEF TimelineInv, TimelineTypes
  <2>4. \A u \in Tasks : task'[u].st = "store" => task'[u].built = [p \in Profiles |-> task'[u].built[p]]
    BY <1>2, <1>3 DEF TimelineInv, TimelineTypes
  <2> QED
    BY <1>1, <1>2, <1>10, <2>1, <2>3, <2>4 DEF TimelineInv, TimelineTypes
<1>14. PendingInv'
  <2>1. ASSUME NEW u \in Tasks, NEW v \in Tasks, Pending(u)', Saving(v)' PROVE task'[u].entry.id \notin task'[v].acks
    BY <2>1, <1>3, <1>12 DEF TimelineInv, PendingInv
  <2> QED
    BY <2>1, <1>1, <1>11, <1>12 DEF TimelineInv, PendingInv
<1>15. SavingInv'
  <2>1. ASSUME NEW u \in Tasks, Saving(u)'
        PROVE  task'[u].acks \subseteq 1..drawn' /\ task'[u].acks \subseteq marks'.removed \cup Ids(entries)'
    BY <2>1, <1>1, <1>3, <1>11, <1>12 DEF TimelineInv, SavingInv
  <2>2. ASSUME NEW u \in Tasks, Saving(u)' \/ Removing(u)'
        PROVE  task'[u].gone \subseteq marks'.removed /\ task'[u].gone \cap Ids(entries)' = {}
    BY <2>2, <1>1, <1>3, <1>11, <1>12 DEF TimelineInv, SavingInv
  <2> QED
    BY <2>1, <2>2, <1>1 DEF TimelineInv, SavingInv
<1>16. KeptInv'
  <2>1. (Holds(entries)' <=> Holds(entries)) /\ (Holds(file)' <=> Holds(file))
    BY <1>1, <1>11 DEF Holds
  <2> QED
    BY <1>1, <2>1 DEF TimelineInv, KeptInv
<1>17. IndexInv'
  <2>1. \A u \in Tasks : \/ task'[u] = task[u]
                         \/ /\ task'[u].st \notin {"index", "rebuild", "store"}
                            /\ task[u].st \notin {"index", "rebuild", "store"}
    BY <1>1, <1>2, <1>3
  <2>2. DOMAIN entries' = 1..l /\ marks'.overlap = marks.overlap
    BY <1>1, <1>6
  <2> QED
    BY <1>1, <1>5, <1>6, <1>9, <2>1, <2>2, IndexKept DEF TimelineInv
<1> QED
  BY <1>13, <1>14, <1>15, <1>16, <1>17 DEF TimelineInv

(* save(), first part. *)
LEMMA SaveBeginStep ==
    ASSUME TimelineInv, NEW t \in Tasks, SaveBegin(t)
    PROVE  TimelineInv'
<1>1. /\ task[t].st = "save" /\ drawn' = drawn /\ drawn \in Nat /\ entries' = entries /\ index' = index
      /\ file' = <<>> /\ marks' = marks
  BY DEF SaveBegin, TimelineInv, TimelineTypes
<1>2. task[t] \in SaveTasks
  BY <1>1 DEF TimelineInv, TimelineTypes, Saving
<1>3. /\ task'[t] = [task[t] EXCEPT !.st = "writing"]
      /\ \A u \in Tasks : u # t => task'[u] = task[u]
      /\ task' = [u \in Tasks |-> task'[u]]
  BY DEF SaveBegin, TimelineInv, TimelineTypes
<1>4. /\ task'[t].st = "writing" /\ task'[t].acks = task[t].acks /\ task'[t].gone = task[t].gone
      /\ task'[t] \in SaveTasks
  BY <1>2, <1>3 DEF SaveTasks
<1>5. /\ \A u \in Tasks : Pending(u)' => Pending(u) /\ task'[u] = task[u]
      /\ \A u \in Tasks : Saving(u)' => /\ Saving(u) /\ task'[u].acks = task[u].acks
                                        /\ task'[u].gone = task[u].gone /\ task'[u] \in SaveTasks
      /\ \A u \in Tasks : Removing(u)' => Removing(u) /\ task'[u] = task[u]
  BY <1>1, <1>3, <1>4 DEF Pending, Saving, Removing, TimelineInv, TimelineTypes
<1>6. Ids(entries)' = Ids(entries)
  BY <1>1 DEF Ids
<1>7. TimelineTypes'
  <2>1. \A u \in Tasks : task'[u].st \in {"idle", "built", "index", "rebuild", "store", "save", "writing"}
    BY <1>3, <1>4 DEF TimelineInv, TimelineTypes
  <2>2. \A u \in Tasks : task'[u].st = "store" => task'[u].built = [p \in Profiles |-> task'[u].built[p]]
    <3>1. \A u \in Tasks : task'[u].st = "store" => task'[u] = task[u]
      BY <1>3, <1>4
    <3> QED
      BY <3>1 DEF TimelineInv, TimelineTypes
  <2>3. EntryList(file', drawn')
    BY <1>1, NoEntries
  <2> QED
    BY <1>1, <1>3, <1>5, <2>1, <2>2, <2>3 DEF TimelineInv, TimelineTypes
<1>8. PendingInv'
  BY <1>1, <1>5, <1>6 DEF TimelineInv, PendingInv
<1>9. SavingInv'
  <2>1. ASSUME NEW u \in Tasks, Saving(u)' \/ Removing(u)'
        PROVE  task'[u].gone \subseteq marks'.removed /\ task'[u].gone \cap Ids(entries)' = {}
    <3>1. Saving(u) \/ Removing(u)
      BY <2>1, <1>5
    <3>2. task'[u].gone = task[u].gone
      BY <2>1, <1>5
    <3> QED
      BY <3>1, <3>2, <1>1, <1>6 DEF TimelineInv, SavingInv
  <2> QED
    BY <2>1, <1>1, <1>5, <1>6 DEF TimelineInv, SavingInv
<1>10. KeptInv'
  <2>1. Holds(entries)' <=> Holds(entries)
    BY <1>1, <1>6 DEF Holds
  <2>2. ~Writable'
    BY <1>4 DEF Writable
  <2> QED
    BY <1>1, <2>1, <2>2 DEF TimelineInv, KeptInv
<1>11. IndexInv'
  <2>1. DOMAIN entries = 1..Len(entries)
    BY DEF TimelineInv, TimelineTypes, EntryList
  <2>2. \A u \in Tasks : \/ task'[u] = task[u]
                         \/ /\ task'[u].st \notin {"index", "rebuild", "store"}
                            /\ task[u].st \notin {"index", "rebuild", "store"}
    BY <1>1, <1>3, <1>4
  <2> QED
    BY <1>1, <2>1, <2>2, IndexKept DEF TimelineInv
<1> QED
  BY <1>7, <1>8, <1>9, <1>10, <1>11 DEF TimelineInv

(* save(), second part: the file is whole, or the error is dropped.  Either *)
(* way the operation is acknowledged.                                       *)
LEMMA Acknowledged ==
    ASSUME TimelineInv, NEW t \in Tasks, task[t].st = "writing",
           drawn' = drawn, entries' = entries, index' = index, EntryList(file', drawn),
           task' = [task EXCEPT ![t] = Idle],
           marks'.acked = marks.acked \cup task[t].acks, marks'.gone = marks.gone \cup task[t].gone,
           marks'.removed = marks.removed, marks'.overlap = marks.overlap,
           marks' \in [acked : SUBSET (1..drawn), removed : SUBSET (1..drawn), gone : SUBSET (1..drawn),
                       overlap : BOOLEAN, torn : BOOLEAN],
           ~marks'.torn => ~marks.torn /\ file' = entries
    PROVE  TimelineInv'
<1>1. /\ task'[t].st = "idle"
      /\ \A u \in Tasks : u # t => task'[u] = task[u]
      /\ task' = [u \in Tasks |-> task'[u]]
  BY DEF TimelineInv, TimelineTypes, Idle
<1>2. /\ \A u \in Tasks : Pending(u)' => Pending(u) /\ task'[u] = task[u]
      /\ \A u \in Tasks : Saving(u)' => Saving(u) /\ task'[u] = task[u]
      /\ \A u \in Tasks : Removing(u)' => Removing(u) /\ task'[u] = task[u]
      /\ Saving(t)
  BY <1>1 DEF Pending, Saving, Removing
<1>3. /\ task[t].acks \subseteq marks.removed \cup Ids(entries)
      /\ task[t].gone \subseteq marks.removed /\ task[t].gone \cap Ids(entries) = {}
  BY <1>2 DEF TimelineInv, SavingInv
<1>4. Ids(entries)' = Ids(entries)
  BY DEF Ids
<1>5. TimelineTypes'
  <2>1. \A u \in Tasks : task'[u].st \in {"idle", "built", "index", "rebuild", "store", "save", "writing"}
    BY <1>1 DEF TimelineInv, TimelineTypes
  <2>2. \A u \in Tasks : task'[u].st = "store" => task'[u].built = [p \in Profiles |-> task'[u].built[p]]
    <3>1. \A u \in Tasks : task'[u].st = "store" => task'[u] = task[u]
      BY <1>1
    <3> QED
      BY <3>1 DEF TimelineInv, TimelineTypes
  <2>3. \A u \in Tasks : Saving(u)' => task'[u] \in SaveTasks
    BY <1>2 DEF TimelineInv, TimelineTypes
  <2> QED
    BY <1>1, <2>1, <2>2, <2>3 DEF TimelineInv, TimelineTypes
<1>6. PendingInv'
  <2>1. ASSUME NEW u \in Tasks, Pending(u)'
        PROVE  /\ IsEntry(task'[u].entry) /\ task'[u].entry.id \in 1..drawn'
               /\ task'[u].entry.id \notin marks'.acked
               /\ task'[u].st = "built" => task'[u].entry.id \notin marks'.removed \cup Ids(entries)'
               /\ task'[u].st = "index" => task'[u].entry.id \in marks'.removed \cup Ids(entries)'
    <3>1. task[u].entry.id \notin task[t].acks
      BY <2>1, <1>2 DEF TimelineInv, PendingInv
    <3> QED
      BY <2>1, <3>1, <1>2, <1>4 DEF TimelineInv, PendingInv
  <2> QED
    BY <2>1, <1>2 DEF TimelineInv, PendingInv
<1>7. SavingInv'
  BY <1>2, <1>3, <1>4 DEF TimelineInv, SavingInv
<1>8. KeptInv'
  <2> SUFFICES ASSUME ~marks.torn, file' = entries PROVE Holds(entries)' /\ Holds(file)'
    BY DEF KeptInv
  <2>1. Holds(entries)
    BY DEF TimelineInv, KeptInv
  <2>2. Holds(entries)'
    BY <2>1, <1>3, <1>4 DEF Holds
  <2>3. Ids(file)' = Ids(entries)'
    BY DEF Ids
  <2> QED
    BY <2>2, <2>3 DEF Holds
<1>9. IndexInv'
  <2>1. DOMAIN entries = 1..Len(entries)
    BY DEF TimelineInv, TimelineTypes, EntryList
  <2>2. \A u \in Tasks : \/ task'[u] = task[u]
                         \/ /\ task'[u].st \notin {"index", "rebuild", "store"}
                            /\ task[u].st \notin {"index", "rebuild", "store"}
    BY <1>1
  <2> QED
    BY <2>1, <2>2, IndexKept DEF TimelineInv
<1> QED
  BY <1>5, <1>6, <1>7, <1>8, <1>9 DEF TimelineInv

LEMMA SaveEndStep ==
    ASSUME TimelineInv, NEW t \in Tasks, SaveEnd(t) \/ SaveFails(t)
    PROVE  TimelineInv'
<1>1. /\ task[t].st = "writing" /\ drawn' = drawn /\ drawn \in Nat /\ entries' = entries /\ index' = index
      /\ task' = [task EXCEPT ![t] = Idle] /\ EntryList(entries, drawn)
  BY DEF SaveEnd, SaveFails, Acknowledge, TimelineInv, TimelineTypes
<1>2. marks \in [acked : SUBSET (1..drawn), removed : SUBSET (1..drawn), gone : SUBSET (1..drawn),
                 overlap : BOOLEAN, torn : BOOLEAN]
  BY DEF TimelineInv, TimelineTypes
<1>3. task[t].acks \subseteq 1..drawn /\ task[t].gone \subseteq 1..drawn
  BY <1>1, <1>2 DEF TimelineInv, SavingInv, Saving
<1>4. CASE SaveEnd(t)
  <2>1. file' = entries /\ marks' = [marks EXCEPT !.acked = @ \cup task[t].acks, !.gone = @ \cup task[t].gone]
    BY <1>4 DEF SaveEnd, Acknowledge
  <2>2. /\ marks'.acked = marks.acked \cup task[t].acks /\ marks'.gone = marks.gone \cup task[t].gone
        /\ marks'.removed = marks.removed /\ marks'.overlap = marks.overlap /\ marks'.torn = marks.torn
        /\ marks' \in [acked : SUBSET (1..drawn), removed : SUBSET (1..drawn), gone : SUBSET (1..drawn),
                       overlap : BOOLEAN, torn : BOOLEAN]
    BY <1>2, <1>3, <2>1
  <2> QED
    BY <1>1, <2>1, <2>2, Acknowledged
<1>5. CASE SaveFails(t)
  <2>1. /\ file' \in Prefixes(entries)
        /\ marks' = [marks EXCEPT !.acked = @ \cup task[t].acks, !.gone = @ \cup task[t].gone, !.torn = TRUE]
    BY <1>5 DEF SaveFails
  <2>2. EntryList(file', drawn)
    BY <1>1, <2>1, PrefixEntries
  <2>3. /\ marks'.acked = marks.acked \cup task[t].acks /\ marks'.gone = marks.gone \cup task[t].gone
        /\ marks'.removed = marks.removed /\ marks'.overlap = marks.overlap /\ marks'.torn = TRUE
        /\ marks' \in [acked : SUBSET (1..drawn), removed : SUBSET (1..drawn), gone : SUBSET (1..drawn),
                       overlap : BOOLEAN, torn : BOOLEAN]
    BY <1>2, <1>3, <2>1
  <2>4. ~marks'.torn => ~marks.torn /\ file' = entries
    BY <2>3
  <2> QED
    BY <1>1, <2>2, <2>3, <2>4, Acknowledged
<1> QED
  BY <1>4, <1>5

(* with_path(): the application starts again with the lines there are. *)
LEMMA RestartStep ==
    ASSUME TimelineInv, Restart
    PROVE  TimelineInv'
<1>1. /\ drawn' = drawn /\ drawn \in Nat /\ entries' = file' /\ index' = BuildIndex(entries')
      /\ task' = [t \in Tasks |-> Idle] /\ (Writable => file' = file)
  BY DEF Restart, TimelineInv, TimelineTypes
<1>2. EntryList(file', drawn)
  <2>1. EntryList(entries, drawn) /\ EntryList(file, drawn)
    BY DEF TimelineInv, TimelineTypes
  <2>2. CASE Writable
    BY <1>1, <2>1, <2>2
  <2>3. CASE ~Writable
    BY <1>1, <2>1, <2>3, PrefixEntries DEF Restart
  <2> QED
    BY <2>2, <2>3
<1>3. \A t \in Tasks : task'[t].st = "idle"
  BY <1>1 DEF Idle
<1>4. /\ marks'.acked = marks.acked /\ marks'.removed = marks.removed /\ marks'.gone = marks.gone
      /\ (~marks'.torn => ~marks.torn /\ Writable)
      /\ marks' \in [acked : SUBSET (1..drawn), removed : SUBSET (1..drawn), gone : SUBSET (1..drawn),
                     overlap : BOOLEAN, torn : BOOLEAN]
  <2> DEFINE o == marks.torn \/ ~Writable
  <2>1. marks' = [marks EXCEPT !.overlap = FALSE, !.torn = o]
    BY DEF Restart
  <2>2. o \in BOOLEAN
    BY Zenon
  <2>3. ~o => ~marks.torn /\ Writable
    BY Zenon
  <2> HIDE DEF o
  <2>4. marks \in [acked : SUBSET (1..drawn), removed : SUBSET (1..drawn), gone : SUBSET (1..drawn),
                   overlap : BOOLEAN, torn : BOOLEAN]
    BY DEF TimelineInv, TimelineTypes
  <2>5. marks'.torn = o
    BY <2>1, <2>4
  <2> QED
    BY <2>1, <2>2, <2>3, <2>4, <2>5
<1>5. \A u \in Tasks : ~Pending(u)' /\ ~Saving(u)' /\ ~Removing(u)'
  BY <1>3 DEF Pending, Saving, Removing
<1>6. TimelineTypes'
  <2>1. index' = [p \in Profiles |-> index'[p]]
    BY <1>1, BuiltIsIndex
  <2>2. task' = [t \in Tasks |-> task'[t]]
    BY <1>1
  <2> QED
    BY <1>1, <1>2, <1>3, <1>4, <1>5, <2>1, <2>2 DEF TimelineTypes
<1>7. PendingInv'
  BY <1>5 DEF PendingInv
<1>8. SavingInv'
  BY <1>4, <1>5 DEF SavingInv, TimelineInv
<1>9. KeptInv'
  <2> SUFFICES ASSUME ~marks.torn, Writable PROVE Holds(entries)' /\ Holds(file)'
    BY <1>4 DEF KeptInv
  <2>1. Ids(entries)' = Ids(file) /\ Ids(file)' = Ids(file)
    BY <1>1 DEF Ids
  <2>2. Holds(file)
    BY DEF TimelineInv, KeptInv
  <2> QED
    BY <1>4, <2>1, <2>2 DEF Holds
<1>10. IndexInv'
  <2>1. IndexExact'
    BY <1>1, <1>2, <1>3, FreshIndex
  <2> QED
    BY <1>5, <2>1 DEF IndexInv
<1> QED
  BY <1>6, <1>7, <1>8, <1>9, <1>10 DEF TimelineInv

LEMMA TimelineStarts ==
    ASSUME TimelineInit
    PROVE  TimelineInv
<1>1. \A t \in Tasks : task[t].st = "idle"
  BY DEF TimelineInit, Idle
<1>2. \A u \in Tasks : ~Pending(u) /\ ~Saving(u) /\ ~Removing(u)
  BY <1>1 DEF Pending, Saving, Removing
<1>3. /\ drawn = 0 /\ entries = <<>> /\ file = <<>> /\ Len(entries) = 0 /\ Ids(entries) = {} /\ Ids(file) = {}
      /\ EntryList(entries, 0) /\ EntryList(file, 0)
  BY NoEntries DEF TimelineInit
<1>4. /\ marks \in [acked : SUBSET (1..drawn), removed : SUBSET (1..drawn), gone : SUBSET (1..drawn),
                    overlap : BOOLEAN, torn : BOOLEAN]
      /\ marks.acked = {} /\ marks.gone = {} /\ marks.removed = {}
  BY DEF TimelineInit, MarksInit
<1>5. TimelineTypes
  BY <1>1, <1>2, <1>3, <1>4 DEF TimelineInit, TimelineTypes
<1>6. PendingInv /\ SavingInv /\ KeptInv
  BY <1>2, <1>3, <1>4 DEF PendingInv, SavingInv, KeptInv, Holds
<1>7. IndexExact
  <2>1. \A p \in Profiles : index[p] = <<>>
    BY DEF TimelineInit
  <2>2. \A p \in Profiles : ColumnExact(p)
    BY <2>1 DEF ColumnExact
  <2> QED
    BY <1>1, <1>3, <2>2 DEF IndexExact
<1> QED
  BY <1>2, <1>5, <1>6, <1>7 DEF TimelineInv, IndexInv

LEMMA TimelineSteps ==
    ASSUME TimelineInv, TimelineNext
    PROVE  TimelineInv'
<1>1. ASSUME NEW t \in Tasks, TaskNext(t) PROVE TimelineInv'
  BY <1>1, PushStep, PushIndexStep, RebuildStep, StoreIndexStep, SaveBeginStep, SaveEndStep, Zenon DEF TaskNext
<1>2. ASSUME NEW t \in Tasks, Record(t) PROVE TimelineInv'
  BY <1>2, BuildEntryStep, Zenon DEF Record, RecordRead, RecordSchema, RecordBulk, RecordWrite
<1>3. ASSUME NEW t \in Tasks, Delete(t) \/ Prune(t) PROVE TimelineInv'
  BY <1>3, RetainStep, Zenon DEF Delete, Prune
<1> QED
  BY <1>1, <1>2, <1>3, UpdateNotesStep, RestartStep, Zenon DEF TimelineNext

LEMMA SafeChangeSteps ==
    ASSUME TimelineInv, [Next]_vars
    PROVE  TimelineInv'
<1>1. ASSUME UNCHANGED tlVars PROVE TimelineInv'
  BY <1>1, Unchanged DEF tlVars
<1>2. ASSUME NEW t \in Tasks, NEW p \in Profiles, Execute(t, p) PROVE TimelineInv'
  <2>1. UNCHANGED tlVars \/ RecordWrite(t, p, preview.req.kind, preview.plan)
    BY <1>2, Zenon DEF Execute
  <2> QED
    BY <2>1, <1>1, BuildEntryStep, Zenon DEF RecordWrite
<1>3. CASE UNCHANGED vars
  BY <1>1, <1>3 DEF vars
<1>4. CASE Next
  BY <1>1, <1>2, <1>4, TimelineSteps, Zenon
     DEF Next, PreviewCount, PreviewFind, Dismiss, OtherWrite, ExecuteFails, ExecuteRollback
<1> QED
  BY <1>3, <1>4

LEMMA TimelineInvKeeps ==
    ASSUME TimelineInv
    PROVE  TimelineKept
<1>1. ListExact
  <2> SUFFICES ASSUME ~marks.overlap, \A t \in Tasks : ~Removing(t), NEW p \in Profiles
               PROVE  LET shown == List(p) IN
                      /\ ToSet(shown) \subseteq {e \in ToSet(entries) : e.profile = p}
                      /\ \A e \in ToSet(entries) : e.profile = p /\ e.id \in marks.acked => e \in ToSet(shown)
                      /\ \A i, j \in DOMAIN shown : i < j => shown[i].id > shown[j].id
    BY Zenon DEF ListExact
  <2>1. IndexExact /\ EntryList(entries, drawn)
    BY DEF TimelineInv, IndexInv, TimelineTypes
  <2>2. LET shown == List(p) IN
        /\ ToSet(shown) \subseteq {e \in ToSet(entries) : e.profile = p}
        /\ \A i \in 1..Len(entries) : Indexed(p, i) => entries[i] \in ToSet(shown)
        /\ \A i, j \in DOMAIN shown : i < j => shown[i].id > shown[j].id
    BY <2>1, ListsExactly
  <2>3. ASSUME NEW e \in ToSet(entries), e.profile = p, e.id \in marks.acked PROVE e \in ToSet(List(p))
    <3>1. PICK i \in 1..Len(entries) : entries[i] = e
      BY <2>1 DEF ToSet, EntryList
    <3>2. PlaceKnown(i)
      BY <2>1, <3>1 DEF IndexExact
    <3>3. ASSUME NEW t \in Tasks, task[t].st = "index", task[t].at = i PROVE FALSE
      <4>1. Pending(t) /\ PlaceDue(t)
        BY <2>1, <3>3 DEF Pending, IndexExact
      <4>2. task[t].entry.id = e.id
        BY <3>1, <3>3, <4>1 DEF PlaceDue
      <4> QED
        BY <2>3, <4>1, <4>2 DEF TimelineInv, PendingInv
    <3>4. Indexed(p, i)
      BY <2>3, <3>1, <3>2, <3>3 DEF PlaceKnown
    <3> QED
      BY <2>2, <3>1, <3>4
  <2> QED
    BY <2>2, <2>3
<1>2. RestartRestoresAcked
  <2>1. {e.id : e \in ToSet(entries)} = Ids(entries)
    BY DEF ToSet, Ids, TimelineInv, TimelineTypes, EntryList
  <2> QED
    BY <2>1 DEF RestartRestoresAcked, TimelineInv, KeptInv, Holds
<1> QED
  BY <1>1, <1>2 DEF TimelineKept

(* The timeline shows each profile its own entries and keeps what it       *)
(* acknowledged over every interleaving of recordings, removals, notes,    *)
(* saves and restarts (timeline_store.rs), beside any number of safe       *)
(* changes.                                                                *)
THEOREM TimelineAlwaysKept == Spec => []TimelineKept
<1>1. Init => TimelineInv
  BY TimelineStarts DEF Init
<1>2. TimelineInv /\ [Next]_vars => TimelineInv'
  BY SafeChangeSteps
<1>3. TimelineInv => TimelineKept
  BY TimelineInvKeeps
<1> QED
  BY <1>1, <1>2, <1>3, PTL DEF Spec

-----------------------------------------------------------------------------
(* What updates and their inverses do to a document *)

(* Apart from the operators that are warned of or misread, an operator     *)
(* that is not refused by the simulation has the server's result.          *)
LEMMA SameResult ==
    ASSUME NEW op \in UpdateOps, NEW v \in Values, op \notin {"$bit", "$push each", "$pull if"},
           SimulatedValue(op, v) # "error", ServerValue(op, v) # "error"
    PROVE  SimulatedValue(op, v) = ServerValue(op, v)
<1>0. DOMAIN Plus = {"missing", "n0", "n1", "wide"}
  BY DEF Plus
<1>1. CASE op \in {"$set", "$unset", "$rename"}
  BY <1>1 DEF ServerValue, SimulatedValue
<1>3. CASE op = "$inc"
  BY <1>0, <1>3 DEF ServerValue, SimulatedValue, Values
<1>4. CASE op = "$mul"
  BY <1>4 DEF ServerValue, SimulatedValue, Values, Numbers
<1>5. CASE op \in {"$push", "$addToSet"}
  BY <1>5 DEF ServerValue, SimulatedValue
<1>6. CASE op = "$pull"
  BY <1>6 DEF ServerValue, SimulatedValue, Values
<1> QED
  BY <1>1, <1>3, <1>4, <1>5, <1>6 DEF UpdateOps

LEMMA ServerTyped ==
    ASSUME NEW op \in UpdateOps, NEW v \in Values, ServerValue(op, v) # "error"
    PROVE  /\ ServerValue(op, v) \in Values
           /\ op \notin Creating /\ v = "missing" => ServerValue(op, v) = "missing"
<1>0. /\ DOMAIN Plus = {"missing", "n0", "n1", "wide"}
      /\ \A u \in DOMAIN Plus : Plus[u] \in {"n1", "n2", "wide"}
  BY DEF Plus
<1>1. CASE op \in {"$set", "$unset", "$rename"}
  BY <1>1 DEF ServerValue, Values, Creating
<1>2. CASE op = "$inc"
  BY <1>0, <1>2 DEF ServerValue, Values, Creating
<1>3. CASE op = "$mul"
  BY <1>3 DEF ServerValue, Values, Creating
<1>4. CASE op \in {"$push", "$addToSet", "$push each"}
  BY <1>4 DEF ServerValue, Values, Creating, WithElement
<1>5. CASE op \in {"$pull", "$pull if"}
  BY <1>5 DEF ServerValue, Values
<1>6. CASE op = "$bit"
  BY <1>6 DEF ServerValue, Values, Numbers
<1> QED
  BY <1>1, <1>2, <1>3, <1>4, <1>5, <1>6 DEF UpdateOps

LEMMA NoDocIsNone == \A d \in Documents : d # NoDoc
BY DEF Documents, NoDoc, AllFields, Values

(* What an update leaves at each path. *)
MovedFrom(moved) == CHOOSE g \in moved : TRUE
At(update, d, new, moved, f, r) ==
    /\ f \in moved => r = "missing"
    /\ f \in DOMAIN update \ moved => r = IF f = "p.x" /\ Creates(update) /\ Blocked(d) THEN "error" ELSE new[f]
    /\ f = "p" => r = IF Creates(update) /\ d[f] = "missing" THEN "{}" ELSE d[f]
    /\ f = NewName /\ moved # {} => r = d[MovedFrom(moved)]
    /\ f \notin DOMAIN update /\ f # "p" /\ (f = NewName => moved = {}) => r = d[f]
LEMMA ChangedAt ==
    ASSUME NEW update, IsUpdate(update), NEW d, NEW new, NEW moved \in SUBSET DOMAIN update, NEW f \in AllFields
    PROVE  At(update, d, new, moved, f, Changed(update, d, new, moved)[f])
<1> USE DEF At, MovedFrom
<1>1. DOMAIN update \subseteq {"a", "b", "p.x"}
  BY DEF IsUpdate, Paths
<1>2. Changed(update, d, new, moved)[f] =
        CASE f \in moved -> "missing"
          [] f \in DOMAIN update \ moved -> IF f = "p.x" /\ Creates(update) /\ Blocked(d) THEN "error" ELSE new[f]
          [] f = "p" -> IF Creates(update) /\ d[f] = "missing" THEN "{}" ELSE d[f]
          [] f = NewName /\ moved # {} -> d[CHOOSE g \in moved : TRUE]
          [] OTHER -> d[f]
  BY DEF Changed
<1>3. CASE f \in moved
  BY <1>1, <1>2, <1>3 DEF NewName
<1>4. CASE f \in DOMAIN update \ moved
  BY <1>1, <1>2, <1>4 DEF NewName
<1>5. CASE f \notin DOMAIN update /\ f = "p"
  BY <1>2, <1>5 DEF NewName
<1>6. CASE f \notin DOMAIN update /\ f = NewName /\ moved # {}
  BY <1>2, <1>6 DEF NewName
<1>7. CASE f \notin DOMAIN update /\ f # "p" /\ ~(f = NewName /\ moved # {})
  BY <1>2, <1>7
<1> QED
  BY <1>1, <1>3, <1>4, <1>5, <1>6, <1>7

LEMMA UpdatedDocument ==
    ASSUME NEW update, IsUpdate(update), NEW d \in Documents, ~Refused(ServerUpdate(update, d))
    PROVE  ServerUpdate(update, d) \in Documents
<1> DEFINE vals == [f \in DOMAIN update |-> ServerValue(update[f], d[f])]
           moved == Moved(update, d, Paths)
           new == ServerUpdate(update, d)
<1>1. moved \in SUBSET DOMAIN update /\ new = Changed(update, d, vals, moved) /\ DOMAIN update \subseteq AllFields
  BY DEF Moved, ServerUpdate, IsUpdate, AllFields
<1>2. \A f \in AllFields : d[f] \in Values /\ new[f] # "error"
  BY DEF Refused, Documents
<1>3. \A f \in DOMAIN update : vals[f] = ServerValue(update[f], d[f]) /\ update[f] \in UpdateOps
  BY DEF IsUpdate
<1>4. \A f \in moved : update[f] = "$rename"
  BY DEF Moved
<1> HIDE DEF vals, moved, new
<1>a. \A f \in AllFields : At(update, d, vals, moved, f, new[f])
  BY <1>1, ChangedAt, Zenon
<1>5. ASSUME NEW f \in AllFields PROVE new[f] \in Values
  <2>1. CASE f \in moved
    BY <1>a, <1>1, <2>1 DEF At, Values
  <2>2. CASE f \in DOMAIN update \ moved
    <3>1. new[f] = vals[f]
      BY <1>a, <1>1, <1>2, <2>2 DEF At
    <3> QED
      BY <1>2, <1>3, <2>2, <3>1, ServerTyped
  <2>3. CASE f = "p"
    BY <1>a, <1>1, <1>2, <2>3 DEF At, Values
  <2>4. CASE f = NewName /\ moved # {}
    <3>1. PICK g \in moved : g = MovedFrom(moved)
      BY <2>4 DEF MovedFrom
    <3>2. new[f] = d[g]
      BY <1>a, <1>1, <2>4, <3>1 DEF At
    <3> QED
      BY <1>1, <1>2, <3>2
  <2>5. CASE f \notin DOMAIN update /\ f # "p" /\ ~(f = NewName /\ moved # {})
    BY <1>a, <1>1, <1>2, <2>5 DEF At
  <2> QED
    BY <1>1, <2>1, <2>2, <2>3, <2>4, <2>5
<1>6. ASSUME new["p.x"] # "missing" PROVE new["p"] = "{}"
  <2>0. "p" \in AllFields /\ "p.x" \in AllFields /\ "p.x" # NewName /\ "p.x" # "p"
    BY DEF AllFields, Paths, NewName
  <2>1. new["p"] = IF Creates(update) /\ d["p"] = "missing" THEN "{}" ELSE d["p"]
    BY <1>a, <1>1, <2>0 DEF At
  <2>2. d["p.x"] # "missing" => d["p"] = "{}"
    BY DEF Documents
  <2>3. CASE "p.x" \notin DOMAIN update
    <3>1. new["p.x"] = d["p.x"] /\ ~Creates(update)
      BY <1>a, <1>1, <2>0, <2>3 DEF At, Creates
    <3> QED
      BY <1>6, <2>1, <2>2, <3>1
  <2>4. CASE "p.x" \in DOMAIN update
    <3>1. "p.x" \notin moved
      BY <1>a, <1>1, <1>6, <2>0 DEF At
    <3>2. new["p.x"] = IF Creates(update) /\ Blocked(d) THEN "error" ELSE vals["p.x"]
      BY <1>a, <1>1, <2>0, <2>4, <3>1 DEF At
    <3>3. ~(Creates(update) /\ Blocked(d)) /\ vals["p.x"] = new["p.x"]
      BY <1>2, <2>0, <3>2
    <3>4. CASE Creates(update)
      BY <2>1, <3>3, <3>4 DEF Blocked
    <3>5. CASE ~Creates(update)
      <4>1. update["p.x"] \notin Creating
        BY <2>4, <3>5 DEF Creates
      <4>2. d["p.x"] # "missing"
        BY <1>2, <1>3, <1>6, <2>0, <2>4, <3>3, <4>1, ServerTyped
      <4> QED
        BY <2>1, <2>2, <3>5, <4>2
    <3> QED
      BY <3>4, <3>5
  <2> QED
    BY <2>3, <2>4
<1>7. new \in [AllFields -> Values]
  BY <1>5 DEF new, ServerUpdate, Changed
<1> QED
  BY <1>6, <1>7 DEF Documents, new

(* Where the document is changed as the preview showed it. *)
LEMMA SimulationTells ==
    ASSUME NEW update, IsUpdate(update), NEW d \in Documents,
           ~Refused(ServerUpdate(update, d)), ~Refused(Simulate(update, d)),
           Misread(update) \cup Warned(update) = {}
    PROVE  Simulate(update, d) = ServerUpdate(update, d)
<1> DEFINE sim == [f \in DOMAIN update |-> SimulatedValue(update[f], d[f])]
           srv == [f \in DOMAIN update |-> ServerValue(update[f], d[f])]
           moved == Moved(update, d, Paths)
<1>1. Moved(update, d, TopLevel) = moved
  BY DEF Moved, Misread, TopLevel, Paths, IsUpdate
<1>2. /\ Simulate(update, d) = Changed(update, d, sim, moved) /\ ServerUpdate(update, d) = Changed(update, d, srv, moved)
      /\ moved \in SUBSET DOMAIN update /\ DOMAIN update \subseteq AllFields
  BY <1>1 DEF Simulate, ServerUpdate, Moved, IsUpdate, AllFields
<1>a. \A f \in AllFields : /\ At(update, d, sim, moved, f, Changed(update, d, sim, moved)[f])
                            /\ At(update, d, srv, moved, f, Changed(update, d, srv, moved)[f])
  <2> HIDE DEF sim, srv, moved
  <2> QED
    BY <1>2, ChangedAt, Zenon
<1>3. ASSUME NEW f \in DOMAIN update, f \notin moved, ~(f = "p.x" /\ Creates(update) /\ Blocked(d))
      PROVE  sim[f] = srv[f]
  <2>1. /\ Simulate(update, d)[f] = sim[f] /\ ServerUpdate(update, d)[f] = srv[f]
    <3> HIDE DEF sim, srv, moved
    <3> QED
      BY <1>a, <1>2, <1>3 DEF At
  <2>2. sim[f] # "error" /\ srv[f] # "error"
    BY <1>2, <2>1 DEF Refused
  <2>3. d[f] \in Values /\ update[f] \in UpdateOps /\ update[f] \notin {"$bit", "$push each", "$pull if"}
    BY <1>2 DEF Documents, IsUpdate, Misread, Warned
  <2> QED
    BY <2>2, <2>3, SameResult
<1> HIDE DEF sim, srv, moved
<1>4. Changed(update, d, sim, moved) = Changed(update, d, srv, moved)
  <2>1. ASSUME NEW f \in AllFields PROVE Changed(update, d, sim, moved)[f] = Changed(update, d, srv, moved)[f]
    <3>a. PICK x, y : /\ x = Changed(update, d, sim, moved)[f] /\ y = Changed(update, d, srv, moved)[f]
                      /\ At(update, d, sim, moved, f, x) /\ At(update, d, srv, moved, f, y)
      BY <1>a
    <3>1. CASE f \in DOMAIN update \ moved
      <4>1. CASE f = "p.x" /\ Creates(update) /\ Blocked(d)
        BY <3>a, <3>1, <4>1 DEF At
      <4>2. CASE ~(f = "p.x" /\ Creates(update) /\ Blocked(d))
        BY <1>3, <3>a, <3>1, <4>2 DEF At
      <4> QED
        BY <4>1, <4>2
    <3>2. CASE f \in moved
      BY <1>a, <1>2, <3>2 DEF At
    <3>3. CASE f \notin DOMAIN update
      <4>1. CASE f = "p"
        BY <3>a, <4>1 DEF At
      <4>2. CASE f = NewName /\ moved # {}
        BY <3>a, <4>2 DEF At
      <4>3. CASE f # "p" /\ (f = NewName => moved = {})
        BY <3>a, <3>3, <4>3 DEF At
      <4> QED
        BY <4>1, <4>2, <4>3
    <3> QED
      BY <3>1, <3>2, <3>3
  <2> QED
    BY <2>1 DEF Changed
<1> QED
  BY <1>2, <1>4

(* The inverse of $set where there is a document to set it in, and of      *)
(* $unset where there was a value, leads back, from the changed document   *)
(* and from the unchanged one.                                             *)
LEMMA InverseLeadsBack ==
    ASSUME NEW update, IsUpdate(update), NEW d \in Documents,
           \A f \in DOMAIN update : \/ update[f] = "$set" /\ (f = "p.x" => d["p"] # "missing")
                                    \/ update[f] = "$unset" /\ d[f] # "missing"
    PROVE  /\ Undo(InverseUpdate(update, d), ServerUpdate(update, d)) = d
           /\ Undo(InverseUpdate(update, d), d) = d
           /\ ServerUpdate(update, d) # NoDoc
<1> DEFINE inv == InverseUpdate(update, d)
           vals == [f \in DOMAIN update |-> ServerValue(update[f], d[f])]
           new == ServerUpdate(update, d)
<1>0. /\ "p" \in AllFields /\ "p.x" \in AllFields /\ Note \in AllFields /\ NewName \in AllFields
      /\ DOMAIN update \subseteq AllFields /\ DOMAIN update \cap {"p", Note, NewName} = {}
  BY DEF AllFields, Paths, NewName, Note, IsUpdate
<1>1. new = Changed(update, d, vals, {})
  <2>1. Moved(update, d, Paths) = {}
    BY DEF Moved
  <2> QED
    BY <2>1 DEF ServerUpdate
<1>2. \A f \in AllFields : d[f] \in Values /\ d[f] # "keep" /\ d[f] # "unset"
  BY DEF Documents, Values
<1>3. d = [f \in AllFields |-> d[f]]
  BY DEF Documents
<1>4. \A f \in AllFields \ DOMAIN update : inv[f] = "keep"
  <2>1. \A g \in DOMAIN update : update[g] \in {"$set", "$unset"}
    OBVIOUS
  <2> QED
    BY <2>1 DEF InverseUpdate
<1>5. \A f \in DOMAIN update : inv[f] = IF d[f] # "missing" THEN d[f] ELSE "unset"
  <2> SUFFICES ASSUME NEW f \in DOMAIN update PROVE inv[f] = IF d[f] # "missing" THEN d[f] ELSE "unset"
    OBVIOUS
  <2>1. f # Note /\ f \in AllFields /\ update[f] \in {"$set", "$unset"}
    BY <1>0
  <2>2. inv[f] = IF d[f] # "missing" THEN d[f] ELSE IF update[f] = "$set" THEN "unset" ELSE "null"
    BY <2>1 DEF InverseUpdate
  <2> QED
    BY <2>2
<1> HIDE DEF inv, vals, new
<1>a. \A f \in AllFields : At(update, d, vals, {}, f, new[f])
  <2>1. {} \in SUBSET DOMAIN update
    OBVIOUS
  <2> QED
    BY <1>1, <2>1, ChangedAt, Zenon
<1>6. \A f \in AllFields \ DOMAIN update : new[f] = d[f]
  <2> SUFFICES ASSUME NEW f \in AllFields \ DOMAIN update PROVE new[f] = d[f]
    OBVIOUS
  <2>1. CASE f = "p"
    <3>1. Creates(update) => d["p"] # "missing"
      <4>1. Creates(update) => "p.x" \in DOMAIN update /\ update["p.x"] = "$set"
        BY DEF Creates, Creating
      <4> QED
        BY <4>1
    <3> QED
      BY <1>a, <1>1, <2>1, <3>1 DEF At
  <2>2. CASE f # "p"
    BY <1>a, <1>1, <2>2 DEF At
  <2> QED
    BY <2>1, <2>2
<1> DEFINE makes == inv["p.x"] \notin {"keep", "unset"}
<1>7. makes => d["p"] = "{}"
  <2>1. makes => d["p.x"] # "missing"
    BY <1>0, <1>4, <1>5
  <2> QED
    BY <2>1 DEF Documents
<1>8. ASSUME NEW e, \A f \in AllFields \ DOMAIN update : e[f] = d[f] PROVE Undo(inv, e) = d
  <2>1. ~(makes /\ Blocked(e))
    BY <1>0, <1>7, <1>8 DEF Blocked
  <2> DEFINE u == [f \in AllFields |-> CASE f = "p" /\ makes -> "{}"
                                         [] inv[f] = "keep" -> e[f]
                                         [] inv[f] = "unset" -> "missing"
                                         [] OTHER -> inv[f]]
  <2>2. Undo(inv, e) = u
    BY <2>1 DEF Undo
  <2>3. ASSUME NEW f \in AllFields PROVE u[f] = d[f]
    <3>1. CASE f \in DOMAIN update
      <4>1. inv[f] = d[f] \/ (d[f] = "missing" /\ inv[f] = "unset")
        BY <1>5, <3>1
      <4>2. f # "p" /\ inv[f] # "keep" /\ (inv[f] = "unset" => d[f] = "missing")
        BY <1>0, <1>2, <3>1, <4>1
      <4> HIDE DEF makes
      <4> QED
        BY <4>1, <4>2
    <3>2. CASE f \notin DOMAIN update
      <4>1. inv[f] = "keep" /\ e[f] = d[f]
        BY <1>4, <1>8, <3>2
      <4> HIDE DEF makes
      <4> QED
        BY <1>7, <4>1
    <3> QED
      BY <3>1, <3>2
  <2> HIDE DEF makes
  <2> QED
    BY <1>3, <2>2, <2>3
<1>9. new # NoDoc
  <2>1. new[Note] = d[Note] /\ d[Note] \in Values
    BY <1>0, <1>2, <1>6
  <2> QED
    BY <1>0, <2>1 DEF NoDoc, Values
<1> QED
  BY <1>6, <1>8, <1>9 DEF inv, new

-----------------------------------------------------------------------------
(* A preview against the collection it was made from *)

CollectionStates == [Docs -> Documents \cup {NoDoc}]
MatchedIn(c, on) == {i \in Docs : Matches(on, c[i])}

(* What a preview says, if the collection is c. *)
PreviewFits(pv, c) ==
    /\ pv.ids \subseteq MatchedIn(c, pv.req.on)
    /\ pv.level = "full" => pv.ids = MatchedIn(c, pv.req.on) /\ pv.ids # {}
    /\ pv.plan = Plan(pv.req, [i \in pv.ids |-> c[i]])
    /\ DOMAIN pv.after \subseteq pv.ids
    /\ \A i \in DOMAIN pv.after : pv.after[i] = Told(pv.req, c[i]) /\ ~Refused(pv.after[i])

Covers(s) == s.level = "full" => s.changed \subseteq s.ids
Tells(s) ==
    (s.kind \in UpdateKinds => Misread(s.update) \cup Warned(s.update) = {}) =>
        \A i \in DOMAIN s.told \cap s.changed : s.told[i] = s.after[i]
Undoes(s) ==
    s.level = "full" /\ Invertible(s) /\ (s.kind \in {"deleteOne", "replaceOne"} => Cardinality(s.ids) = 1) =>
        Executed(s.plan, s.after) = s.before

LEMMA MatchedFinite ==
    ASSUME NEW c, NEW on
    PROVE  /\ IsFiniteSet(MatchedIn(c, on)) /\ Cardinality(MatchedIn(c, on)) \in Nat
           /\ \A I \in SUBSET MatchedIn(c, on) : /\ IsFiniteSet(I) /\ Cardinality(I) \in Nat
                                                 /\ Cardinality(I) = Cardinality(MatchedIn(c, on)) => I = MatchedIn(c, on)
<1>1. IsFiniteSet(MatchedIn(c, on))
  BY RequestsAssumption, FS_Subset DEF MatchedIn
<1>2. \A I \in SUBSET MatchedIn(c, on) : IsFiniteSet(I) /\ (Cardinality(I) = Cardinality(MatchedIn(c, on)) => I = MatchedIn(c, on))
  BY <1>1, FS_Subset
<1> QED
  BY <1>1, <1>2, FS_CardinalityType

(* capture_limit: a plan of level "full" has every document that matched. *)
LEMMA FullCapture ==
    ASSUME NEW c, NEW on, NEW I \in SUBSET MatchedIn(c, on),
           RollbackLevel(Cardinality(MatchedIn(c, on))) = "full",
           LET size == CaptureSize(Cardinality(MatchedIn(c, on)))
               n == Cardinality(MatchedIn(c, on)) IN
           Cardinality(I) = IF size = 0 THEN n ELSE Least(size, n)
    PROVE  I = MatchedIn(c, on) /\ I # {}
<1> DEFINE F == MatchedIn(c, on)
           n == Cardinality(F)
<1>1. n \in Nat /\ (Cardinality(I) = n => I = F) /\ IsFiniteSet(F)
  BY MatchedFinite
<1> HIDE DEF F
<1>2. n # 0 /\ n <= CaptureLimit
  BY DEF RollbackLevel, F
<1>3. CaptureSize(n) \in Nat /\ CaptureSize(n) >= n
  BY <1>1, <1>2, SafeChangeAssumption DEF CaptureSize, Most, Least
<1>4. Cardinality(I) = n
  BY <1>1, <1>3 DEF Least, F
<1>5. F # {}
  BY <1>1, <1>2, FS_EmptySet
<1> QED
  BY <1>1, <1>4, <1>5 DEF F

(* The write itself, with the collection the preview was made from. *)
IsWrite(s, c, pv, I, new) ==
    /\ Cardinality(I) = IF pv.req.kind \in OneKinds THEN Least(1, Cardinality(MatchedIn(c, pv.req.on)))
                        ELSE Cardinality(MatchedIn(c, pv.req.on))
    /\ new = [i \in Docs |-> IF i \notin I THEN c[i] ELSE Left(pv.req, c[i])]
    /\ \A i \in I : ~Refused(new[i])
    /\ s.level = pv.level /\ s.kind = pv.req.kind /\ s.update = pv.req.update /\ s.plan = pv.plan /\ s.changed = I
    /\ s.ids = pv.ids /\ s.told = pv.after /\ s.before = c /\ s.after = new

LEMMA WriteIsSound ==
    ASSUME NEW c \in CollectionStates, NEW pv, pv.req \in Requests, PreviewFits(pv, c),
           NEW I \in SUBSET MatchedIn(c, pv.req.on), NEW new, NEW s, IsWrite(s, c, pv, I, new)
    PROVE  Covers(s) /\ Tells(s) /\ Undoes(s)
<1>0. PICK req \in Requests : req = pv.req
  OBVIOUS
<1> DEFINE F == MatchedIn(c, req.on)
<1> USE <1>0
<1>a. /\ I \subseteq F
      /\ Cardinality(I) = IF req.kind \in OneKinds THEN Least(1, Cardinality(F)) ELSE Cardinality(F)
      /\ new = [i \in Docs |-> IF i \notin I THEN c[i] ELSE Left(req, c[i])]
      /\ \A i \in I : ~Refused(new[i])
      /\ s.level = pv.level /\ s.kind = req.kind /\ s.update = req.update /\ s.plan = pv.plan /\ s.changed = I
      /\ s.ids = pv.ids /\ s.told = pv.after /\ s.before = c /\ s.after = new
  BY DEF IsWrite
<1> USE <1>a
<1>1. /\ \A i \in F : i \in Docs /\ c[i] \in Documents /\ c[i] # NoDoc
      /\ F \subseteq Docs
  BY DEF MatchedIn, Matches, CollectionStates
<1>2. pv.ids \subseteq F /\ (pv.level = "full" => pv.ids = F /\ F # {})
  BY DEF PreviewFits
<1>3. /\ req.kind \in UpdateKinds \cup DeleteKinds \cup {"replaceOne"}
      /\ req.kind \in UpdateKinds => IsUpdate(req.update)
      /\ req.kind = "replaceOne" => req.update \in Documents
  BY RequestsAssumption
<1>4. Covers(s)
  BY <1>2 DEF Covers
<1>5. ASSUME req.kind \in UpdateKinds => Misread(req.update) \cup Warned(req.update) = {},
             NEW i \in DOMAIN s.told \cap s.changed
      PROVE  s.told[i] = s.after[i]
  <2>1. /\ i \in I /\ i \in DOMAIN pv.after /\ i \in Docs /\ c[i] \in Documents
        /\ s.told[i] = Told(req, c[i]) /\ ~Refused(Told(req, c[i]))
    BY <1>1 DEF PreviewFits
  <2>2. s.after[i] = Left(req, c[i]) /\ ~Refused(Left(req, c[i]))
    BY <2>1
  <2>3. CASE req.kind \in UpdateKinds
    <3>1. Told(req, c[i]) = Simulate(req.update, c[i]) /\ Left(req, c[i]) = ServerUpdate(req.update, c[i])
      BY <2>3 DEF Told, Left, UpdateKinds
    <3> QED
      BY <1>3, <1>5, <2>1, <2>2, <2>3, <3>1, SimulationTells
  <2>4. CASE req.kind \notin UpdateKinds
    <3>1. Told(req, c[i]) = Left(req, c[i])
      BY <2>4 DEF Told, Left
    <3> QED
      BY <2>1, <2>2, <3>1
  <2> QED
    BY <2>3, <2>4
<1>6. Tells(s)
  BY <1>5 DEF Tells
<1>7. ASSUME pv.level = "full", Invertible(s), s.kind \in {"deleteOne", "replaceOne"} => Cardinality(s.ids) = 1
      PROVE  Executed(s.plan, s.after) = s.before
  <2>1. pv.ids = F /\ F # {}
    BY <1>2, <1>7
  <2>2. s.plan = Plan(req, [i \in F |-> c[i]])
    BY <2>1 DEF PreviewFits
  <2>3. c = [i \in Docs |-> c[i]]
    BY DEF CollectionStates
  <2>4. \A i \in Docs : /\ i \notin I => new[i] = c[i]
                        /\ i \in I => new[i] = Left(req, c[i])
    OBVIOUS
  <2>5. req.kind \in {"deleteMany", "deleteOne", "replaceOne"} => I = F
    <3>1. Cardinality(F) \in Nat /\ (Cardinality(I) = Cardinality(F) => I = F)
      BY MatchedFinite
    <3>2. CASE req.kind = "deleteMany"
      BY <3>1, <3>2 DEF OneKinds
    <3>3. CASE req.kind \in {"deleteOne", "replaceOne"}
      <4>1. Cardinality(F) = 1
        BY <1>7, <2>1, <3>3
      <4> QED
        BY <3>1, <3>3, <4>1 DEF OneKinds, Least
    <3> QED
      BY <3>2, <3>3
  <2> HIDE DEF F
  <2>6. CASE req.kind \in UpdateKinds
    <3> DEFINE docs == [i \in F |-> InverseUpdate(req.update, c[i])]
               plan == [op |-> "bulkWrite", on |-> "all", docs |-> docs]
    <3>1. s.plan = plan
      BY <2>1, <2>2, <2>6 DEF Plan
    <3>2. plan.op = "bulkWrite" /\ plan.docs = docs /\ DOMAIN docs = F
      OBVIOUS
    <3>3. ASSUME NEW i \in F PROVE new[i] # NoDoc /\ Undo(docs[i], new[i]) = c[i]
      <4>1. \A f \in DOMAIN req.update : \/ req.update[f] = "$set" /\ (f = "p.x" => c[i]["p"] # "missing")
                                         \/ req.update[f] = "$unset" /\ c[i][f] # "missing"
        BY <1>7, <2>1, <2>6 DEF Invertible
      <4>2. /\ Undo(InverseUpdate(req.update, c[i]), ServerUpdate(req.update, c[i])) = c[i]
            /\ Undo(InverseUpdate(req.update, c[i]), c[i]) = c[i]
            /\ ServerUpdate(req.update, c[i]) # NoDoc
        BY <1>1, <1>3, <2>6, <4>1, InverseLeadsBack DEF F
      <4>3. new[i] = c[i] \/ new[i] = ServerUpdate(req.update, c[i])
        BY <1>1, <2>4, <2>6 DEF Left, UpdateKinds, F
      <4> QED
        BY <4>2, <4>3, <1>1 DEF F
    <3> HIDE DEF docs
    <3>4. Executed(plan, new) = [i \in Docs |-> IF i \in F /\ new[i] # NoDoc THEN Undo(docs[i], new[i]) ELSE new[i]]
      BY <3>2 DEF Executed
    <3>5. \A i \in Docs : (IF i \in F /\ new[i] # NoDoc THEN Undo(docs[i], new[i]) ELSE new[i]) = c[i]
      BY <2>4, <3>3 DEF F
    <3> QED
      BY <2>3, <3>1, <3>4, <3>5
  <2>7. CASE req.kind \in DeleteKinds
    <3> DEFINE docs == [i \in F |-> c[i]]
               plan == [op |-> "insertMany", on |-> "all", docs |-> docs]
    <3>1. s.plan = plan
      BY <2>2, <2>7 DEF Plan, DeleteKinds, UpdateKinds
    <3>2. plan.op = "insertMany" /\ plan.docs = docs /\ DOMAIN docs = F
      OBVIOUS
    <3>3. \A i \in F : new[i] = NoDoc
      BY <1>1, <2>4, <2>5, <2>7 DEF Left, DeleteKinds, UpdateKinds, F
    <3>4. Executed(plan, new) = [i \in Docs |-> IF i \in F THEN docs[i] ELSE new[i]]
      BY <3>2, <3>3 DEF Executed
    <3>5. \A i \in Docs : (IF i \in F THEN docs[i] ELSE new[i]) = c[i]
      BY <2>4, <2>5, <2>7 DEF DeleteKinds
    <3> QED
      BY <2>3, <3>1, <3>4, <3>5
  <2>8. CASE req.kind = "replaceOne"
    <3> DEFINE docs == Restrict([i \in F |-> c[i]], First(F))
               plan == [op |-> "replaceOne", on |-> "all", docs |-> docs]
    <3>1. s.plan = plan
      BY <2>2, <2>8 DEF Plan, DeleteKinds, UpdateKinds
    <3>a. IsFiniteSet(F)
      BY MatchedFinite DEF F
    <3>b. Cardinality(F) = 1
      BY <1>7, <2>1, <2>8
    <3>2. PICK i0 : F = {i0}
      BY <3>a, <3>b, FS_Singleton
    <3>3. First(F) = F
      BY <3>2 DEF First
    <3>4. docs = [i \in F |-> c[i]]
      BY <3>3 DEF Restrict
    <3> HIDE DEF docs
    <3>5. plan.op = "replaceOne" /\ plan.docs = docs /\ DOMAIN docs = F
      BY <3>4
    <3>6. \A i \in F : new[i] = req.update /\ new[i] # NoDoc
      BY <1>1, <1>3, <2>4, <2>5, <2>8, NoDocIsNone DEF Left, UpdateKinds, F
    <3>7. Executed(plan, new) = [i \in Docs |-> IF i \in F /\ new[i] # NoDoc THEN docs[i] ELSE new[i]]
      BY <3>5 DEF Executed
    <3>8. \A i \in Docs : (IF i \in F /\ new[i] # NoDoc THEN docs[i] ELSE new[i]) = c[i]
      BY <2>4, <2>5, <2>8, <3>4, <3>6
    <3> QED
      BY <2>3, <3>1, <3>7, <3>8
  <2> QED
    BY <1>3, <2>6, <2>7, <2>8
<1>8. Undoes(s)
  BY <1>7 DEF Undoes
<1> QED
  BY <1>4, <1>6, <1>8

-----------------------------------------------------------------------------
(* The inductive invariant of Safe Change Mode *)

CollectionInv == others \in Nat /\ data \in CollectionStates

(* Until somebody else writes, a preview is about the collection as it is. *)
PreviewInv ==
    preview.st # "none" =>
        /\ preview.st \in {"counted", "shown"}
        /\ preview.req \in Requests /\ preview.from \in Nat /\ preview.from <= others
        /\ preview.st = "counted" /\ preview.from = others =>
              preview.count = Cardinality(MatchedIn(data, preview.req.on))
        /\ preview.st = "shown" /\ preview.from = others => PreviewFits(preview, data)

Sound(s) == Covers(s) /\ Tells(s) /\ Undoes(s)
StoryInv == \A id \in DOMAIN story : ~story[id].disturbed => Sound(story[id])

ChangeInv == CollectionInv /\ PreviewInv /\ StoryInv

LEMMA InitChange == Init => ChangeInv
<1> SUFFICES ASSUME Init PROVE ChangeInv
  OBVIOUS
<1>1. CollectionInv
  BY RequestsAssumption DEF Init, CollectionInv, CollectionStates
<1>2. PreviewInv
  BY DEF Init, PreviewInv, NoPreview
<1>3. DOMAIN story = {}
  BY DEF Init
<1> QED
  BY <1>1, <1>2, <1>3 DEF ChangeInv, StoryInv

LEMMA PreviewCountStep ==
    ASSUME ChangeInv, NEW req \in Requests, PreviewCount(req)
    PROVE  ChangeInv'
<1> DEFINE n == Cardinality(MatchedIn(data, req.on))
<1>1. preview' = [st |-> "counted", req |-> req, count |-> n, from |-> others]
  BY DEF PreviewCount, Matched, MatchedIn
<1>2. UNCHANGED <<data, others, story>>
  BY DEF PreviewCount
<1>3. CollectionInv' /\ StoryInv' /\ others \in Nat
  BY <1>2 DEF ChangeInv, CollectionInv, StoryInv
<1> HIDE DEF n
<1>4. /\ preview'.st = "counted" /\ preview'.req = req /\ preview'.count = n /\ preview'.from = others
  BY <1>1
<1>5. preview'.count = Cardinality(MatchedIn(data', preview'.req.on))
  BY <1>2, <1>4 DEF n
<1>6. PreviewInv'
  BY <1>2, <1>3, <1>4, <1>5 DEF PreviewInv
<1> QED
  BY <1>3, <1>6 DEF ChangeInv

LEMMA PreviewFindStep ==
    ASSUME ChangeInv, PreviewFind
    PROVE  ChangeInv'
<1> DEFINE req == preview.req
           F == MatchedIn(data, req.on)
           size == CaptureSize(preview.count)
<1>1. UNCHANGED <<data, others, story>> /\ preview.st = "counted"
  BY DEF PreviewFind
<1>2. CollectionInv' /\ StoryInv'
  BY <1>1 DEF ChangeInv, CollectionInv, StoryInv
<1>3. PICK ids \in SUBSET F :
        /\ Cardinality(ids) = IF size = 0 THEN Cardinality(F) ELSE Least(size, Cardinality(F))
        /\ \E shown \in SUBSET ids :
              LET after == [i \in shown |-> Told(req, data[i])]
              IN preview' = IF \E i \in shown : Refused(after[i]) THEN NoPreview
                            ELSE [st |-> "shown", req |-> req, level |-> RollbackLevel(preview.count),
                                  plan |-> Plan(req, [i \in ids |-> data[i]]), after |-> after,
                                  from |-> preview.from, ids |-> ids]
  BY DEF PreviewFind, Matched, MatchedIn
<1>4. PICK shown \in SUBSET ids :
        LET after == [i \in shown |-> Told(req, data[i])]
        IN preview' = IF \E i \in shown : Refused(after[i]) THEN NoPreview
                      ELSE [st |-> "shown", req |-> req, level |-> RollbackLevel(preview.count),
                            plan |-> Plan(req, [i \in ids |-> data[i]]), after |-> after,
                            from |-> preview.from, ids |-> ids]
  BY <1>3
<1> DEFINE after == [i \in shown |-> Told(req, data[i])]
           captured == [i \in ids |-> data[i]]
           level == RollbackLevel(preview.count)
<1>5. CASE preview' = NoPreview
  BY <1>2, <1>5 DEF ChangeInv, PreviewInv, NoPreview
<1>6. CASE preview' # NoPreview
  <2>1. \A i \in shown : ~Refused(after[i])
    BY <1>4, <1>6
  <2>2. preview' = [st |-> "shown", req |-> req, level |-> level, plan |-> Plan(req, captured), after |-> after,
                    from |-> preview.from, ids |-> ids]
    BY <1>4, <2>1
  <2>3. DOMAIN after = shown /\ \A i \in shown : after[i] = Told(req, data[i])
    OBVIOUS
  <2>4. /\ req \in Requests /\ preview.from \in Nat /\ preview.from <= others
        /\ preview.from = others => preview.count = Cardinality(F)
    BY <1>1 DEF ChangeInv, PreviewInv
  <2>5. preview.from = others /\ level = "full" => ids = F /\ ids # {}
    BY <1>3, <2>4, FullCapture
  <2> HIDE DEF after, captured, level, F, size
  <2>6. /\ preview'.st = "shown" /\ preview'.req = req /\ preview'.level = level /\ preview'.plan = Plan(req, captured)
        /\ preview'.after = after /\ preview'.from = preview.from /\ preview'.ids = ids
    BY <2>2
  <2>7. preview.from = others => PreviewFits(preview', data)
    BY <2>1, <2>3, <2>5, <2>6 DEF PreviewFits, F, captured
  <2>8. PreviewInv'
    BY <1>1, <2>4, <2>6, <2>7 DEF PreviewInv, PreviewFits
  <2> QED
    BY <1>2, <2>8 DEF ChangeInv
<1> QED
  BY <1>5, <1>6

LEMMA DismissStep ==
    ASSUME ChangeInv, Dismiss
    PROVE  ChangeInv'
BY DEF ChangeInv, CollectionInv, PreviewInv, StoryInv, Dismiss, NoPreview

LEMMA OtherWriteStep ==
    ASSUME ChangeInv, OtherWrite
    PROVE  ChangeInv'
<1>1. others' = others + 1 /\ UNCHANGED <<preview, story>>
  BY DEF OtherWrite
<1>2. OtherDoc \in Documents
  BY DEF OtherDoc, Documents, Values, AllFields, Paths
<1>3. data' \in CollectionStates
  BY <1>2 DEF OtherWrite, ChangeInv, CollectionInv, CollectionStates
<1>4. CollectionInv' /\ StoryInv'
  BY <1>1, <1>3 DEF ChangeInv, CollectionInv, StoryInv
<1>5. PreviewInv'
  BY <1>1 DEF ChangeInv, PreviewInv, CollectionInv
<1> QED
  BY <1>4, <1>5 DEF ChangeInv

LEMMA RollbackStep ==
    ASSUME ChangeInv, ExecuteRollback
    PROVE  ChangeInv'
<1>1. data' = data /\ UNCHANGED <<preview, others, story>>
  BY DEF ExecuteRollback, EvalScript
<1> QED
  BY <1>1 DEF ChangeInv, CollectionInv, PreviewInv, StoryInv

(* What a write leaves at a document it was not refused for. *)
LEMMA ResultTyped ==
    ASSUME data \in CollectionStates, NEW req \in Requests, NEW ids \in Targets(req), NEW i \in ids,
           ~Refused(Result(req, ids)[i])
    PROVE  i \in Docs /\ Result(req, ids)[i] \in Documents \cup {NoDoc}
<1>1. /\ req.kind \in UpdateKinds => IsUpdate(req.update)
      /\ req.kind = "replaceOne" => req.update \in Documents
      /\ req.on \in Values \cup {"all"}
  BY RequestsAssumption
<1>2. i \in Docs
  BY DEF Targets, Upserted, Matched
<1>3. FromFilter(req) \in Documents
  <2>1. /\ \A f \in AllFields : FromFilter(req)[f] \in Values
        /\ "p.x" \in AllFields /\ FromFilter(req)["p.x"] = "missing"
    BY <1>1 DEF FromFilter, AllFields, Paths, Values
  <2>2. FromFilter(req) \in [AllFields -> Values]
    BY <2>1 DEF FromFilter
  <2> QED
    BY <2>1, <2>2 DEF Documents
<1>4. PICK d \in Documents : Result(req, ids)[i] = Left(req, d)
  <2>1. Result(req, ids)[i] = Left(req, IF data[i] = NoDoc THEN FromFilter(req) ELSE data[i])
    BY DEF Result
  <2>2. data[i] # NoDoc => data[i] \in Documents
    BY <1>2 DEF CollectionStates
  <2>3. (IF data[i] = NoDoc THEN FromFilter(req) ELSE data[i]) \in Documents
    BY <1>3, <2>2
  <2> QED
    BY <2>1, <2>3
<1>5. CASE req.kind \in UpdateKinds
  <2>1. Left(req, d) = ServerUpdate(req.update, d)
    BY <1>5 DEF Left, UpdateKinds
  <2> QED
    BY <1>1, <1>2, <1>4, <1>5, <2>1, UpdatedDocument
<1>6. CASE req.kind \notin UpdateKinds
  BY <1>1, <1>2, <1>4, <1>6 DEF Left
<1> QED
  BY <1>5, <1>6

LEMMA ExecuteStep ==
    ASSUME ChangeInv, NEW t \in Tasks, NEW p \in Profiles, Execute(t, p)
    PROVE  ChangeInv'
<1>0. PICK req : req = preview.req
  OBVIOUS
<1> DEFINE F == MatchedIn(data, req.on)
<1>1. preview.st = "shown" /\ preview' = NoPreview /\ others' = others
  BY DEF Execute
<1>2. PreviewInv'
  BY <1>1 DEF PreviewInv, NoPreview
<1>3. req \in Requests /\ (preview.from = others => PreviewFits(preview, data))
  BY <1>0, <1>1 DEF ChangeInv, PreviewInv
<1>4. PICK ids \in Targets(req) :
        LET new == Result(req, ids)
            after == [i \in Docs |-> IF i \in ids THEN new[i] ELSE data[i]] IN
        /\ \A i \in ids : ~Refused(new[i])
        /\ data' = after
        /\ story' = [id \in DOMAIN story \cup {drawn'} |->
                        IF id # drawn' THEN story[id]
                        ELSE [level |-> preview.level, kind |-> req.kind, update |-> req.update,
                              plan |-> preview.plan, changed |-> ids, ids |-> preview.ids,
                              told |-> preview.after, before |-> data, after |-> after,
                              disturbed |-> others # preview.from]]
  BY <1>0, SMT DEF Execute
<1> DEFINE new == Result(req, ids)
           after == [i \in Docs |-> IF i \in ids THEN new[i] ELSE data[i]]
           o == others # preview.from
           s == [level |-> preview.level, kind |-> req.kind, update |-> req.update,
                 plan |-> preview.plan, changed |-> ids, ids |-> preview.ids,
                 told |-> preview.after, before |-> data, after |-> after, disturbed |-> o]
<1>5. /\ \A i \in ids : ~Refused(new[i])
      /\ data' = after
      /\ story' = [id \in DOMAIN story \cup {drawn'} |-> IF id # drawn' THEN story[id] ELSE s]
  BY <1>4, Zenon
<1>6. data \in CollectionStates
  BY DEF ChangeInv, CollectionInv
<1>7. \A i \in ids : i \in Docs /\ new[i] \in Documents \cup {NoDoc}
  BY <1>3, <1>5, <1>6, ResultTyped
<1>8. CollectionInv'
  <2>1. after \in CollectionStates
    <3> HIDE DEF new
    <3> QED
      BY <1>6, <1>7 DEF CollectionStates
  <2> HIDE DEF after
  <2> QED
    BY <1>1, <1>5, <2>1 DEF ChangeInv, CollectionInv
<1>9. o \in BOOLEAN
  BY Zenon
<1>10. ~o => others = preview.from
  OBVIOUS
<1> HIDE DEF o
<1>11. /\ s.level = preview.level /\ s.kind = req.kind /\ s.update = req.update /\ s.plan = preview.plan
       /\ s.changed = ids /\ s.ids = preview.ids /\ s.told = preview.after /\ s.before = data /\ s.after = after
       /\ s.disturbed = o
  BY <1>9, Zenon
<1> HIDE DEF s
<1>12. ASSUME ~s.disturbed PROVE Sound(s)
  <2>1. ~o
    BY <1>11, <1>12, Zenon
  <2>2. PreviewFits(preview, data)
    BY <1>3, <1>10, <2>1
  <2>3. CASE F = {}
    <3>1. preview.level # "full" /\ DOMAIN preview.after = {}
      BY <1>0, <2>2, <2>3 DEF PreviewFits
    <3>2. Covers(s) /\ Tells(s) /\ Undoes(s)
      BY <1>11, <3>1 DEF Covers, Tells, Undoes
    <3> QED
      BY <3>2 DEF Sound
  <2>4. CASE F # {}
    <3>1. Upserted(req) = {}
      BY <2>4 DEF Upserted, Matched, MatchedIn
    <3>2. /\ ids \in SUBSET F
          /\ Cardinality(ids) = IF req.kind \in OneKinds THEN Least(1, Cardinality(F)) ELSE Cardinality(F)
      BY <3>1 DEF Targets, Matched, MatchedIn
    <3>3. \A i \in ids : new[i] = Left(req, data[i]) /\ i \in Docs
      BY <3>2 DEF Result, MatchedIn, Matches
    <3>4. after = [i \in Docs |-> IF i \notin ids THEN data[i] ELSE Left(req, data[i])]
      <4> HIDE DEF new
      <4> QED
        BY <3>3
    <3>5. \A i \in ids : ~Refused(after[i])
      BY <1>5, <3>3, <3>4
    <3> HIDE DEF new, after, F
    <3>6. IsWrite(s, data, preview, ids, after)
      BY <1>0, <1>11, <3>2, <3>4, <3>5 DEF IsWrite, F
    <3>7. Covers(s) /\ Tells(s) /\ Undoes(s)
      BY <1>0, <1>3, <1>6, <2>2, <3>2, <3>6, WriteIsSound DEF F
    <3> QED
      BY <3>7 DEF Sound
  <2> QED
    BY <2>3, <2>4
<1>13. StoryInv'
  <2>1. ASSUME NEW id \in DOMAIN story', ~story'[id].disturbed PROVE Sound(story'[id])
    <3>1. CASE id = drawn'
      <4>1. story'[id] = s
        BY <1>5, <2>1, <3>1
      <4> QED
        BY <1>12, <2>1, <4>1
    <3>2. CASE id # drawn'
      <4>1. id \in DOMAIN story /\ story'[id] = story[id]
        BY <1>5, <2>1, <3>2
      <4> QED
        BY <2>1, <4>1 DEF ChangeInv, StoryInv
    <3> QED
      BY <3>1, <3>2
  <2> QED
    BY <2>1, Zenon DEF StoryInv, Sound, Covers, Tells, Undoes
<1> QED
  BY <1>2, <1>8, <1>13 DEF ChangeInv

(* A write that fails half-way is recorded nowhere; the collection holds   *)
(* documents all the same.                                                 *)
LEMMA ExecuteFailsStep ==
    ASSUME ChangeInv, ExecuteFails
    PROVE  ChangeInv'
<1>0. PICK req : req = preview.req
  OBVIOUS
<1>1. preview.st = "shown" /\ preview' = NoPreview /\ story' = story
  BY DEF ExecuteFails
<1>2. req \in Requests /\ data \in CollectionStates /\ others \in Nat
  BY <1>0, <1>1 DEF ChangeInv, PreviewInv, CollectionInv
<1>3. PICK ids \in Targets(req) :
        LET new == Result(req, ids) IN
        \E done \in SUBSET {i \in ids : ~Refused(new[i])} :
            /\ others' = IF done = {} THEN others ELSE others + 1
            /\ data' = [i \in Docs |-> IF i \in done THEN new[i] ELSE data[i]]
  BY <1>0, SMT DEF ExecuteFails
<1> DEFINE new == Result(req, ids)
<1>4. PICK done \in SUBSET {i \in ids : ~Refused(new[i])} :
            /\ others' = IF done = {} THEN others ELSE others + 1
            /\ data' = [i \in Docs |-> IF i \in done THEN new[i] ELSE data[i]]
  BY <1>3
<1>5. \A i \in done : new[i] \in Documents \cup {NoDoc}
  BY <1>2, ResultTyped
<1> HIDE DEF new
<1>6. data' \in CollectionStates /\ others' \in Nat
  BY <1>2, <1>4, <1>5 DEF CollectionStates
<1>7. PreviewInv' /\ StoryInv'
  BY <1>1 DEF ChangeInv, PreviewInv, StoryInv, NoPreview
<1> QED
  BY <1>6, <1>7 DEF ChangeInv, CollectionInv

LEMMA NextChange == ChangeInv /\ [Next]_vars => ChangeInv'
<1> SUFFICES ASSUME ChangeInv, [Next]_vars PROVE ChangeInv'
  OBVIOUS
<1>1. CASE UNCHANGED scVars
  BY <1>1 DEF scVars, ChangeInv, CollectionInv, PreviewInv, StoryInv
<1> QED
  BY <1>1, PreviewCountStep, PreviewFindStep, DismissStep, OtherWriteStep, RollbackStep, ExecuteStep, ExecuteFailsStep
  DEF Next, vars

(* A preview of safe_change.rs tells what the write does, and the plan     *)
(* made with it covers what a write of level "full" changes and takes it   *)
(* back, for any collection, requests, limits and number of tasks: what    *)
(* PlanSound says of writes nobody else disturbed.  An upsert that makes a *)
(* document, and a write that fails half-way, are among them.              *)
THEOREM PlansAlwaysSound == Spec => []PlanSound
<1>1. ChangeInv => PlanSound
  BY Zenon DEF ChangeInv, StoryInv, PlanSound, FullPlanCoversChanges, PreviewTellsResult, PlanUndoes, Undisturbed,
               Sound, Covers, Tells, Undoes
<1> QED
  BY InitChange, NextChange, <1>1, PTL DEF Spec

-----------------------------------------------------------------------------
(* The transfer job's invariant *)

TransferSteps == {"start", "collection", "open", "begin", "rows", "flush", "finish",
                  "returned", "conclude", "ended"}
RowKinds == {"id", "noid", "bad"}
Piping == pc \in {"begin", "rows", "flush", "finish"}

(* An upsert loses no document of this job but one without _id. *)
Faithful == ~(Upserting /\ NoId)

TransferTypes ==
    /\ job \in JobRequests /\ src \in Seq(Seq(RowKinds)) /\ Len(src) = (IF Looping THEN 2 ELSE 1)
    /\ pc \in TransferSteps /\ cur \in 1..(Len(src) + 1) /\ row \in Nat /\ errors \in Nat
    /\ {flag, failed, seen, leaked} \subseteq BOOLEAN
    /\ ~Looping \/ pc = "start" => cur = 1
    /\ (Piping \/ pc \in {"open", "returned"}) => cur <= Len(src)
    /\ pc = "collection" => Looping
    /\ pc \in {"flush", "finish"} => ToCollection
    /\ pc = "conclude" /\ Looping /\ ~flag => cur > Len(src)
    /\ status = "done" => pc = "ended"

(* The good ones of the first r rows of collection c. *)
RowsDone(c, r) == {<<c, n>> : n \in {i \in 1..r : src[c][i] # "bad"}}

(* What the sink has taken is what was read and not refused. *)
PipeInv ==
    Piping => /\ row <= Len(src[cur]) /\ written = RowsDone(cur, row)
              /\ pc = "finish" => row = Len(src[cur])

(* Outside a running output there is no .part file but a leaked one. *)
PartInv ==
    ~leaked => part \subseteq IF ToFile /\ (pc \in {"begin", "rows"} \/ (pc = "open" /\ ~Looping))
                              THEN {Path(cur)} ELSE {}

(* A document of the job in the target: from an earlier collection, or     *)
(* from the rows read of this one.                                         *)
StoredHere(d) ==
    \E c \in 1..cur, n \in Nat \ {0} :
        /\ d = <<c, n>>
        /\ c = cur => pc \notin {"start", "collection", "open"} /\ (Piping => n <= row)

StoredInv ==
    Faithful =>
        /\ IsFiniteSet(stored) /\ inserted \in Nat /\ inserted <= Cardinality(stored \ {Present})
        /\ \A d \in stored : d = Present \/ StoredHere(d)

(* The batch holds documents read, once each and not yet in the target,    *)
(* and together with the target all of them.                               *)
BatchInv ==
    Faithful /\ Piping /\ ToCollection =>
        /\ batch \in Seq(RowsDone(cur, row))
        /\ \A i \in 1..Len(batch) : batch[i] \notin stored
        /\ \A i, j \in 1..Len(batch) : batch[i] = batch[j] => i = j
        /\ \A d \in written : d \in stored \/ \E i \in 1..Len(batch) : batch[i] = d

Delivered(c) ==
    /\ ToFile => c \in DOMAIN files /\ files[c] = Good(c)
    /\ ToCollection /\ Faithful => Good(c) \subseteq stored
    /\ job.command = "clipboard" => written = Good(c)

(* What is behind the loop, or the pipeline, is delivered. *)
Behind(c) == c < cur \/ (c = cur /\ pc \in {"returned", "conclude"})
DeliveredInv ==
    ~failed /\ ~(Looping /\ flag) /\ ~job.shared /\ (Looping \/ ~seen) =>
        \A c \in JobCollections \ passed : Behind(c) => Delivered(c)

TransferInv ==
    /\ TransferTypes /\ PipeInv /\ PartInv /\ FinalFileWhole /\ StoredInv /\ BatchInv
    /\ DeliveredInv /\ DoneMeansAllStored

-----------------------------------------------------------------------------
(* No step changes the request or the rows. *)
LEMMA JobStays ==
    ASSUME TransferNext
    PROVE  UNCHANGED <<job, src>>
BY DEF TransferNext, Cancel, StartJob, StartExport, StartCopy, StartImport, StartDump, StartRestore,
       Started, NextCollection, EarlyReturn, PassOver, OpenSource, Pipeline, SinkStartFails, SinkStarts,
       SourceFails, BadRow, WriteToCollection, InsertMany, Upsert, WriteToOutput, Cancelled, FinishFile,
       FinishClipboard, FinishCollection, Returned, Conclude, PipelineOnly, Same

LEMMA JobConstant ==
    ASSUME UNCHANGED <<job, src>>
    PROVE  /\ JobCollections' = JobCollections
           /\ (Looping' <=> Looping) /\ (ToFile' <=> ToFile) /\ (ToCollection' <=> ToCollection)
           /\ (Upserting' <=> Upserting) /\ (NoId' <=> NoId) /\ (Faithful' <=> Faithful)
           /\ \A c : Good(c)' = Good(c) /\ Path(c)' = Path(c)
           /\ \A c, r : RowsDone(c, r)' = RowsDone(c, r)
<1>1. NoId' <=> NoId
  BY DEF NoId, JobCollections
<1>2. JobCollections' = JobCollections
  BY DEF JobCollections
<1>3. (Looping' <=> Looping) /\ (ToFile' <=> ToFile) /\ (ToCollection' <=> ToCollection)
      /\ (Upserting' <=> Upserting)
  BY DEF Looping, ToFile, ToCollection, Upserting
<1>4. \A c : Good(c)' = Good(c) /\ Path(c)' = Path(c)
  BY DEF Good, Path
<1>5. \A c, r : RowsDone(c, r)' = RowsDone(c, r)
  BY DEF RowsDone
<1> QED
  BY <1>1, <1>2, <1>3, <1>4, <1>5 DEF Faithful

LEMMA SourceRows ==
    ASSUME TransferTypes
    PROVE  /\ JobCollections = 1..Len(src) /\ Len(src) \in Nat \ {0}
           /\ \A c \in 1..Len(src) :
                 /\ src[c] \in Seq(RowKinds) /\ Len(src[c]) \in Nat /\ DOMAIN src[c] = 1..Len(src[c])
                 /\ \A i \in 1..Len(src[c]) : src[c][i] \in RowKinds
                 /\ Good(c) = RowsDone(c, Len(src[c]))
<1>1. JobCollections = 1..Len(src) /\ Len(src) \in Nat \ {0}
  <2>1. src \in Seq(Seq(RowKinds)) /\ (Len(src) = 1 \/ Len(src) = 2)
    BY DEF TransferTypes
  <2> QED
    BY <2>1 DEF JobCollections
<1>2. ASSUME NEW c \in 1..Len(src)
      PROVE  /\ src[c] \in Seq(RowKinds) /\ Len(src[c]) \in Nat /\ DOMAIN src[c] = 1..Len(src[c])
             /\ \A i \in 1..Len(src[c]) : src[c][i] \in RowKinds
  BY DEF TransferTypes
<1>3. ASSUME NEW c \in 1..Len(src) PROVE Good(c) = RowsDone(c, Len(src[c]))
  BY <1>2 DEF Good, RowsDone
<1> QED
  BY <1>1, <1>2, <1>3

LEMMA NextRow ==
    ASSUME NEW c, NEW r \in Nat
    PROVE  RowsDone(c, r + 1) = IF src[c][r + 1] = "bad" THEN RowsDone(c, r)
                                ELSE RowsDone(c, r) \cup {<<c, r + 1>>}
<1>1. \A i : i \in 1..(r + 1) <=> i \in 1..r \/ i = r + 1
  OBVIOUS
<1> QED
  BY <1>1 DEF RowsDone

LEMMA NoRows == \A c : RowsDone(c, 0) = {}
BY DEF RowsDone

-----------------------------------------------------------------------------
LEMMA InitTransferInv == TransferInit => TransferInv
<1> SUFFICES ASSUME TransferInit PROVE TransferInv
  OBVIOUS
<1>1. /\ job \in JobRequests /\ pc = "start" /\ cur = 1 /\ row = 0 /\ errors = 0 /\ inserted = 0
      /\ stored \in {{}, {Present}} /\ part = {} /\ passed = {} /\ status = "queued"
      /\ ~flag /\ ~failed /\ ~seen /\ ~leaked /\ flag \in BOOLEAN
  BY DEF TransferInit
<1>2. src \in Seq(Seq(RowKinds)) /\ Len(src) = (IF Looping THEN 2 ELSE 1)
  <2> DEFINE N == IF Looping THEN 2 ELSE 1
  <2>1. src \in [1..N -> Seq(RowKinds)] /\ N \in Nat
    BY TransferAssumption DEF TransferInit, RowKinds
  <2> HIDE DEF N
  <2>2. src \in Seq(Seq(RowKinds)) /\ Len(src) = N
    BY <2>1
  <2> QED
    BY <2>2 DEF N
<1>3. {flag, failed, seen, leaked} \subseteq BOOLEAN
  BY DEF TransferInit
<1>4. TransferTypes
  BY <1>1, <1>2, <1>3 DEF TransferTypes, TransferSteps, Piping
<1>5. PipeInv /\ BatchInv /\ PartInv /\ DoneMeansAllStored
  BY <1>1 DEF PipeInv, BatchInv, Piping, PartInv, DoneMeansAllStored
<1>6. FinalFileWhole
  BY DEF TransferInit, FinalFileWhole
<1>7. StoredInv
  <2>1. IsFiniteSet({}) /\ Cardinality({}) = 0 /\ IsFiniteSet({Present})
    BY FS_EmptySet, FS_Singleton
  <2>2. stored \ {Present} = {} /\ IsFiniteSet(stored) /\ \A d \in stored : d = Present
    BY <1>1, <2>1
  <2> QED
    BY <1>1, <2>1, <2>2 DEF StoredInv
<1>8. DeliveredInv
  BY <1>1, <1>4, SourceRows DEF DeliveredInv, Behind
<1> QED
  BY <1>4, <1>5, <1>6, <1>7, <1>8 DEF TransferInv

-----------------------------------------------------------------------------
(* Returning from the pipeline. *)
LEMMA ReturnsTypes ==
    ASSUME TransferTypes, NEW ok \in BOOLEAN, NEW cancelled \in BOOLEAN, Returns(ok, cancelled)
    PROVE  /\ pc' = "returned" /\ failed' \in BOOLEAN /\ seen' \in BOOLEAN
           /\ ~failed' => ~failed /\ ok
           /\ ~seen' => ~seen /\ ~(cancelled /\ ~Looping)
BY Zenon DEF Returns

LEMMA AbortTypes ==
    ASSUME AbortSink
    PROVE  /\ leaked' \in BOOLEAN
           /\ ~leaked' => ~leaked /\ part' = IF ToFile THEN part \ {Path(cur)} ELSE part
<1>1. PICK lost \in BOOLEAN : /\ part' = IF ToFile /\ ~lost THEN part \ {Path(cur)} ELSE part
                              /\ leaked' = (leaked \/ lost)
  BY DEF AbortSink
<1>2. leaked' \in BOOLEAN /\ (~leaked' => ~leaked /\ ~lost)
  BY <1>1, Zenon
<1> QED
  BY <1>1, <1>2

(* What every step of the pipeline leaves and where it goes. *)
LEMMA PipelineFrame ==
    ASSUME TransferTypes, Pipeline
    PROVE  /\ UNCHANGED <<job, src, flag, cur, status, passed>> /\ Piping
           /\ pc' \in {"rows", "flush", "finish", "returned"}
           /\ pc' \in {"flush", "finish"} => ToCollection
           /\ {failed', seen', leaked'} \subseteq BOOLEAN
           /\ ~failed' => ~failed
           /\ ~seen' => ~seen
           /\ row' \in Nat /\ errors' \in Nat
<1>1. UNCHANGED <<job, src, flag, cur, status, passed>>
  BY DEF Pipeline, SinkStartFails, SinkStarts, SourceFails, BadRow, WriteToCollection, InsertMany, Upsert,
         WriteToOutput, Cancelled, FinishFile, FinishClipboard, FinishCollection, PipelineOnly, Same
<1>2. row \in Nat /\ errors \in Nat /\ {flag, failed, seen, leaked} \subseteq BOOLEAN
  BY DEF TransferTypes
<1>3. row' \in Nat /\ errors' \in Nat
  <2>1. row' = row \/ row' = row + 1
    BY DEF Pipeline, SinkStartFails, SinkStarts, SourceFails, BadRow, WriteToCollection, InsertMany, Upsert,
         WriteToOutput, Cancelled, FinishFile, FinishClipboard, FinishCollection, Counters
  <2>2. errors' = errors \/ errors' = errors + 1
    BY DEF Pipeline, SinkStartFails, SinkStarts, SourceFails, BadRow, WriteToCollection, InsertMany, Upsert,
         WriteToOutput, Cancelled, FinishFile, FinishClipboard, FinishCollection, Counters
  <2> QED
    BY <1>2, <2>1, <2>2
<1>4. Piping
  BY DEF Pipeline, SinkStartFails, SinkStarts, SourceFails, BadRow, WriteToCollection, InsertMany, Upsert,
         WriteToOutput, Cancelled, FinishFile, FinishClipboard, FinishCollection, HasRow, AtEnd, Flushing, Piping
<1>5. leaked' \in BOOLEAN
  BY <1>2, AbortTypes
     DEF Pipeline, SinkStartFails, SinkStarts, SourceFails, BadRow, WriteToCollection, InsertMany, Upsert,
         WriteToOutput, Cancelled, FinishFile, FinishClipboard, FinishCollection
<1>6. \/ UNCHANGED <<failed, seen>> /\ pc' \in {"rows", "flush", "finish"}
         /\ (pc' \in {"flush", "finish"} => ToCollection)
      \/ \E ok \in BOOLEAN, cancelled \in BOOLEAN : Returns(ok, cancelled)
  <2>1. CASE SinkStartFails \/ SinkStarts \/ SourceFails
    BY <2>1 DEF SinkStartFails, SinkStarts, SourceFails
  <2>2. CASE BadRow \/ WriteToCollection \/ WriteToOutput
    BY <2>2 DEF BadRow, WriteToCollection, WriteToOutput, HasRow
  <2>3. CASE InsertMany \/ Upsert
    BY <2>3 DEF InsertMany, Upsert, Flushed, Flushing, TransferTypes
  <2>4. CASE Cancelled \/ FinishFile \/ FinishClipboard \/ FinishCollection
    BY <2>4 DEF Cancelled, FinishFile, FinishClipboard, FinishCollection
  <2> QED
    BY <2>1, <2>2, <2>3, <2>4 DEF Pipeline
<1>7. CASE UNCHANGED <<failed, seen>> /\ pc' \in {"rows", "flush", "finish"}
           /\ (pc' \in {"flush", "finish"} => ToCollection)
  BY <1>1, <1>2, <1>3, <1>4, <1>5, <1>7
<1>8. CASE \E ok \in BOOLEAN, cancelled \in BOOLEAN : Returns(ok, cancelled)
  <2>1. pc' = "returned" /\ failed' \in BOOLEAN /\ seen' \in BOOLEAN /\ (~failed' => ~failed) /\ (~seen' => ~seen)
    BY <1>8, ReturnsTypes
  <2> QED
    BY <2>1, <1>1, <1>3, <1>4, <1>5
<1> QED
  BY <1>6, <1>7, <1>8

LEMMA TypesNext ==
    ASSUME TransferTypes, TransferNext
    PROVE  TransferTypes'
<1>1. UNCHANGED <<job, src>>
  BY JobStays
<1>2. (Looping' <=> Looping) /\ (ToFile' <=> ToFile) /\ (ToCollection' <=> ToCollection)
  BY <1>1, JobConstant
<1>3. Len(src) \in Nat \ {0} /\ row \in Nat /\ errors \in Nat /\ {flag, failed, seen, leaked} \subseteq BOOLEAN
  BY DEF TransferTypes
<1>4. CASE Pipeline
  BY <1>1, <1>2, <1>4, PipelineFrame DEF TransferTypes, TransferSteps, Piping
<1>5. CASE Cancel
  BY <1>1, <1>2, <1>3, <1>5 DEF Cancel, TransferTypes, Piping
<1>6. CASE StartJob
  <2>1. /\ pc = "start" /\ pc' \in {"open", "collection"} /\ (pc' = "collection" => Looping)
        /\ UNCHANGED <<cur, row, errors, flag, failed, seen, leaked>> /\ status' = "running"
    BY <1>6 DEF StartJob, StartExport, StartCopy, StartImport, StartDump, StartRestore, Started, Same, Counters,
                Looping
  <2> QED
    BY <1>1, <1>2, <1>3, <2>1 DEF TransferTypes, TransferSteps, Piping
<1>7. CASE NextCollection
  BY <1>1, <1>2, <1>3, <1>7 DEF NextCollection, Same, Counters, TransferTypes, TransferSteps, Piping
<1>8. CASE EarlyReturn
  BY <1>1, <1>2, <1>3, <1>8 DEF EarlyReturn, Same, Counters, Outcome, TransferTypes, TransferSteps, Piping
<1>9. CASE PassOver
  <2>1. cur' \in 1..(Len(src) + 1) /\ pc' = "collection" /\ Looping
        /\ UNCHANGED <<row, errors, flag, failed, seen, leaked, status>>
    BY <1>3, <1>9 DEF PassOver, Same, Counters, Outcome, TransferTypes, Looping
  <2> QED
    BY <1>1, <1>2, <1>3, <1>9, <2>1 DEF PassOver, TransferTypes, TransferSteps, Piping
<1>10. CASE OpenSource
  BY <1>1, <1>2, <1>3, <1>10 DEF OpenSource, Same, Outcome, TransferTypes, TransferSteps, Piping
<1>11. CASE Returned
  <2>1. /\ cur' \in 1..(Len(src) + 1) /\ (~Looping => cur' = cur)
        /\ pc' = IF Looping THEN "collection" ELSE "conclude"
        /\ UNCHANGED <<row, errors, flag, failed, seen, leaked, status>>
    BY <1>3, <1>11 DEF Returned, Same, Counters, Outcome, TransferTypes
  <2> QED
    BY <1>1, <1>2, <1>3, <1>11, <2>1 DEF Returned, TransferTypes, TransferSteps, Piping
<1>12. CASE Conclude
  BY <1>1, <1>2, <1>3, <1>12 DEF Conclude, Same, Counters, TransferTypes, TransferSteps, Piping
<1> QED
  BY <1>4, <1>5, <1>6, <1>7, <1>8, <1>9, <1>10, <1>11, <1>12 DEF TransferNext

LEMMA RowAtHand ==
    ASSUME TransferTypes, HasRow
    PROVE  /\ row \in Nat /\ row + 1 \in 1..Len(src[cur]) /\ Len(src[cur]) \in Nat /\ cur \in 1..Len(src)
           /\ pc = "rows" /\ RowKind = src[cur][row + 1] /\ src[cur][row + 1] \in RowKinds
<1>1. pc = "rows" /\ row < Len(src[cur]) /\ RowKind = src[cur][row + 1]
  BY DEF HasRow, RowKind
<1>2. row \in Nat /\ cur \in 1..Len(src)
  BY <1>1, SourceRows DEF TransferTypes, Piping
<1>3. Len(src[cur]) \in Nat /\ \A i \in 1..Len(src[cur]) : src[cur][i] \in RowKinds
  BY <1>2, SourceRows
<1>4. row + 1 \in 1..Len(src[cur])
  BY <1>1, <1>2, <1>3
<1> QED
  BY <1>1, <1>2, <1>3, <1>4

(* A step of the command that is not one of the pipeline. *)
Around == Cancel \/ StartJob \/ NextCollection \/ EarlyReturn \/ PassOver \/ OpenSource \/ Returned \/ Conclude

LEMMA AroundFrame ==
    ASSUME Around
    PROVE  /\ UNCHANGED <<files, inserted, failed>>
           /\ ~Cancel => UNCHANGED flag
           /\ ~OpenSource => UNCHANGED <<row, written, batch, stored>>
           /\ \/ Cancel /\ UNCHANGED <<pc, cur, part, leaked, passed>>
              \/ OpenSource /\ pc' = "begin"
              \/ ~Piping' /\ ~Piping
BY DEF Around, Cancel, StartJob, StartExport, StartCopy, StartImport, StartDump, StartRestore, Started,
       NextCollection, EarlyReturn, PassOver, OpenSource, Returned, Conclude, Same, Counters, Outcome, Piping

LEMMA PipeNext ==
    ASSUME TransferTypes, PipeInv, TransferNext
    PROVE  PipeInv'
<1>1. UNCHANGED <<job, src>> /\ \A c, r : RowsDone(c, r)' = RowsDone(c, r)
  BY JobStays, JobConstant
<1>2. CASE Around
  <2>1. CASE OpenSource
    <3>1. pc' = "begin" /\ row' = 0 /\ written' = {} /\ UNCHANGED cur /\ pc = "open"
      BY <2>1 DEF OpenSource
    <3>2. Len(src[cur]) \in Nat
      BY <3>1, SourceRows DEF TransferTypes
    <3> QED
      BY <1>1, <3>1, <3>2, NoRows DEF PipeInv
  <2>2. CASE ~OpenSource
    BY <1>1, <1>2, <2>2, AroundFrame DEF PipeInv, Piping
  <2> QED
    BY <2>1, <2>2
<1>3. CASE Pipeline
  <2>1. UNCHANGED cur /\ row \in Nat /\ Piping
    BY <1>3, PipelineFrame DEF TransferTypes
  <2>2. CASE pc' = "returned"
    BY <2>2 DEF PipeInv, Piping
  <2>3. CASE pc' # "returned" /\ UNCHANGED <<row, written>>
    <3>1. pc' = "finish" => pc = "finish" \/ AtEnd
      BY <1>3, <2>3 DEF Pipeline, SinkStartFails, SinkStarts, SourceFails, BadRow, WriteToCollection, InsertMany,
           Upsert, WriteToOutput, Cancelled, FinishFile, FinishClipboard, FinishCollection, HasRow, Flushed,
           Flushing, Returns
    <3> QED
      BY <1>1, <2>1, <2>3, <3>1 DEF PipeInv, AtEnd
  <2>4. CASE pc' # "returned" /\ (BadRow \/ WriteToCollection \/ WriteToOutput)
    <3>1. HasRow /\ row' = row + 1 /\ pc' # "finish"
      BY <2>4 DEF BadRow, WriteToCollection, WriteToOutput, HasRow, Returns
    <3>2. \/ RowKind = "bad" /\ UNCHANGED written
          \/ RowKind # "bad" /\ written' = written \cup {<<cur, row + 1>>}
      BY <2>4 DEF BadRow, WriteToCollection, WriteToOutput, Returns
    <3>3. row' <= Len(src[cur])
      BY <3>1, RowAtHand
    <3>4. written' = RowsDone(cur, row')
      BY <2>1, <3>1, <3>2, RowAtHand, NextRow DEF PipeInv
    <3> QED
      BY <1>1, <2>1, <3>1, <3>3, <3>4 DEF PipeInv
  <2> QED
    BY <1>3, <2>2, <2>3, <2>4
       DEF Pipeline, SinkStartFails, SinkStarts, SourceFails, InsertMany, Upsert, Cancelled, FinishFile,
           FinishClipboard, FinishCollection, Counters, Returns
<1> QED
  BY <1>2, <1>3 DEF TransferNext, Around

LEMMA PartNext ==
    ASSUME TransferTypes, PartInv, TransferNext
    PROVE  PartInv'
<1>1. /\ (Looping' <=> Looping) /\ (ToFile' <=> ToFile) /\ (ToCollection' <=> ToCollection)
      /\ job' = job
  BY JobStays, JobConstant
<1> SUFFICES ASSUME ~leaked'
             PROVE  part' \subseteq IF ToFile /\ (pc' \in {"begin", "rows"} \/ (pc' = "open" /\ ~Looping))
                                    THEN {IF job.shared THEN 1 ELSE cur'} ELSE {}
  BY <1>1 DEF PartInv, Path
<1>2. CASE Cancel
  BY <1>1, <1>2 DEF Cancel, PartInv, Path
<1>3. CASE StartJob
  <2>1. pc = "start" /\ cur = 1 /\ UNCHANGED <<cur, leaked>>
    BY <1>3 DEF StartJob, StartExport, StartCopy, StartImport, StartDump, StartRestore, Started, TransferTypes
  <2>2. part = {}
    BY <2>1 DEF PartInv
  <2>3. part' = part \/ (ToFile /\ ~Looping /\ pc' = "open" /\ part' = part \cup {Path(1)})
    BY <1>3 DEF StartJob, StartExport, StartCopy, StartImport, StartDump, StartRestore, Started, Looping
  <2> QED
    BY <1>1, <2>1, <2>2, <2>3 DEF Path
<1>4. CASE NextCollection \/ PassOver \/ Returned \/ Conclude \/ EarlyReturn
  <2>1. part = {} /\ part' = part
    BY <1>4 DEF NextCollection, PassOver, Returned, Conclude, EarlyReturn, PartInv, Looping, ToFile
  <2> QED
    BY <2>1
<1>5. CASE OpenSource
  <2>1. UNCHANGED <<cur, leaked>> /\ pc = "open" /\ pc' = "begin"
        /\ part' = IF job.command = "dump" THEN part \cup {Path(cur)} ELSE part
    BY <1>5 DEF OpenSource
  <2>2. job.command = "dump" => ToFile /\ Looping
    BY DEF ToFile, Looping
  <2> QED
    BY <1>1, <2>1, <2>2 DEF PartInv, Path
<1>6. CASE Pipeline
  <2>1. UNCHANGED cur /\ Piping
    BY <1>6, PipelineFrame
  <2>2. CASE SinkStarts
    BY <1>1, <2>2 DEF SinkStarts, PartInv, Path, PipelineOnly
  <2>3. CASE AbortSink
    <3>1. ~leaked /\ part' = IF ToFile THEN part \ {Path(cur)} ELSE part
      BY <2>3, AbortTypes
    <3>2. part' = {}
      BY <2>1, <3>1 DEF PartInv, Piping
    <3> QED
      BY <3>2
  <2>4. CASE FinishFile
    <3>1. part' = part \ {Path(cur)} /\ UNCHANGED leaked
      BY <2>4 DEF FinishFile
    <3>2. part' = {}
      BY <2>1, <3>1 DEF PartInv, Piping
    <3> QED
      BY <3>2
  <2>5. CASE FinishClipboard \/ FinishCollection \/ WriteToCollection \/ InsertMany \/ Upsert
    <3>1. ~ToFile /\ UNCHANGED <<part, leaked>>
      BY <2>5 DEF FinishClipboard, FinishCollection, WriteToCollection, InsertMany, Upsert, ToFile, ToCollection,
                  Flushing, TransferTypes
    <3> QED
      BY <3>1 DEF PartInv
  <2>6. CASE UNCHANGED <<pc, part, leaked>>
    BY <1>1, <2>1, <2>6 DEF PartInv, Path
  <2> QED
    BY <1>6, <2>2, <2>3, <2>4, <2>5, <2>6
       DEF Pipeline, SinkStartFails, SourceFails, BadRow, WriteToOutput, Cancelled
<1> QED
  BY <1>2, <1>3, <1>4, <1>5, <1>6 DEF TransferNext

LEMMA FilesStay ==
    ASSUME Pipeline, ~FinishFile
    PROVE  UNCHANGED files
BY DEF Pipeline, SinkStartFails, SinkStarts, SourceFails, BadRow, WriteToCollection, InsertMany, Upsert,
       WriteToOutput, Cancelled, FinishClipboard, FinishCollection

(* A committed file has all good rows of its collection. *)
LEMMA FinishedFile ==
    ASSUME TransferTypes, PipeInv, FinishFile, files' # files
    PROVE  /\ ToFile /\ cur \in JobCollections /\ UNCHANGED cur
           /\ DOMAIN files' = DOMAIN files \cup {Path(cur)} /\ files'[Path(cur)] = Good(cur)
           /\ \A p \in DOMAIN files : p # Path(cur) => files'[p] = files[p]
<1>1. AtEnd /\ ToFile /\ UNCHANGED cur
      /\ files' = [p \in DOMAIN files \cup {Path(cur)} |-> IF p = Path(cur) THEN written ELSE files[p]]
  BY DEF FinishFile, PipelineOnly
<1>2. cur \in 1..Len(src) /\ JobCollections = 1..Len(src) /\ Good(cur) = RowsDone(cur, Len(src[cur]))
  <2>1. cur \in 1..Len(src)
    BY <1>1, SourceRows DEF AtEnd, TransferTypes, Piping
  <2> QED
    BY <2>1, SourceRows
<1>3. written = Good(cur)
  BY <1>1, <1>2 DEF PipeInv, AtEnd, Piping
<1> QED
  BY <1>1, <1>2, <1>3

LEMMA FilesNext ==
    ASSUME TransferTypes, PipeInv, FinalFileWhole, TransferNext
    PROVE  FinalFileWhole'
<1>1. JobCollections' = JobCollections /\ \A c : Good(c)' = Good(c) /\ Path(c)' = Path(c)
  BY JobStays, JobConstant
<1>2. CASE UNCHANGED files
  BY <1>1, <1>2 DEF FinalFileWhole
<1>3. CASE FinishFile /\ files' # files
  BY <1>1, <1>3, FinishedFile DEF FinalFileWhole
<1> QED
  BY <1>2, <1>3, FilesStay, AroundFrame DEF TransferNext, Around

-----------------------------------------------------------------------------
(* The target *)

(* A sequence without repetitions has as many elements as it is long. *)
LEMMA CountDistinct ==
    ASSUME NEW S, NEW s \in Seq(S), \A i, j \in 1..Len(s) : s[i] = s[j] => i = j
    PROVE  IsFiniteSet({s[i] : i \in 1..Len(s)}) /\ Cardinality({s[i] : i \in 1..Len(s)}) = Len(s)
<1> DEFINE T == {s[i] : i \in 1..Len(s)}
           f == [i \in 1..Len(s) |-> s[i]]
<1>1. Len(s) \in Nat
  OBVIOUS
<1>2. IsFiniteSet(1..Len(s)) /\ Cardinality(1..Len(s)) = Len(s)
  <2>1. 1 \in Int /\ Len(s) \in Int
    BY <1>1
  <2>2. IsFiniteSet(1..Len(s)) /\ Cardinality(1..Len(s)) = IF 1 > Len(s) THEN 0 ELSE Len(s) - 1 + 1
    BY <2>1, FS_Interval, Zenon
  <2> QED
    BY <1>1, <2>2
<1>3. f \in Bijection(1..Len(s), T)
  BY DEF Bijection, Injection, Surjection, IsInjective
<1> HIDE DEF T, f
<1>4. IsFiniteSet(T) /\ Cardinality(T) = Cardinality(1..Len(s))
  BY <1>2, <1>3, FS_Bijection DEF ExistsBijection
<1> QED
  BY <1>2, <1>4 DEF T

(* New documents in the target are new in the count. *)
LEMMA CountGrows ==
    ASSUME NEW all, IsFiniteSet(all), NEW new, IsFiniteSet(new), all \cap new = {}, Present \notin new,
           NEW n \in Nat, n <= Cardinality(all \ {Present})
    PROVE  /\ IsFiniteSet(all \cup new) /\ Cardinality(new) \in Nat
           /\ n + Cardinality(new) <= Cardinality((all \cup new) \ {Present})
<1> DEFINE rest == all \ {Present}
<1>1. IsFiniteSet(rest) /\ IsFiniteSet(all \cup new)
  BY FS_Difference, FS_Union
<1>2. (all \cup new) \ {Present} = rest \cup new /\ rest \cap new = {}
  OBVIOUS
<1> HIDE DEF rest
<1>3. Cardinality(rest \cup new) = Cardinality(rest) + Cardinality(new) - Cardinality(rest \cap new)
  BY <1>1, FS_Union
<1>4. Cardinality(rest) \in Nat /\ Cardinality(new) \in Nat /\ Cardinality({}) = 0
  BY <1>1, FS_CardinalityType, FS_EmptySet
<1>5. n + Cardinality(new) <= Cardinality(rest \cup new)
  <2>1. n <= Cardinality(rest) /\ Cardinality(rest \cap new) = 0
    BY <1>2, <1>4 DEF rest
  <2> QED
    BY <1>3, <1>4, <2>1
<1> QED
  BY <1>1, <1>2, <1>4, <1>5

LEMMA RowsDoneForm ==
    ASSUME TransferTypes, PipeInv, Piping, NEW d \in RowsDone(cur, row)
    PROVE  \E n \in Nat \ {0} : /\ d = <<cur, n>> /\ n <= row
                                /\ src[cur][n] \in {"id", "noid"}
<1>1. PICK n \in 1..row : d = <<cur, n>> /\ src[cur][n] # "bad"
  BY DEF RowsDone
<1>2. row \in Nat /\ cur \in 1..Len(src) /\ row <= Len(src[cur])
  BY SourceRows DEF TransferTypes, PipeInv
<1>3. Len(src[cur]) \in Nat /\ \A i \in 1..Len(src[cur]) : src[cur][i] \in RowKinds
  BY <1>2, SourceRows
<1>4. src[cur][n] \in RowKinds /\ n \in Nat \ {0} /\ n <= row
  BY <1>2, <1>3
<1> QED
  BY <1>1, <1>4 DEF RowKinds

(* The documents in the target stay where they are as the rows are read.   *)
LEMMA StoredOn ==
    ASSUME TransferTypes, StoredInv, Faithful, Faithful', Piping, UNCHANGED cur,
           Piping' \/ pc' \in {"returned", "conclude"}, row' \in Nat, row <= row',
           NEW d \in stored
    PROVE  d = Present \/ StoredHere(d)'
<1>1. CASE d = Present
  BY <1>1
<1>2. CASE d # Present
  <2>1. PICK c \in 1..cur, n \in Nat \ {0} :
          /\ d = <<c, n>>
          /\ c = cur => pc \notin {"start", "collection", "open"} /\ (Piping => n <= row)
    BY <1>2 DEF StoredInv, StoredHere
  <2>2. c = cur => n <= row' /\ pc' \notin {"start", "collection", "open"}
    BY <2>1 DEF TransferTypes, Piping
  <2> QED
    BY <2>1, <2>2 DEF StoredHere
<1> QED
  BY <1>1, <1>2

LEMMA AroundStored ==
    ASSUME TransferTypes, StoredInv, BatchInv, Around, UNCHANGED <<job, src>>
    PROVE  StoredInv' /\ BatchInv'
<1>1. /\ (Faithful' <=> Faithful) /\ (ToCollection' <=> ToCollection)
      /\ \A c, r : RowsDone(c, r)' = RowsDone(c, r)
  BY JobConstant
<1>2. cur \in Nat \ {0} /\ row \in Nat
  BY DEF TransferTypes
<1>3. CASE Cancel
  <2>1. UNCHANGED <<pc, cur, row, written, batch, stored, inserted>>
    BY <1>3 DEF Cancel
  <2> QED
    BY <1>1, <2>1 DEF StoredInv, BatchInv, StoredHere, Piping
<1>4. CASE OpenSource
  <2>1. /\ pc = "open" /\ pc' = "begin" /\ UNCHANGED <<cur, inserted>>
        /\ row' = 0 /\ written' = {} /\ batch' = <<>>
        /\ stored' = stored \/ stored' = stored \ {d \in stored : d[1] = cur}
    BY <1>4 DEF OpenSource, Here
  <2>2. BatchInv'
    BY <2>1 DEF BatchInv
  <2>3. StoredInv'
    <3> SUFFICES ASSUME Faithful
                 PROVE  /\ IsFiniteSet(stored') /\ inserted \in Nat
                        /\ inserted <= Cardinality(stored' \ {Present})
                        /\ \A d \in stored' : d = Present \/ StoredHere(d)'
      BY <1>1, <2>1 DEF StoredInv
    <3>1. \A d \in stored : d = Present \/ \E c \in 1..cur, n \in Nat \ {0} : d = <<c, n>> /\ c # cur
      BY <2>1 DEF StoredInv, StoredHere
    <3>2. stored' \subseteq stored /\ stored' \ {Present} = stored \ {Present}
      BY <2>1, <3>1
    <3>3. IsFiniteSet(stored')
      BY <3>2, FS_Subset DEF StoredInv
    <3>4. \A d \in stored' : d = Present \/ StoredHere(d)'
      BY <2>1, <3>1, <3>2 DEF StoredHere
    <3> QED
      BY <3>2, <3>3, <3>4 DEF StoredInv
  <2> QED
    BY <2>2, <2>3
<1>5. CASE ~Cancel /\ ~OpenSource
  <2>1. UNCHANGED <<row, written, batch, stored, inserted>> /\ ~Piping' /\ ~Piping
    BY <1>5, AroundFrame
  <2>2. /\ cur' = cur \/ cur' = cur + 1
        /\ cur' = cur /\ pc' \in {"start", "collection", "open"} => pc \in {"start", "collection", "open"}
    BY <1>2, <1>5 DEF Around, StartJob, StartExport, StartCopy, StartImport, StartDump, StartRestore, Started,
                NextCollection, EarlyReturn, PassOver, Returned, Conclude
  <2>3. ASSUME NEW d, StoredHere(d) PROVE StoredHere(d)'
    <3>1. PICK c \in 1..cur, n \in Nat \ {0} :
            d = <<c, n>> /\ (c = cur => pc \notin {"start", "collection", "open"})
      BY <2>3 DEF StoredHere
    <3>2. c \in 1..cur' /\ (c = cur' => pc' \notin {"start", "collection", "open"})
      BY <1>2, <2>2, <3>1
    <3> QED
      BY <2>1, <3>1, <3>2 DEF StoredHere
  <2>4. StoredInv'
    BY <1>1, <2>1, <2>3 DEF StoredInv
  <2>5. BatchInv'
    BY <2>1 DEF BatchInv
  <2> QED
    BY <2>4, <2>5
<1> QED
  BY <1>3, <1>4, <1>5

(* Steps of the pipeline that do not touch the target. *)
LEMMA ReadingStored ==
    ASSUME TransferTypes, PipeInv, PipeInv', StoredInv, BatchInv, UNCHANGED <<job, src, cur, stored, inserted>>,
           Piping, Piping' \/ pc' = "returned", row' \in Nat, row <= row',
           Piping' /\ ToCollection => \/ UNCHANGED <<batch, written>>
                                      \/ /\ row' = row + 1 /\ batch' = Append(batch, <<cur, row + 1>>)
                                         /\ written' = written \cup {<<cur, row + 1>>}
    PROVE  StoredInv' /\ BatchInv'
<1>1. /\ (Faithful' <=> Faithful) /\ (ToCollection' <=> ToCollection)
      /\ \A c, r : RowsDone(c, r)' = RowsDone(c, r)
  BY JobConstant
<1>2. StoredInv'
  BY <1>1, StoredOn DEF StoredInv
<1>3. BatchInv'
  <2> SUFFICES ASSUME Faithful, Piping', ToCollection
               PROVE  /\ batch' \in Seq(written')
                      /\ \A i \in 1..Len(batch') : batch'[i] \notin stored
                      /\ \A i, j \in 1..Len(batch') : batch'[i] = batch'[j] => i = j
                      /\ \A d \in written' : d \in stored \/ \E i \in 1..Len(batch') : batch'[i] = d
    BY <1>1 DEF BatchInv, PipeInv
  <2>1. /\ batch \in Seq(written) /\ written = RowsDone(cur, row)
        /\ \A i \in 1..Len(batch) : batch[i] \notin stored
        /\ \A i, j \in 1..Len(batch) : batch[i] = batch[j] => i = j
        /\ \A d \in written : d \in stored \/ \E i \in 1..Len(batch) : batch[i] = d
    BY DEF BatchInv, PipeInv
  <2>2. CASE UNCHANGED <<batch, written>>
    BY <2>1, <2>2
  <2>3. CASE /\ row' = row + 1 /\ batch' = Append(batch, <<cur, row + 1>>)
             /\ written' = written \cup {<<cur, row + 1>>}
    <3> DEFINE d == <<cur, row + 1>>
    <3>1. row \in Nat /\ cur \in Nat
      BY DEF TransferTypes
    <3>2. d \notin stored
      <4>1. ASSUME NEW c \in 1..cur, NEW n \in Nat \ {0}, d = <<c, n>>, c = cur => n <= row PROVE FALSE
        BY <4>1, <3>1
      <4>2. d # Present
        BY <3>1 DEF Present
      <4> QED
        BY <4>1, <4>2 DEF StoredInv, StoredHere
    <3>3. \A i \in 1..Len(batch) : batch[i] # d
      <4>1. d \notin written
        BY <2>1, <3>1, RowsDoneForm
      <4> QED
        BY <2>1, <4>1
    <3> HIDE DEF d
    <3>4. /\ Len(batch') = Len(batch) + 1 /\ Len(batch) \in Nat /\ batch'[Len(batch) + 1] = d
          /\ \A i \in 1..Len(batch) : batch'[i] = batch[i]
          /\ batch' \in Seq(written')
      <4>1. batch \in Seq(written') /\ d \in written' /\ batch' = Append(batch, d)
        <5>1. written \subseteq written' /\ d \in written' /\ batch' = Append(batch, d)
          BY <2>3 DEF d
        <5> QED
          BY <2>1, <5>1
      <4> QED
        BY <4>1
    <3>5. \A i \in 1..Len(batch') : i \in 1..Len(batch) \/ i = Len(batch) + 1
      BY <3>4
    <3>6. \A i \in 1..Len(batch') : batch'[i] \notin stored
      BY <2>1, <3>2, <3>4, <3>5
    <3>7. \A i, j \in 1..Len(batch') : batch'[i] = batch'[j] => i = j
      BY <2>1, <3>3, <3>4, <3>5
    <3>8. ASSUME NEW e \in written' PROVE e \in stored \/ \E i \in 1..Len(batch') : batch'[i] = e
      <4>1. e \in written \/ e = d
        BY <2>3 DEF d
      <4>2. 1..Len(batch) \subseteq 1..Len(batch') /\ Len(batch) + 1 \in 1..Len(batch')
        BY <3>4
      <4> QED
        BY <2>1, <3>4, <4>1, <4>2
    <3> QED
      BY <3>4, <3>6, <3>7, <3>8
  <2> QED
    BY <2>2, <2>3
<1> QED
  BY <1>2, <1>3

(* Documents of the batch reach the target. *)
LEMMA AddStored ==
    ASSUME TransferTypes, PipeInv, StoredInv, BatchInv, UNCHANGED <<job, src, cur, row, written>>,
           Piping, ToCollection, Faithful, Piping' \/ pc' = "returned",
           NEW k \in 0..Len(batch), stored' = stored \cup {batch[i] : i \in 1..k},
           inserted' = inserted \/ inserted' = inserted + k,
           Piping' => /\ Len(batch') = Len(batch) - k /\ batch' \in Seq(written)
                      /\ \A i \in 1..Len(batch') : batch'[i] = batch[i + k]
    PROVE  StoredInv' /\ BatchInv'
<1>1. /\ (Faithful' <=> Faithful) /\ (ToCollection' <=> ToCollection)
      /\ \A c, r : RowsDone(c, r)' = RowsDone(c, r)
  BY JobConstant
<1>2. /\ batch \in Seq(written) /\ written = RowsDone(cur, row) /\ Len(batch) \in Nat
      /\ \A i \in 1..Len(batch) : batch[i] \notin stored
      /\ \A i, j \in 1..Len(batch) : batch[i] = batch[j] => i = j
      /\ \A d \in written : d \in stored \/ \E i \in 1..Len(batch) : batch[i] = d
  BY DEF BatchInv, PipeInv
<1>3. IsFiniteSet(stored) /\ inserted \in Nat /\ inserted <= Cardinality(stored \ {Present})
      /\ \A d \in stored : d = Present \/ StoredHere(d)
  BY DEF StoredInv
<1>4. \A i \in 1..k : i \in 1..Len(batch)
  BY <1>2
<1>5. \A d \in written : d # Present /\ StoredHere(d)'
  <2> SUFFICES ASSUME NEW d \in written PROVE d # Present /\ StoredHere(d)'
    OBVIOUS
  <2>1. PICK n \in Nat \ {0} : d = <<cur, n>> /\ n <= row
    BY <1>2, RowsDoneForm
  <2>2. cur \in Nat \ {0}
    BY DEF TransferTypes
  <2>3. d # Present
    BY <2>1, <2>2 DEF Present
  <2>4. pc' \notin {"start", "collection", "open"} /\ cur' \in 1..cur'
    BY <2>2 DEF Piping
  <2> QED
    BY <2>1, <2>3, <2>4 DEF StoredHere
<1> DEFINE new == {batch[i] : i \in 1..k}
           s == SubSeq(batch, 1, k)
<1>6. s \in Seq(written) /\ Len(s) = k /\ \A i \in 1..k : s[i] = batch[i]
  BY <1>2
<1>7. new = {s[i] : i \in 1..Len(s)}
  BY <1>6
<1>8. IsFiniteSet(new) /\ Cardinality(new) = k
  <2> HIDE DEF s, new
  <2>1. \A i, j \in 1..Len(s) : s[i] = s[j] => i = j
    BY <1>2, <1>4, <1>6
  <2> QED
    BY <1>6, <1>7, <2>1, CountDistinct
<1>9. new \subseteq written /\ stored \cap new = {} /\ Present \notin new
  BY <1>2, <1>4, <1>5
<1>10. IsFiniteSet(stored') /\ inserted' \in Nat /\ inserted' <= Cardinality(stored' \ {Present})
  <2> HIDE DEF new
  <2>0. stored' = stored \cup new
    BY DEF new
  <2>1. IsFiniteSet(stored') /\ inserted + k <= Cardinality(stored' \ {Present})
    <3>1. /\ IsFiniteSet(stored \cup new)
          /\ inserted + Cardinality(new) <= Cardinality((stored \cup new) \ {Present})
      BY <1>3, <1>8, <1>9, CountGrows, Zenon
    <3> QED
      BY <1>8, <2>0, <3>1
  <2>2. Cardinality(stored' \ {Present}) \in Nat
    BY <2>1, FS_Difference, FS_CardinalityType
  <2>3. k \in Nat /\ inserted \in Nat
    BY <1>2, <1>3
  <2> QED
    BY <2>1, <2>2, <2>3
<1>11. \A d \in stored : d = Present \/ StoredHere(d)'
  <2>1. row \in Nat
    BY DEF TransferTypes
  <2> QED
    BY <1>1, <2>1, StoredOn
<1>12. StoredInv'
  BY <1>5, <1>9, <1>10, <1>11 DEF StoredInv
<1>13. BatchInv'
  <2> SUFFICES ASSUME Piping'
               PROVE  /\ \A i \in 1..Len(batch') : batch'[i] \notin stored'
                      /\ \A i, j \in 1..Len(batch') : batch'[i] = batch'[j] => i = j
                      /\ \A d \in written : d \in stored' \/ \E i \in 1..Len(batch') : batch'[i] = d
    BY <1>1, <1>2 DEF BatchInv
  <2>1. \A i \in 1..Len(batch') : i + k \in 1..Len(batch) /\ i + k \notin 1..k /\ batch'[i] = batch[i + k]
    BY <1>2
  <2>2. \A i \in 1..Len(batch') : batch'[i] \notin stored'
    BY <1>2, <1>4, <2>1
  <2>3. \A i, j \in 1..Len(batch') : batch'[i] = batch'[j] => i = j
    <3> SUFFICES ASSUME NEW i \in 1..Len(batch'), NEW j \in 1..Len(batch'), batch'[i] = batch'[j] PROVE i = j
      OBVIOUS
    <3>1. i + k = j + k
      BY <1>2, <2>1
    <3> QED
      BY <1>2, <3>1
  <2>4. ASSUME NEW d \in written PROVE d \in stored' \/ \E i \in 1..Len(batch') : batch'[i] = d
    <3>1. CASE d \in stored
      BY <3>1
    <3>2. CASE d \notin stored
      <4>1. PICK i \in 1..Len(batch) : batch[i] = d
        BY <1>2, <3>2
      <4>2. CASE i <= k
        BY <4>1, <4>2
      <4>3. CASE i > k
        <5>1. i - k \in 1..Len(batch') /\ (i - k) + k = i
          BY <1>2, <4>3
        <5>2. batch'[i - k] = d
          BY <4>1, <5>1, <2>1
        <5> QED
          BY <5>1, <5>2
      <4> QED
        BY <1>2, <4>2, <4>3
    <3> QED
      BY <3>1, <3>2
  <2> QED
    BY <2>2, <2>3, <2>4
<1> QED
  BY <1>12, <1>13

LEMMA StoredNext ==
    ASSUME TransferTypes, PipeInv, PipeInv', StoredInv, BatchInv, TransferNext
    PROVE  StoredInv' /\ BatchInv'
<1>0. UNCHANGED <<job, src>> /\ (Faithful' <=> Faithful) /\ (ToCollection' <=> ToCollection)
  BY JobStays, JobConstant
<1>1. CASE Around
  BY <1>0, <1>1, AroundStored
<1>2. CASE Pipeline
  <2>1. /\ UNCHANGED cur /\ Piping /\ (Piping' \/ pc' = "returned") /\ row \in Nat /\ row' \in Nat
    BY <1>2, PipelineFrame DEF Piping, TransferTypes
  <2>2. CASE ~InsertMany /\ ~Upsert
    <3>1. UNCHANGED <<stored, inserted>> /\ (row' = row \/ row' = row + 1)
      BY <1>2, <2>2
         DEF Pipeline, SinkStartFails, SinkStarts, SourceFails, BadRow, WriteToCollection, WriteToOutput,
             Cancelled, FinishFile, FinishClipboard, FinishCollection, Counters
    <3>2. ToCollection => \/ UNCHANGED <<batch, written>>
                          \/ /\ row' = row + 1 /\ batch' = Append(batch, <<cur, row + 1>>)
                             /\ written' = written \cup {<<cur, row + 1>>}
      BY <1>2, <2>2
         DEF Pipeline, SinkStartFails, SinkStarts, SourceFails, BadRow, WriteToCollection, WriteToOutput,
             Cancelled, FinishFile, FinishClipboard, FinishCollection, Counters
    <3>3. row <= row'
      BY <2>1, <3>1
    <3> QED
      BY <1>0, <2>1, <3>1, <3>2, <3>3, ReadingStored
  <2>3. CASE ~Faithful
    BY <1>0, <2>3 DEF StoredInv, BatchInv
  <2>4. CASE InsertMany /\ Faithful
    <3>1. ToCollection /\ UNCHANGED <<row, written>> /\ batch' = <<>>
      BY <2>4 DEF InsertMany, Flushing, TransferTypes
    <3>2. PICK k \in 0..Len(batch) :
            /\ stored' = stored \cup {batch[i] : i \in 1..k}
            /\ IF k = Len(batch) THEN inserted' = inserted + k /\ Flushed
               ELSE inserted' = inserted /\ Returns(FALSE, FALSE)
      BY <2>4 DEF InsertMany
    <3>3. Piping' => k = Len(batch)
      BY <3>2 DEF Returns, Piping
    <3>4. Len(batch) \in Nat
      BY <2>1, <2>4, <3>1 DEF BatchInv
    <3>5. Piping' => /\ Len(batch') = Len(batch) - k /\ batch' \in Seq(written)
                     /\ \A i \in 1..Len(batch') : batch'[i] = batch[i + k]
      BY <3>1, <3>3, <3>4
    <3> QED
      BY <1>0, <2>1, <2>4, <3>1, <3>2, <3>5, AddStored
  <2>5. CASE Upsert /\ Faithful
    <3>1. ToCollection /\ UNCHANGED <<row, written>>
      BY <2>5 DEF Upsert, Flushing, TransferTypes
    <3>2. batch \in Seq(written) /\ Len(batch) \in Nat
      BY <2>1, <2>5, <3>1 DEF BatchInv, PipeInv
    <3>3. CASE UNCHANGED <<stored, inserted>>
      <4>1. Piping' => UNCHANGED batch
        <5>1. inserted \in Nat
          BY <2>5 DEF StoredInv
        <5> QED
          BY <2>5, <3>3, <5>1 DEF Upsert, Returns, Piping
      <4> QED
        BY <1>0, <2>1, <3>1, <3>3, <4>1, ReadingStored
    <3>4. CASE batch # <<>> /\ batch' = Tail(batch) /\ inserted' = inserted + 1
               /\ stored' \in ReplaceOne(stored, Head(batch))
      <4>1. 1 \in 1..Len(batch) /\ Head(batch) = batch[1] /\ batch[1] \in written
        BY <3>2, <3>4
      <4>2. PICK n \in Nat \ {0} : batch[1] = <<cur, n>> /\ n <= row /\ src[cur][n] \in {"id", "noid"}
        BY <2>1, <4>1, RowsDoneForm DEF PipeInv
      <4>3. src[cur][n] # "noid"
        <5>1. cur \in JobCollections /\ n \in DOMAIN src[cur]
          <6>1. cur \in 1..Len(src) /\ row <= Len(src[cur])
            BY <2>1, SourceRows DEF TransferTypes, PipeInv
          <6>2. JobCollections = 1..Len(src) /\ DOMAIN src[cur] = 1..Len(src[cur]) /\ Len(src[cur]) \in Nat
            BY <6>1, SourceRows
          <6> QED
            BY <2>1, <4>2, <6>1, <6>2
        <5>2. Upserting /\ ~NoId
          BY <2>5 DEF Upsert, Faithful
        <5> QED
          BY <5>1, <5>2 DEF NoId
      <4>4. src[batch[1][1]][batch[1][2]] = "id"
        BY <4>2, <4>3
      <4>5. stored' = stored \cup {batch[1]}
        BY <3>4, <4>1, <4>4 DEF ReplaceOne
      <4>6. 1 \in 0..Len(batch) /\ stored' = stored \cup {batch[i] : i \in 1..1}
        BY <3>2, <4>1, <4>5
      <4>7. /\ Len(batch') = Len(batch) - 1 /\ batch' \in Seq(written)
            /\ \A i \in 1..Len(batch') : batch'[i] = batch[i + 1]
        BY <3>2, <3>4
      <4> QED
        BY <1>0, <2>1, <2>5, <3>1, <3>4, <4>6, <4>7, AddStored
    <3> QED
      BY <2>5, <3>3, <3>4 DEF Upsert
  <2> QED
    BY <2>2, <2>3, <2>4, <2>5
<1> QED
  BY <1>1, <1>2 DEF TransferNext, Around

-----------------------------------------------------------------------------
(* What is done is delivered *)

LEMMA GoodOf ==
    ASSUME NEW c, NEW d \in Good(c)
    PROVE  d[1] = c
BY DEF Good

(* A step keeps what is delivered, but the clipboard's rows. *)
LEMMA DeliveredStays ==
    ASSUME TransferTypes, PipeInv, BatchInv, StoredInv, TransferNext, ~job.shared, NEW c \in JobCollections, c # cur,
           Delivered(c), Looping
    PROVE  Delivered(c)'
<1>1. /\ UNCHANGED <<job, src>> /\ (Faithful' <=> Faithful) /\ (ToFile' <=> ToFile)
      /\ (ToCollection' <=> ToCollection) /\ Good(c)' = Good(c)
  BY JobStays, JobConstant
<1>2. job.command # "clipboard"
  BY DEF Looping
<1>3. ToFile => c \in DOMAIN files' /\ files'[c] = Good(c)
  <2>1. CASE UNCHANGED files
    BY <2>1 DEF Delivered
  <2>2. CASE FinishFile /\ files' # files
    BY <2>2, FinishedFile DEF Delivered, Path
  <2> QED
    BY <2>1, <2>2, FilesStay, AroundFrame DEF TransferNext, Around
<1>4. ToCollection /\ Faithful => Good(c) \subseteq stored'
  <2> SUFFICES ASSUME ToCollection, Faithful, NEW d \in Good(c) PROVE d \in stored'
    OBVIOUS
  <2>1. d \in stored /\ d[1] # cur
    BY GoodOf DEF Delivered
  <2>2. CASE UNCHANGED stored
    BY <2>1, <2>2
  <2>3. CASE OpenSource
    BY <2>1, <2>3 DEF OpenSource, Here
  <2>4. CASE InsertMany
    BY <2>1, <2>4 DEF InsertMany
  <2>5. CASE Upsert /\ stored' # stored
    <3>1. batch # <<>> /\ stored' \in ReplaceOne(stored, Head(batch)) /\ Piping
      BY <2>5 DEF Upsert, Flushing, Piping
    <3>2. Head(batch) \in RowsDone(cur, row)
      <4>1. batch \in Seq(RowsDone(cur, row))
        BY <3>1 DEF BatchInv
      <4> QED
        BY <3>1, <4>1
    <3>3. Head(batch)[1] = cur
      BY <3>1, <3>2, RowsDoneForm
    <3> QED
      BY <2>1, <3>1, <3>3 DEF ReplaceOne
  <2> QED
    BY <2>2, <2>3, <2>4, <2>5, AroundFrame
       DEF TransferNext, Around, Pipeline, SinkStartFails, SinkStarts, SourceFails, BadRow, WriteToCollection,
           WriteToOutput, Cancelled, FinishFile, FinishClipboard, FinishCollection
<1> QED
  BY <1>1, <1>2, <1>3, <1>4 DEF Delivered

(* The pipeline returns without an error, and not for a cancelled job:     *)
(* the collection is delivered.                                            *)
LEMMA ReturnDelivers ==
    ASSUME TransferTypes, PipeInv, PipeInv', BatchInv, StoredInv, Pipeline, TransferNext,
           pc' = "returned", ~failed', ~job.shared, ~(Looping /\ flag), Looping \/ ~seen', NEW c, c = cur
    PROVE  Delivered(c)'
<1>1. /\ UNCHANGED <<job, src, cur, flag>> /\ (Faithful' <=> Faithful) /\ (ToFile' <=> ToFile)
      /\ (ToCollection' <=> ToCollection) /\ Piping
  BY JobStays, JobConstant, PipelineFrame
<1>2. cur \in 1..Len(src)
  BY <1>1, SourceRows DEF TransferTypes
<1>3. Good(cur) = RowsDone(cur, Len(src[cur])) /\ cur \in JobCollections
  BY <1>2, SourceRows
<1>4. Delivered(c)' <=>   /\ ToFile => cur \in DOMAIN files' /\ files'[cur] = Good(cur)
                          /\ ToCollection /\ Faithful => Good(cur) \subseteq stored'
                          /\ job.command = "clipboard" => written' = Good(cur)
  BY <1>1 DEF Delivered, Good
<1>6. ~Returns(FALSE, FALSE)
  BY ReturnsTypes
<1>7. ~Cancelled
  <2> SUFFICES ASSUME Cancelled PROVE FALSE
    OBVIOUS
  <2>1. flag /\ Returns(TRUE, TRUE)
    BY DEF Cancelled
  <2>2. ~seen' => ~(TRUE /\ ~Looping)
    BY <2>1, ReturnsTypes
  <2> QED
    BY <2>1, <2>2
<1>8. CASE FinishFile
  <2>1. ToFile /\ ~ToCollection /\ job.command # "clipboard"
    BY <1>8 DEF FinishFile, ToFile, ToCollection
  <2>2. /\ AtEnd
        /\ files' = [p \in DOMAIN files \cup {Path(cur)} |-> IF p = Path(cur) THEN written ELSE files[p]]
    BY <1>6, <1>8 DEF FinishFile
  <2>3. written = Good(cur) /\ Path(cur) = cur
    BY <1>3, <2>2 DEF PipeInv, AtEnd, Piping, Path
  <2> QED
    BY <1>4, <2>1, <2>2, <2>3
<1>9. CASE FinishClipboard
  <2>1. ~ToFile /\ ~ToCollection /\ AtEnd /\ UNCHANGED written
    BY <1>9 DEF FinishClipboard, ToFile, ToCollection, Counters
  <2> QED
    BY <1>3, <1>4, <2>1 DEF PipeInv, AtEnd, Piping
<1>10. CASE InsertMany \/ Upsert
  <2>1. ToCollection /\ ~ToFile /\ job.command # "clipboard"
    BY <1>10 DEF InsertMany, Upsert, Flushing, TransferTypes, ToCollection, ToFile
  <2>2. pc = "finish"
    BY <1>6, <1>10 DEF InsertMany, Upsert, Flushing, Flushed
  <2>3. written = Good(cur)
    BY <1>3, <2>2 DEF PipeInv, Piping
  <2>4. Faithful => /\ batch \in Seq(RowsDone(cur, row))
                    /\ \A d \in written : d \in stored \/ \E i \in 1..Len(batch) : batch[i] = d
    BY <1>1, <2>1 DEF BatchInv
  <2>5. CASE InsertMany
    <3>1. PICK k \in 0..Len(batch) :
            /\ stored' = stored \cup {batch[i] : i \in 1..k}
            /\ IF k = Len(batch) THEN inserted' = inserted + k /\ Flushed
               ELSE inserted' = inserted /\ Returns(FALSE, FALSE)
      BY <2>5 DEF InsertMany
    <3>2. k = Len(batch)
      BY <1>6, <3>1
    <3> QED
      BY <1>4, <2>1, <2>3, <2>4, <3>1, <3>2
  <2>6. CASE Upsert
    <3>1. batch = <<>> /\ UNCHANGED stored
      BY <1>6, <2>2, <2>6 DEF Upsert
    <3> QED
      BY <1>4, <2>1, <2>3, <2>4, <3>1
  <2> QED
    BY <1>10, <2>5, <2>6
<1>11. CASE BadRow \/ WriteToCollection \/ WriteToOutput \/ SinkStarts \/ SinkStartFails \/ SourceFails \/ FinishCollection
  BY <1>6, <1>11 DEF BadRow, WriteToCollection, WriteToOutput, SinkStarts, SinkStartFails, SourceFails,
                     FinishCollection, HasRow
<1> QED
  BY <1>7, <1>8, <1>9, <1>10, <1>11 DEF Pipeline

LEMMA DeliveredSame ==
    ASSUME UNCHANGED <<job, src, files, stored, written>>, NEW c, Delivered(c)
    PROVE  Delivered(c)'
<1>1. /\ (Faithful' <=> Faithful) /\ (ToFile' <=> ToFile)
      /\ (ToCollection' <=> ToCollection) /\ Good(c)' = Good(c)
  BY JobConstant
<1> QED
  BY <1>1 DEF Delivered

LEMMA DeliveredNext ==
    ASSUME TransferTypes, TransferTypes', PipeInv, PipeInv', StoredInv, BatchInv, DeliveredInv, TransferNext
    PROVE  DeliveredInv'
<1>1. UNCHANGED <<job, src>> /\ JobCollections' = JobCollections /\ (Looping' <=> Looping)
  BY JobStays, JobConstant
<1> SUFFICES ASSUME ~failed', ~(Looping /\ flag'), ~job.shared, Looping \/ ~seen',
                    NEW c \in JobCollections \ passed', Behind(c)'
             PROVE  Delivered(c)'
  BY <1>1 DEF DeliveredInv
<1>2. ~failed /\ ~(Looping /\ flag) /\ (Looping \/ ~seen) /\ c \in JobCollections \ passed
  <2>1. CASE Pipeline
    BY <2>1, PipelineFrame
  <2>2. CASE Around
    <3>1. UNCHANGED failed /\ (UNCHANGED flag \/ ~flag)
      BY <2>2, AroundFrame DEF Cancel
    <3>2. passed \subseteq passed'
      BY <2>2
         DEF Around, Cancel, StartJob, StartExport, StartCopy, StartImport, StartDump, StartRestore, Started,
             NextCollection, EarlyReturn, PassOver, OpenSource, Returned, Conclude
    <3>3. UNCHANGED seen \/ seen' = TRUE
      BY <2>2
         DEF Around, Cancel, StartJob, StartExport, StartCopy, StartImport, StartDump, StartRestore, Started,
             NextCollection, EarlyReturn, PassOver, OpenSource, Returned, Conclude, Outcome
    <3> QED
      BY <3>1, <3>2, <3>3
  <2> QED
    BY <2>1, <2>2 DEF TransferNext, Around
<1>3. Behind(c) => Delivered(c)
  BY <1>2 DEF DeliveredInv
<1>4. c \in 1..Len(src) /\ Len(src) \in Nat /\ cur \in Nat /\ cur' \in Nat /\ (~Looping => cur = 1 /\ cur' = 1)
  BY <1>1, SourceRows DEF TransferTypes
<1>5. CASE Cancel
  <2>1. UNCHANGED <<pc, cur, files, stored, written>>
    BY <1>5 DEF Cancel
  <2> QED
    BY <1>1, <1>3, <2>1, DeliveredSame DEF Behind
<1>6. CASE Pipeline
  <2>1. UNCHANGED cur /\ Piping /\ pc' # "conclude"
    BY <1>6, PipelineFrame
  <2>2. CASE c = cur
    <3>1. pc' = "returned"
      BY <1>4, <2>1, <2>2 DEF Behind
    <3> QED
      BY <1>2, <1>6, <2>2, <3>1, ReturnDelivers
  <2>3. CASE c # cur
    <3>1. c < cur /\ Looping
      BY <1>4, <2>1, <2>3 DEF Behind, TransferTypes
    <3> QED
      BY <1>2, <1>3, <2>3, <3>1, DeliveredStays DEF Behind
  <2> QED
    BY <2>2, <2>3
<1>7. CASE Around /\ ~Cancel
  <2>1. CASE c < cur
    <3>1. Looping /\ c # cur
      BY <1>4, <2>1
    <3> QED
      BY <1>2, <1>3, <2>1, <3>1, DeliveredStays DEF Behind
  <2>2. CASE ~(c < cur)
    <3>1. CASE Returned
      <4>1. pc = "returned" /\ UNCHANGED <<files, stored, written>> /\ (cur' = cur \/ cur' = cur + 1)
            /\ (cur' = cur + 1 => pc' = "collection")
        BY <1>4, <3>1 DEF Returned, Counters
      <4>2. c = cur
        BY <1>4, <2>2, <4>1 DEF Behind
      <4> QED
        BY <1>1, <1>3, <4>1, <4>2, DeliveredSame DEF Behind
    <3>2. CASE PassOver
      BY <1>4, <2>2, <3>2 DEF PassOver, Behind
    <3>3. CASE NextCollection
      <4>1. UNCHANGED <<cur, flag>> /\ Looping
        BY <3>3 DEF NextCollection, Same, TransferTypes
      <4>2. c = cur /\ pc' = "conclude"
        BY <1>4, <2>2, <3>3, <4>1 DEF NextCollection, Behind
      <4> QED
        BY <1>2, <1>4, <3>3, <4>1, <4>2 DEF NextCollection
    <3>4. CASE StartJob \/ EarlyReturn \/ OpenSource \/ Conclude
      <4>1. UNCHANGED cur /\ pc' \notin {"returned", "conclude"}
        BY <3>4 DEF StartJob, StartExport, StartCopy, StartImport, StartDump, StartRestore, Started, EarlyReturn,
                    OpenSource, Conclude
      <4> QED
        BY <1>4, <2>2, <4>1 DEF Behind
    <3> QED
      BY <1>7, <3>1, <3>2, <3>3, <3>4 DEF Around
  <2> QED
    BY <2>1, <2>2
<1> QED
  BY <1>5, <1>6, <1>7 DEF TransferNext, Around

LEMMA DoneNext ==
    ASSUME TransferTypes, DeliveredInv, TransferNext
    PROVE  DoneMeansAllStored'
<1>1. /\ UNCHANGED <<job, src>> /\ JobCollections' = JobCollections /\ (Looping' <=> Looping)
      /\ (ToFile' <=> ToFile) /\ (ToCollection' <=> ToCollection) /\ (Upserting' <=> Upserting)
      /\ (NoId' <=> NoId) /\ \A c : Good(c)' = Good(c)
  BY JobStays, JobConstant
<1> SUFFICES ASSUME status' = "done", ~(Looping /\ flag'), ~job.shared, NEW c \in JobCollections \ passed'
             PROVE  /\ ToFile => c \in DOMAIN files' /\ files'[c] = Good(c)
                    /\ ToCollection /\ ~(Upserting /\ NoId) => Good(c) \subseteq stored'
                    /\ job.command = "clipboard" => written' = Good(c)
  BY <1>1 DEF DoneMeansAllStored
<1>2. Conclude
  <2>1. CASE Pipeline
    <3>1. status = "done" /\ Piping
      BY <2>1, PipelineFrame
    <3> QED
      BY <3>1 DEF TransferTypes, Piping
  <2>2. CASE Around /\ ~Conclude
    BY <2>2 DEF Around, Cancel, StartJob, StartExport, StartCopy, StartImport, StartDump, StartRestore, Started,
                NextCollection, EarlyReturn, PassOver, OpenSource, Returned, Outcome, TransferTypes
  <2> QED
    BY <2>1, <2>2 DEF TransferNext, Around
<1>3. /\ pc = "conclude" /\ ~seen /\ ~failed
      /\ UNCHANGED <<files, stored, written, passed, flag>>
  BY <1>2 DEF Conclude, Same, Counters
<1>4. c \in 1..Len(src) /\ Len(src) \in Nat /\ cur \in Nat
  BY SourceRows DEF TransferTypes
<1>5. Behind(c)
  BY <1>3, <1>4 DEF Behind, TransferTypes
<1>6. Delivered(c)
  BY <1>3, <1>5 DEF DeliveredInv
<1> QED
  BY <1>3, <1>6 DEF Delivered, Faithful

LEMMA TransferAlways == TransferSpec => []TransferInv
<1>1. TransferInv /\ [TransferNext]_transferVars => TransferInv'
  <2> SUFFICES ASSUME TransferInv, [TransferNext]_transferVars PROVE TransferInv'
    OBVIOUS
  <2>1. CASE TransferNext
    <3>1. TransferTypes' /\ PipeInv'
      BY <2>1, TypesNext, PipeNext DEF TransferInv
    <3>2. PartInv' /\ FinalFileWhole'
      BY <2>1, PartNext, FilesNext DEF TransferInv
    <3>3. StoredInv' /\ BatchInv'
      BY <2>1, <3>1, StoredNext DEF TransferInv
    <3>4. DeliveredInv' /\ DoneMeansAllStored'
      BY <2>1, <3>1, DeliveredNext, DoneNext DEF TransferInv
    <3> QED
      BY <3>1, <3>2, <3>3, <3>4 DEF TransferInv
  <2>2. CASE UNCHANGED transferVars
    <3>1. /\ JobCollections' = JobCollections /\ (Looping' <=> Looping) /\ (ToFile' <=> ToFile)
          /\ (ToCollection' <=> ToCollection) /\ (Upserting' <=> Upserting) /\ (NoId' <=> NoId)
          /\ (Faithful' <=> Faithful) /\ \A c : Good(c)' = Good(c)
          /\ \A c, r : RowsDone(c, r)' = RowsDone(c, r)
      BY <2>2, JobConstant DEF transferVars
    <3>2. Piping' <=> Piping
      BY <2>2 DEF transferVars, Piping
    <3>3. TransferTypes' /\ PipeInv'
      BY <2>2, <3>1, <3>2 DEF transferVars, TransferInv, TransferTypes, PipeInv
    <3>4. PartInv' /\ FinalFileWhole'
      BY <2>2, <3>1 DEF transferVars, TransferInv, PartInv, FinalFileWhole, Path
    <3>5. StoredInv' /\ BatchInv'
      BY <2>2, <3>1, <3>2 DEF transferVars, TransferInv, StoredInv, BatchInv, StoredHere
    <3>6. DeliveredInv' /\ DoneMeansAllStored'
      BY <2>2, <3>1 DEF transferVars, TransferInv, DeliveredInv, Delivered, Behind, DoneMeansAllStored
    <3> QED
      BY <3>3, <3>4, <3>5, <3>6 DEF TransferInv
  <2> QED
    BY <2>1, <2>2
<1> QED
  BY <1>1, InitTransferInv, PTL DEF TransferSpec

(* A transfer job never reports more than it did and leaves no half        *)
(* output: a final path holds the whole of one collection, "done" means    *)
(* that every good row has arrived, no document is counted that is not in  *)
(* the target, and a .part file is left only after a fault of the file     *)
(* system, wherever the job is cancelled or fails (core.rs, dump.rs,       *)
(* restore.rs, collection_sink.rs, io_util.rs).                            *)
THEOREM TransfersAlwaysTellTheTruth == TransferSpec => []TransfersTellTheTruth
<1>1. TransferInv => TransfersTellTheTruth
  <2> SUFFICES ASSUME TransferInv PROVE TransfersTellTheTruth
    OBVIOUS
  <2>1. InsertedNotOverstated
    BY DEF TransferInv, StoredInv, InsertedNotOverstated, Faithful
  <2>2. PartOnlyAfterFault
    BY DEF TransferInv, PartInv, PartOnlyAfterFault
  <2> QED
    BY <2>1, <2>2 DEF TransferInv, TransfersTellTheTruth
<1> QED
  BY <1>1, TransferAlways, PTL

-----------------------------------------------------------------------------
(* The epoch list *)

(* What every call that may close an epoch does to the list: nothing to    *)
(* the epochs closed before, the open one keeps its range, and at most one *)
(* new epoch is opened.                                                    *)
Grows(old, new) ==
  /\ new \in Seq(Epoch) /\ new # <<>>
  /\ Len(new) = Len(old) \/ Len(new) = Len(old) + 1
  /\ \A i \in 1..(Len(old) - 1) : new[i] = old[i]
  /\ new[Len(old)].oplog = old[Len(old)].oplog
  /\ Len(new) = Len(old) => new[Len(old)].end = old[Len(old)].end
  /\ Len(new) = Len(old) + 1 => new[Len(new)].oplog = NoRange /\ new[Len(new)].end = None

LEMMA LastEpoch ==
  ASSUME NEW es \in Seq(Epoch), es # <<>>
  PROVE  Len(es) \in Nat \ {0} /\ es[Len(es)] \in Epoch /\ \A i \in 1..Len(es) : es[i] \in Epoch
OBVIOUS

LEMMA ReplaceLast ==
  ASSUME NEW es \in Seq(Epoch), es # <<>>, NEW e \in Epoch
  PROVE  /\ [es EXCEPT ![Len(es)] = e] \in Seq(Epoch) /\ Len([es EXCEPT ![Len(es)] = e]) = Len(es)
         /\ [es EXCEPT ![Len(es)] = e] # <<>> /\ [es EXCEPT ![Len(es)] = e][Len(es)] = e
         /\ \A i \in 1..(Len(es) - 1) : [es EXCEPT ![Len(es)] = e][i] = es[i]
BY LastEpoch

(* Counting changes the open epoch's count only. *)
LEMMA CountedGrows ==
  ASSUME NEW es \in Seq(Epoch), es # <<>>, NEW c \in Nat
  PROVE  /\ Grows(es, [es EXCEPT ![Len(es)].count = c])
         /\ Len([es EXCEPT ![Len(es)].count = c]) = Len(es)
<1> DEFINE e == [es[Len(es)] EXCEPT !.count = c]
<1>1. Len(es) \in Nat \ {0} /\ es[Len(es)] \in Epoch
  BY LastEpoch
<1>2. e \in Epoch /\ e.oplog = es[Len(es)].oplog /\ e.end = es[Len(es)].end
  BY <1>1 DEF Epoch
<1>3. [es EXCEPT ![Len(es)].count = c] = [es EXCEPT ![Len(es)] = e]
  OBVIOUS
<1> HIDE DEF e
<1>4. PICK new : new = [es EXCEPT ![Len(es)] = e]
  OBVIOUS
<1>5. /\ new \in Seq(Epoch) /\ Len(new) = Len(es) /\ new # <<>> /\ new[Len(es)] = e
      /\ \A i \in 1..(Len(es) - 1) : new[i] = es[i]
  BY <1>2, <1>4, ReplaceLast
<1>6. Grows(es, new)
  BY <1>1, <1>2, <1>5 DEF Grows
<1> QED
  BY <1>3, <1>4, <1>5, <1>6

LEMMA CloseGrows ==
  ASSUME NEW es \in Seq(Epoch), es # <<>>, NEW end \in Nat, NEW l \in Nat
  PROVE  Grows(es, CloseAt(es, end, l)) /\ Len(CloseAt(es, end, l)) = Len(es) + 1
<1> DEFINE e == [es[Len(es)] EXCEPT !.end = end, !.root = FrozenRoot(end, l)]
           mid == [es EXCEPT ![Len(es)] = e]
           n == NewEpoch(end + 1)
<1>1. Len(es) \in Nat \ {0} /\ es[Len(es)] \in Epoch
  BY LastEpoch
<1>2. e \in Epoch /\ e.oplog = es[Len(es)].oplog
  BY <1>1 DEF Epoch, FrozenRoot, RootAfter
<1>3. mid \in Seq(Epoch) /\ Len(mid) = Len(es) /\ mid[Len(es)] = e
      /\ \A i \in 1..(Len(es) - 1) : mid[i] = es[i]
  <2> HIDE DEF e
  <2> QED
    BY <1>1, <1>2, ReplaceLast
<1>4. n \in Epoch /\ n.oplog = NoRange /\ n.end = None
  BY DEF NewEpoch, Epoch, None, NoRange
<1>5. CloseAt(es, end, l) = Append(mid, n)
  BY DEF CloseAt
<1> HIDE DEF e, mid, n
<1>6. /\ Append(mid, n) \in Seq(Epoch) /\ Len(Append(mid, n)) = Len(es) + 1
      /\ Append(mid, n)[Len(es) + 1] = n /\ Append(mid, n) # <<>>
      /\ \A i \in 1..Len(es) : Append(mid, n)[i] = mid[i]
  BY <1>1, <1>3, <1>4
<1> QED
  BY <1>1, <1>2, <1>3, <1>4, <1>5, <1>6 DEF Grows

LEMMA RecordGrows ==
  ASSUME NEW es \in Seq(Epoch), es # <<>>, NEW i \in Nat, NEW l \in Nat
  PROVE  Grows(es, RecordEvent(es, i, l))
<1> DEFINE c == es[Len(es)].count + 1
           counted == [es EXCEPT ![Len(es)].count = c]
<1>1. c \in Nat
  <2>1. es[Len(es)] \in Epoch
    BY LastEpoch
  <2> QED
    BY <2>1 DEF Epoch
<1>2. Grows(es, counted) /\ Len(counted) = Len(es)
  <2> HIDE DEF c
  <2> QED
    BY <1>1, CountedGrows
<1>3. RecordEvent(es, i, l) = CloseAt(counted, i, l) \/ RecordEvent(es, i, l) = counted
  BY DEF RecordEvent
<1> HIDE DEF counted
<1>4. Grows(counted, CloseAt(counted, i, l)) /\ Len(CloseAt(counted, i, l)) = Len(counted) + 1
  BY <1>2, CloseGrows DEF Grows
<1> QED
  BY <1>2, <1>3, <1>4, LastEpoch DEF Grows

LEMMA CloseCurrentGrows ==
  ASSUME NEW es \in Seq(Epoch), es # <<>>, NEW l \in Nat
  PROVE  Grows(es, CloseCurrent(es, l))
<1> DEFINE end == es[Len(es)].start + es[Len(es)].count - 1
<1>1. es[Len(es)].count > 0 => end \in Nat
  <2>1. es[Len(es)] \in Epoch
    BY LastEpoch
  <2> QED
    BY <2>1 DEF Epoch
<1>2. Grows(es, es)
  BY LastEpoch DEF Grows
<1>3. CASE es[Len(es)].count > 0 /\ end < l
  BY <1>1, <1>3, CloseGrows DEF CloseCurrent
<1>4. CASE ~(es[Len(es)].count > 0 /\ end < l)
  BY <1>2, <1>4 DEF CloseCurrent
<1> QED
  BY <1>3, <1>4

(* A reset leaves one open epoch without a range. *)
LEMMA ResetEpochs ==
  LET es == SyncOpen(Fresh, 0) IN
  es \in Seq(Epoch) /\ Len(es) = 1 /\ es[1].end = None /\ es[1].oplog = NoRange
<1> DEFINE e == [NewEpoch(0) EXCEPT !.count = 0]
<1>1. e \in Epoch /\ e.end = None /\ e.oplog = NoRange /\ NewEpoch(0).start = 0
  BY DEF NewEpoch, Epoch, None, NoRange
<1>2. ~Reached(0)
  BY ThresholdAssumption DEF Reached
<1>3. SyncOpen(Fresh, 0) = [Fresh EXCEPT ![Len(Fresh)].count = 0] /\ Len(Fresh) = 1
  <2>1. Fresh[Len(Fresh)].start = 0 /\ Len(Fresh) = 1
    BY <1>1 DEF Fresh
  <2>2. (IF 0 > Fresh[Len(Fresh)].start THEN 0 - Fresh[Len(Fresh)].start ELSE 0) = 0
    BY <2>1
  <2> QED
    BY <1>2, <2>1, <2>2, Zenon DEF SyncOpen
<1>4. [Fresh EXCEPT ![1].count = 0] = <<e>>
  BY DEF Fresh
<1> HIDE DEF e
<1> QED
  BY <1>1, <1>3, <1>4
-----------------------------------------------------------------------------
(* The audit commands' invariant *)

RangeRecs == [from : Nat \cup {None}, to : Nat \cup {None}]
Commitments == [root : Int \X Int, batch : Int \X Int \X Int, oplog : RangeRecs, first : Nat]
FlowSteps == {"idle", "preflight", "select", "range", "attach", "submit", "mark"}
Flows == [pc : FlowSteps, epoch : Nat \cup {None}, batch : Int \X Int \X Int, connected : BOOLEAN,
          target : Nat \cup {None}, root : Int \X Int, range : RangeRecs, first : Nat]

AuditTypes ==
    /\ log \in [gen : Nat, len : Nat] /\ epochs \in Seq(Epoch) /\ epochs # <<>>
    /\ nextOplog \in Nat /\ majority \in Nat /\ oldest \in Nat
    /\ chains \in [bundled : Seq(Commitments), own : Seq(Commitments)]
    /\ contract \in [name : {"bundled", "own"}, oplog : BOOLEAN]
    /\ flow \in Flows /\ crossed \in BOOLEAN
    /\ flow.pc \in {"range", "attach"} => flow.target # None
    /\ flow.pc = "mark" => flow.epoch # None
    /\ flow.pc = "attach" => flow.range.from \in Nat

(* No range goes beyond what the majority has. *)
WithinMajority ==
    /\ nextOplog <= majority /\ oldest <= majority
    /\ flow.range.to <= majority
    /\ \A i \in 1..Len(epochs) : epochs[i].oplog.to <= majority
    /\ \A c \in {"bundled", "own"} : \A i \in 1..Len(chains[c]) : chains[c][i].oplog.to <= majority

(* The last epoch is open, and an open epoch has no range. *)
OpenLast ==
    /\ epochs[Len(epochs)].end = None
    /\ \A i \in 1..Len(epochs) : epochs[i].oplog # NoRange => epochs[i].end # None

(* Each entry up to the next start is in one range; NoRange is an empty one. *)
InRange(e, x) == e.oplog.from <= x /\ x < e.oplog.to
Tiles(list, next) ==
    /\ \A x \in Int : (\E i \in 1..Len(list) : InRange(list[i], x)) <=> (0 <= x /\ x < next)
    /\ \A i, j \in 1..Len(list), x \in Int : InRange(list[i], x) /\ InRange(list[j], x) => i = j

(* A commit that is about to attach a range has read the current start and *)
(* an epoch without a range, unless a reset came in between.               *)
TileInv ==
    ~crossed =>
        /\ Tiles(epochs, nextOplog)
        /\ flow.pc \in {"range", "attach"} =>
              flow.target + 1 \in 1..Len(epochs) /\ epochs[flow.target + 1].oplog = NoRange
        /\ flow.pc = "attach" => flow.range.from = nextOplog

(* A hash begins where its range does, or where the oplog began then,      *)
(* which it still does or has left behind.                                 *)
Fits(range, first) ==
    /\ first \in Nat /\ range.from \in Nat /\ range.from <= first
    /\ first = range.from \/ first <= oldest
FirstInv ==
    /\ \A i \in 1..Len(epochs) : epochs[i].oplog # NoRange =>
          i - 1 \in DOMAIN hashed /\ Fits(epochs[i].oplog, hashed[i - 1])
    /\ flow.pc = "submit" /\ flow.range # NoRange => Fits(flow.range, flow.first)
    /\ \A c \in {"bundled", "own"} : \A i \in 1..Len(chains[c]) :
          chains[c][i].oplog # NoRange => Fits(chains[c][i].oplog, chains[c][i].first)

AuditInv == AuditTypes /\ WithinMajority /\ OpenLast /\ TileInv /\ FirstInv

-----------------------------------------------------------------------------
LEMMA NoRangeEmpty == NoRange \in RangeRecs /\ NoRange.to = None /\ NoRange.from = None /\ None = -1
BY DEF NoRange, RangeRecs, None

LEMMA FlowBegun ==
    ASSUME NEW step \in FlowSteps
    PROVE  /\ Flow(step) \in Flows /\ Flow(step).pc = step /\ Flow(step).range = NoRange
           /\ Flow(step).epoch = None /\ Flow(step).target = None
<1>1. NoBatch \in Int \X Int \X Int /\ EmptyRoot \in Int \X Int
  BY DEF NoBatch, EmptyRoot, None
<1> QED
  BY <1>1, NoRangeEmpty DEF Flow, Flows

LEMMA NoFlowType == NoFlow \in Flows /\ NoFlow.pc = "idle" /\ NoFlow.range = NoRange
BY FlowBegun DEF NoFlow, FlowSteps

(* Recording and closing keep the ranges as they are. *)
LEMMA GrowsInv ==
    ASSUME AuditInv, Grows(epochs, epochs'),
           UNCHANGED <<nextOplog, hashed, majority, oldest, chains, flow, crossed>>
    PROVE  /\ epochs' \in Seq(Epoch) /\ epochs' # <<>>
           /\ \A i \in 1..Len(epochs') : epochs'[i].oplog.to <= majority
           /\ OpenLast' /\ TileInv' /\ FirstInv'
<1>1. /\ Len(epochs) \in Nat \ {0} /\ Len(epochs') \in Nat \ {0} /\ majority \in Nat
      /\ epochs' \in Seq(Epoch) /\ epochs' # <<>>
  BY LastEpoch DEF AuditInv, AuditTypes, Grows
<1>2. \A i \in 1..Len(epochs) : i \in 1..Len(epochs') /\ epochs'[i].oplog = epochs[i].oplog
  BY <1>1 DEF Grows
<1>3. \A i \in 1..Len(epochs') : i \in 1..Len(epochs) \/ epochs'[i].oplog = NoRange
  BY <1>1 DEF Grows
<1>4. \A i \in 1..Len(epochs') : epochs'[i].oplog.to <= majority
  BY <1>1, <1>2, <1>3, NoRangeEmpty DEF AuditInv, WithinMajority
<1>5. OpenLast'
  <2>1. epochs'[Len(epochs')].end = None
    BY <1>1 DEF AuditInv, OpenLast, Grows
  <2>2. ASSUME NEW i \in 1..Len(epochs'), epochs'[i].oplog # NoRange PROVE epochs'[i].end # None
    <3>1. i \in 1..Len(epochs) /\ epochs[i].oplog # NoRange
      BY <1>2, <1>3, <2>2
    <3>2. i # Len(epochs)
      BY <3>1, <1>1 DEF AuditInv, OpenLast
    <3>3. epochs'[i] = epochs[i]
      BY <3>1, <3>2, <1>1 DEF Grows
    <3> QED
      BY <3>1, <3>3 DEF AuditInv, OpenLast
  <2> QED
    BY <2>1, <2>2 DEF OpenLast
<1>6. \A i \in 1..Len(epochs'), x \in Int :
        InRange(epochs'[i], x) <=> (i \in 1..Len(epochs) /\ InRange(epochs[i], x))
  BY <1>2, <1>3, NoRangeEmpty DEF InRange
<1>7. Tiles(epochs, nextOplog) => Tiles(epochs', nextOplog)
  BY <1>2, <1>6 DEF Tiles
<1>8. TileInv'
  BY <1>1, <1>2, <1>7 DEF AuditInv, TileInv
<1>9. FirstInv'
  <2>1. \A r, x : Fits(r, x)' <=> Fits(r, x)
    BY DEF Fits
  <2> QED
    BY <1>2, <1>3, <2>1 DEF AuditInv, FirstInv
<1> QED
  BY <1>1, <1>4, <1>5, <1>8, <1>9

LEMMA InitAuditInv == AuditInit => AuditInv
<1> SUFFICES ASSUME AuditInit PROVE AuditInv
  OBVIOUS
<1> DEFINE e == NewEpoch(0)
<1>1. e \in Epoch /\ e.end = None /\ e.oplog = NoRange
  BY DEF NewEpoch, Epoch, None, NoRange
<1>2. epochs = <<e>>
  BY DEF AuditInit, Fresh
<1> HIDE DEF e
<1>3. epochs \in Seq(Epoch) /\ epochs # <<>> /\ Len(epochs) = 1 /\ epochs[1] = e
  BY <1>1, <1>2
<1>4. AuditTypes
  <2>1. flow \in Flows /\ flow.pc = "idle"
    BY NoFlowType DEF AuditInit
  <2>2. chains \in [bundled : Seq(Commitments), own : Seq(Commitments)]
    BY DEF AuditInit
  <2>3. log \in [gen : Nat, len : Nat]
    BY DEF AuditInit
  <2> QED
    BY <1>3, <2>1, <2>2, <2>3 DEF AuditInit, AuditTypes
<1>5. WithinMajority
  BY <1>1, <1>3, NoRangeEmpty, NoFlowType DEF AuditInit, WithinMajority
<1>6. OpenLast
  BY <1>1, <1>3 DEF OpenLast
<1>7. TileInv
  BY <1>1, <1>3, NoRangeEmpty, NoFlowType DEF AuditInit, TileInv, Tiles, InRange
<1>8. FirstInv
  BY <1>1, <1>3, NoFlowType DEF AuditInit, FirstInv
<1> QED
  BY <1>4, <1>5, <1>6, <1>7, <1>8 DEF AuditInv

LEMMA EventAuditInv ==
    ASSUME AuditInv, RecordAuditEvent \/ AuditCloseEpoch
    PROVE  AuditInv'
<1>1. /\ log \in [gen : Nat, len : Nat] /\ epochs \in Seq(Epoch) /\ epochs # <<>>
      /\ log' \in [gen : Nat, len : Nat]
      /\ UNCHANGED <<nextOplog, hashed, majority, oldest, chains, contract, flow, crossed>>
  BY DEF AuditInv, AuditTypes, RecordAuditEvent, AuditCloseEpoch, world
<1>2. Grows(epochs, epochs')
  <2>1. CASE RecordAuditEvent
    BY <1>1, <2>1, RecordGrows DEF RecordAuditEvent
  <2>2. CASE AuditCloseEpoch
    BY <1>1, <2>2, CloseCurrentGrows DEF AuditCloseEpoch
  <2> QED
    BY <2>1, <2>2
<1>3. /\ epochs' \in Seq(Epoch) /\ epochs' # <<>>
      /\ \A i \in 1..Len(epochs') : epochs'[i].oplog.to <= majority
      /\ OpenLast' /\ TileInv' /\ FirstInv'
  BY <1>1, <1>2, GrowsInv
<1>4. AuditTypes'
  BY <1>1, <1>3 DEF AuditInv, AuditTypes
<1>5. WithinMajority'
  BY <1>1, <1>3 DEF AuditInv, WithinMajority
<1> QED
  BY <1>3, <1>4, <1>5 DEF AuditInv

LEMMA ResetAuditInv ==
    ASSUME AuditInv, NEW saved \in BOOLEAN, AuditResetData(saved)
    PROVE  AuditInv'
<1>1. /\ log' \in [gen : Nat, len : Nat]
      /\ UNCHANGED <<majority, oldest, chains, contract, flow>> /\ nextOplog' = 0
      /\ majority \in Nat
  BY DEF AuditInv, AuditTypes, AuditResetData, world
<1>2. crossed' \in BOOLEAN /\ (flow.pc # "idle" => crossed')
  BY Zenon DEF AuditResetData
<1>3. /\ epochs' \in Seq(Epoch) /\ Len(epochs') = 1 /\ epochs' # <<>>
      /\ epochs'[1].end = None /\ epochs'[1].oplog = NoRange
  BY ResetEpochs DEF AuditResetData
<1>4. AuditTypes'
  BY <1>1, <1>2, <1>3 DEF AuditInv, AuditTypes
<1>5. WithinMajority'
  BY <1>1, <1>3, NoRangeEmpty DEF AuditInv, WithinMajority
<1>6. OpenLast'
  BY <1>3 DEF OpenLast
<1>7. Tiles(epochs', nextOplog')
  BY <1>1, <1>3, NoRangeEmpty DEF Tiles, InRange
<1>8. TileInv'
  BY <1>1, <1>2, <1>7 DEF TileInv
<1>9. FirstInv'
  <2>1. \A r, x : Fits(r, x)' <=> Fits(r, x)
    BY <1>1 DEF Fits
  <2> QED
    BY <1>1, <1>3, <2>1 DEF AuditInv, FirstInv
<1> QED
  BY <1>4, <1>5, <1>6, <1>8, <1>9 DEF AuditInv

LEMMA WorldAuditInv ==
    ASSUME AuditInv, MajorityAdvances \/ OplogRollsOver
    PROVE  AuditInv'
<1>1. /\ majority \in Nat /\ oldest \in Nat /\ majority' \in Nat /\ oldest' \in Nat
      /\ majority <= majority' /\ oldest' <= majority' /\ oldest <= oldest'
      /\ UNCHANGED <<log, epochs, nextOplog, hashed, chains, contract, flow, crossed>>
  BY DEF AuditInv, AuditTypes, WithinMajority, MajorityAdvances, OplogRollsOver
<1>2. AuditTypes'
  BY <1>1 DEF AuditInv, AuditTypes
<1>3. WithinMajority'
  <2>1. \A r \in RangeRecs : r.to <= majority => r.to <= majority'
    BY <1>1, NoRangeEmpty DEF RangeRecs
  <2>2. flow.range \in RangeRecs /\ nextOplog \in Nat
    BY DEF AuditInv, AuditTypes, Flows
  <2>3. \A i \in 1..Len(epochs) : epochs[i].oplog \in RangeRecs
    <3>1. \A i \in 1..Len(epochs) : epochs[i] \in Epoch
      BY LastEpoch DEF AuditInv, AuditTypes
    <3> QED
      BY <3>1 DEF Epoch, RangeRecs
  <2>4. \A c \in {"bundled", "own"} : \A i \in 1..Len(chains[c]) : chains[c][i].oplog \in RangeRecs
    <3>1. \A c \in {"bundled", "own"} : chains[c] \in Seq(Commitments)
      BY DEF AuditInv, AuditTypes
    <3>2. \A c \in {"bundled", "own"} : \A i \in 1..Len(chains[c]) : chains[c][i] \in Commitments
      BY <3>1
    <3> QED
      BY <3>2 DEF Commitments
  <2> QED
    BY <1>1, <2>1, <2>2, <2>3, <2>4 DEF AuditInv, WithinMajority
<1>4. OpenLast' /\ TileInv'
  BY <1>1 DEF AuditInv, OpenLast, TileInv
<1>5. FirstInv'
  <2>1. \A r, x : Fits(r, x) => Fits(r, x)'
    BY <1>1 DEF Fits
  <2> QED
    BY <1>1, <2>1 DEF AuditInv, FirstInv
<1> QED
  BY <1>2, <1>3, <1>4, <1>5 DEF AuditInv

(* A step of a commit that attaches nothing. *)
LEMMA FlowAuditInv ==
    ASSUME AuditInv,
           UNCHANGED <<log, epochs, nextOplog, hashed, majority, oldest, chains, contract, crossed>>,
           flow' \in Flows, flow'.range.to <= majority,
           flow'.pc = "mark" => flow'.epoch # None,
           flow'.pc \in {"range", "attach"} => flow'.target # None,
           ~crossed /\ flow'.pc \in {"range", "attach"} =>
               flow'.target + 1 \in 1..Len(epochs) /\ epochs[flow'.target + 1].oplog = NoRange,
           ~crossed /\ flow'.pc = "attach" => flow'.range.from = nextOplog,
           flow'.pc = "attach" => flow'.range.from \in Nat,
           flow'.pc = "submit" /\ flow'.range # NoRange => Fits(flow'.range, flow'.first)
    PROVE  AuditInv'
<1>1. AuditTypes'
  BY DEF AuditInv, AuditTypes
<1>2. WithinMajority'
  BY DEF AuditInv, WithinMajority
<1>3. OpenLast' /\ TileInv'
  BY DEF AuditInv, OpenLast, TileInv
<1>4. FirstInv'
  <2>1. \A r, x : Fits(r, x)' <=> Fits(r, x)
    BY DEF Fits
  <2> QED
    BY <2>1 DEF AuditInv, FirstInv
<1> QED
  BY <1>1, <1>2, <1>3, <1>4 DEF AuditInv

LEMMA RangeSmall == AuditTypes => majority \in Nat /\ NoRange.to <= majority
BY NoRangeEmpty DEF AuditTypes

LEMMA NoFlowAuditInv ==
    ASSUME AuditInv, UNCHANGED <<log, epochs, nextOplog, hashed, majority, oldest, chains, contract, crossed>>,
           flow' = NoFlow
    PROVE  AuditInv'
BY FlowAuditInv, NoFlowType, RangeSmall DEF AuditInv

LEMMA BeginAuditInv ==
    ASSUME AuditInv,
           \/ \E n \in Sealed, connected \in BOOLEAN : PublishEpoch(n, connected)
           \/ \E connected \in BOOLEAN : CommitUnpublished(connected)
    PROVE  AuditInv'
<1>1. /\ Flow("preflight") \in Flows /\ Flow("preflight").pc = "preflight"
      /\ Flow("preflight").range = NoRange
  BY FlowBegun DEF FlowSteps
<1>2. CASE \E n \in Sealed, connected \in BOOLEAN : PublishEpoch(n, connected)
  <2>1. PICK n \in Sealed, connected \in BOOLEAN : PublishEpoch(n, connected)
    BY <1>2
  <2>2. n \in Nat /\ ExtractEpochBatch(epochs[n + 1]) \in Int \X Int \X Int
    <3>1. n \in 0..(Len(epochs) - 1) /\ Len(epochs) \in Nat
      BY DEF Sealed, AuditInv, AuditTypes
    <3>2. epochs[n + 1] \in Epoch
      BY <3>1, LastEpoch DEF AuditInv, AuditTypes
    <3>3. log.gen \in Int /\ epochs[n + 1].start \in Int /\ epochs[n + 1].end \in Int
      <4>1. log.gen \in Int
        BY DEF AuditInv, AuditTypes
      <4>2. PICK e \in Epoch : e = epochs[n + 1]
        BY <3>2
      <4>3. e.start \in Int /\ e.end \in Int
        BY DEF Epoch, None
      <4> QED
        BY <4>1, <4>2, <4>3
    <3> QED
      BY <3>1, <3>3 DEF ExtractEpochBatch
  <2>3. /\ flow' \in Flows /\ flow'.pc = "preflight" /\ flow'.range = NoRange
    <3> DEFINE sent == ExtractEpochBatch(epochs[n + 1])
    <3>1. flow' = [Flow("preflight") EXCEPT !.epoch = n, !.connected = connected, !.batch = sent]
      BY <2>1 DEF PublishEpoch
    <3> HIDE DEF sent
    <3> QED
      BY <1>1, <2>2, <3>1 DEF Flows, sent
  <2>4. UNCHANGED <<log, epochs, nextOplog, hashed, majority, oldest, chains, contract, crossed>>
    BY <2>1 DEF PublishEpoch, world
  <2> QED
    BY <2>3, <2>4, FlowAuditInv, RangeSmall DEF AuditInv
<1>3. CASE \E connected \in BOOLEAN : CommitUnpublished(connected)
  <2>1. PICK connected \in BOOLEAN : CommitUnpublished(connected)
    BY <1>3
  <2>2. /\ flow' \in Flows /\ flow'.pc = "preflight" /\ flow'.range = NoRange
    <3>1. flow' = [Flow("preflight") EXCEPT !.connected = connected]
      BY <2>1 DEF CommitUnpublished
    <3> QED
      BY <1>1, <3>1 DEF Flows
  <2>3. UNCHANGED <<log, epochs, nextOplog, hashed, majority, oldest, chains, contract, crossed>>
    BY <2>1 DEF CommitUnpublished, world
  <2> QED
    BY <2>2, <2>3, FlowAuditInv, RangeSmall DEF AuditInv
<1> QED
  BY <1>2, <1>3

LEMMA PreflightAuditInv ==
    ASSUME AuditInv, NEW admin, Preflight(admin)
    PROVE  AuditInv'
<1>1. UNCHANGED <<log, epochs, nextOplog, hashed, majority, oldest, chains, contract, crossed>>
  BY DEF Preflight, world
<1>2. CASE flow' = NoFlow
  BY <1>1, <1>2, NoFlowAuditInv
<1>3. CASE flow' = [flow EXCEPT !.pc = "select"]
  <2>1. flow \in Flows /\ flow.range.to <= majority
    BY DEF AuditInv, AuditTypes, WithinMajority
  <2>2. flow' \in Flows /\ flow'.pc = "select" /\ flow'.range = flow.range
    BY <1>3, <2>1 DEF Flows, FlowSteps
  <2> QED
    BY <1>1, <2>1, <2>2, FlowAuditInv
<1> QED
  BY <1>2, <1>3 DEF Preflight

LEMMA SealedEpochs ==
    ASSUME AuditTypes
    PROVE  /\ Sealed \subseteq 0..(Len(epochs) - 1) /\ Len(epochs) \in Nat /\ IsFiniteSet(Sealed)
           /\ \A n \in Sealed : n \in Nat /\ n + 1 \in 1..Len(epochs) /\ epochs[n + 1] \in Epoch
<1>1. Len(epochs) \in Nat \ {0} /\ \A i \in 1..Len(epochs) : epochs[i] \in Epoch
  BY LastEpoch DEF AuditTypes
<1>2. Sealed \subseteq 0..(Len(epochs) - 1)
  BY DEF Sealed
<1>3. IsFiniteSet(0..(Len(epochs) - 1))
  BY <1>1, FS_Interval
<1>4. IsFiniteSet(Sealed)
  BY <1>2, <1>3, FS_Subset
<1>5. \A n \in Sealed : n \in Nat /\ n + 1 \in 1..Len(epochs)
  BY <1>1, <1>2
<1> QED
  BY <1>1, <1>2, <1>4, <1>5

(* The newest epoch of a set of sealed ones. *)
LEMMA NewestEpoch ==
    ASSUME NEW n \in Nat, NEW T \in SUBSET (0..n), T # {}
    PROVE  Max(T) \in T
<1> DEFINE U == {u \in Nat : \A t \in T : t <= u}
<1>1. n \in U /\ U \in SUBSET Nat
  OBVIOUS
<1>2. PICK u \in U : \A v \in U : u <= v
  <2>1. PICK x \in U : \A y \in U : ~(<<y, x>> \in OpToRel(<, Nat))
    BY <1>1, WFMin, NatLessThanWellFounded
  <2>2. ASSUME NEW y \in U PROVE x <= y
    <3>1. ~(<<y, x>> \in {ss \in Nat \X Nat : ss[1] < ss[2]})
      BY <2>1, Zenon DEF OpToRel
    <3> QED
      BY <3>1
  <2> QED
    BY <2>2
<1>3. u \in T
  <2> SUFFICES ASSUME u \notin T PROVE FALSE
    OBVIOUS
  <2>1. \A t \in T : t <= u /\ t # u /\ t \in Nat
    OBVIOUS
  <2>2. u \in Nat /\ u # 0
    <3>1. PICK t \in T : TRUE
      OBVIOUS
    <3> QED
      BY <2>1, <3>1
  <2>3. u - 1 \in U
    BY <2>1, <2>2
  <2> QED
    BY <2>3, <1>2, <2>2
<1>4. \A y \in T : u >= y
  BY <1>2
<1> QED
  BY <1>3, <1>4, Zenon DEF Max

LEMMA SelectAuditInv ==
    ASSUME AuditInv, SelectTarget
    PROVE  AuditInv'
<1> DEFINE open   == {n \in Sealed : ~epochs[n + 1].committed}
           target == IF open = {} THEN None ELSE Max(open)
           root   == IF target = None THEN LiveRoot ELSE <<log.gen, epochs[target + 1].root>>
           range  == IF target = None THEN NoRange ELSE AttachedRange(epochs[target + 1])
           first  == IF range = NoRange THEN 0 ELSE hashed[target]
           step   == IF target # None /\ flow.connected /\ range = NoRange THEN "range" ELSE "submit"
<1>1. UNCHANGED <<log, epochs, nextOplog, hashed, majority, oldest, chains, contract, crossed>>
  BY DEF SelectTarget, world
<1>2. flow' = NoFlow \/ flow' = [flow EXCEPT !.target = target, !.root = root, !.range = range,
                                     !.first = first, !.pc = step]
  BY Zenon DEF SelectTarget
<1>3. target = None \/ (target \in Sealed /\ target # None)
  <2>1. open \in SUBSET (0..(Len(epochs) - 1)) /\ Len(epochs) - 1 \in Nat /\ open \subseteq Sealed
    BY SealedEpochs, LastEpoch DEF AuditInv, AuditTypes
  <2>2. open # {} => Max(open) \in open
    <3> HIDE DEF open
    <3> QED
      BY <2>1, NewestEpoch
  <2>3. \A n \in Sealed : n # None
    BY SealedEpochs, NoRangeEmpty DEF AuditInv
  <2> HIDE DEF open
  <2> QED
    BY <2>1, <2>2, <2>3
<1> HIDE DEF target
<1>4. target \in Nat \cup {None} /\ (target # None => target + 1 \in 1..Len(epochs) /\ epochs[target + 1] \in Epoch)
  BY <1>3, SealedEpochs DEF AuditInv
<1>5. range \in RangeRecs /\ range.to <= majority
  <2>1. CASE target = None
    BY <2>1, NoRangeEmpty, RangeSmall DEF AuditInv
  <2>2. CASE target # None
    BY <2>2, <1>4 DEF AttachedRange, AuditInv, WithinMajority, Epoch, RangeRecs
  <2> QED
    BY <2>1, <2>2
<1>6. root \in Int \X Int
  <2>1. LiveRoot \in Int \X Int
    BY DEF LiveRoot, EmptyRoot, None, AuditInv, AuditTypes
  <2>2. target # None => epochs[target + 1].root \in Int
    BY <1>4 DEF Epoch, None
  <2>3. log.gen \in Int
    BY DEF AuditInv, AuditTypes
  <2> QED
    BY <2>1, <2>2, <2>3
<1>7. /\ step \in {"range", "submit"}
      /\ step = "range" => target # None /\ epochs[target + 1].oplog = NoRange
  BY DEF AttachedRange
<1>10. first \in Nat /\ (range # NoRange => Fits(range, first))
  <2>1. CASE range = NoRange
    BY <2>1
  <2>2. CASE range # NoRange
    <3>1. target # None /\ range = epochs[target + 1].oplog /\ first = hashed[target]
      BY <2>2 DEF AttachedRange
    <3>2. (target + 1) - 1 = target
      BY <1>4, <3>1, NoRangeEmpty
    <3>3. Fits(epochs[target + 1].oplog, hashed[target])
      BY <1>4, <2>2, <3>1, <3>2 DEF AuditInv, FirstInv
    <3> QED
      BY <3>1, <3>3 DEF Fits
  <2> QED
    BY <2>1, <2>2
<1> HIDE DEF root, range, step, first
<1>8. CASE flow' = NoFlow
  BY <1>1, <1>8, NoFlowAuditInv
<1>9. CASE flow' = [flow EXCEPT !.target = target, !.root = root, !.range = range,
                                     !.first = first, !.pc = step]
  <2>1. flow \in Flows
    BY DEF AuditInv, AuditTypes
  <2>2. /\ flow' \in Flows /\ flow'.pc = step /\ flow'.range = range /\ flow'.target = target
        /\ flow'.first = first
    BY <1>4, <1>5, <1>6, <1>7, <1>9, <1>10, <2>1 DEF Flows, FlowSteps
  <2> QED
    BY <1>1, <1>4, <1>5, <1>7, <1>10, <2>2, FlowAuditInv
<1> QED
  BY <1>2, <1>8, <1>9

LEMMA ReadRangeAuditInv ==
    ASSUME AuditInv, ReadRangeStart
    PROVE  AuditInv'
<1>1. UNCHANGED <<log, epochs, nextOplog, hashed, majority, oldest, chains, contract, crossed>>
  BY DEF ReadRangeStart, world
<1>2. flow \in Flows /\ nextOplog \in Nat /\ flow.pc = "range"
  BY DEF AuditInv, AuditTypes, ReadRangeStart
<1>3. /\ flow' \in Flows /\ flow'.pc = "attach" /\ flow'.target = flow.target
      /\ flow'.range.from = nextOplog /\ flow'.range.to = flow.range.to
  BY <1>2 DEF Flows, FlowSteps, ReadRangeStart, RangeRecs
<1>4. /\ flow.target # None /\ flow.range.to <= majority
      /\ ~crossed => flow.target + 1 \in 1..Len(epochs) /\ epochs[flow.target + 1].oplog = NoRange
  BY <1>2 DEF AuditInv, AuditTypes, WithinMajority, TileInv
<1> QED
  BY <1>1, <1>2, <1>3, <1>4, FlowAuditInv

(* The range from the next start to the majority point goes to an epoch    *)
(* without one: what was covered stays covered once, and so is the rest.   *)
LEMMA AttachAuditInv ==
    ASSUME AuditInv, NEW reachable \in BOOLEAN, AttachRange(reachable)
    PROVE  AuditInv'
<1>1. UNCHANGED <<log, majority, oldest, chains, contract, crossed>> /\ flow.pc = "attach"
  BY DEF AttachRange, world
<1>2. CASE ~(reachable /\ flow.target \in Sealed)
  <2>1. UNCHANGED <<epochs, nextOplog, hashed>> /\ flow' = NoFlow
    BY <1>2 DEF AttachRange
  <2> QED
    BY <1>1, <2>1, NoFlowAuditInv
<1>3. CASE reachable /\ flow.target \in Sealed
  <2> DEFINE k == flow.target + 1
             range == [from |-> flow.range.from, to |-> majority]
             e == [epochs[k] EXCEPT !.oplog = range]
             first == IF oldest > flow.range.from THEN oldest ELSE flow.range.from
  <2>1. /\ epochs' = [epochs EXCEPT ![k].oplog = range] /\ nextOplog' = majority
        /\ flow' = [flow EXCEPT !.pc = "submit", !.range.to = majority, !.first = first]
        /\ hashed' = [n \in DOMAIN hashed \cup {flow.target} |->
                         IF n = flow.target THEN first ELSE hashed[n]]
    BY <1>3 DEF AttachRange, AttachOplogHash
  <2>2. /\ flow \in Flows /\ majority \in Nat /\ nextOplog \in Nat /\ epochs \in Seq(Epoch)
        /\ nextOplog <= majority /\ oldest <= majority /\ oldest \in Nat
    BY DEF AuditInv, AuditTypes, WithinMajority
  <2>3. k \in 1..Len(epochs) /\ epochs[k] \in Epoch /\ Len(epochs) \in Nat /\ epochs[k].end # None
    BY <1>3, SealedEpochs DEF AuditInv, Sealed, IsOpen
  <2>4. range \in RangeRecs /\ range.to = majority /\ range.from = flow.range.from
    BY <2>2 DEF Flows, RangeRecs
  <2>5. e \in Epoch /\ e.oplog = range /\ e.end = epochs[k].end
    <3> HIDE DEF range
    <3> QED
      BY <2>3, <2>4 DEF Epoch, RangeRecs
  <2>6. epochs' = [epochs EXCEPT ![k] = e]
    BY <2>1
  <2>14. flow.range.from \in Nat /\ first \in Nat /\ Fits(range, first)
    <3>1. flow.range.from \in Nat
      BY <1>1 DEF AuditInv, AuditTypes
    <3> QED
      BY <2>2, <2>4, <3>1 DEF Fits
  <2> HIDE DEF e, k, range, first
  <2>7. /\ epochs' \in Seq(Epoch) /\ Len(epochs') = Len(epochs) /\ epochs' # <<>> /\ epochs'[k] = e
        /\ \A i \in 1..Len(epochs) : i # k => epochs'[i] = epochs[i]
    BY <2>2, <2>3, <2>5, <2>6
  <2>8. /\ flow' \in Flows /\ flow'.pc = "submit" /\ flow'.range.to = majority
        /\ flow'.range.from = flow.range.from /\ flow'.first = first
    BY <2>1, <2>2, <2>14 DEF Flows, FlowSteps, RangeRecs
  <2>9. AuditTypes'
    BY <1>1, <2>1, <2>2, <2>7, <2>8 DEF AuditInv, AuditTypes
  <2>10. WithinMajority'
    BY <1>1, <2>1, <2>2, <2>3, <2>4, <2>5, <2>7, <2>8 DEF AuditInv, WithinMajority
  <2>11. OpenLast'
    BY <2>3, <2>5, <2>7 DEF AuditInv, OpenLast
  <2>12. ~crossed => Tiles(epochs', nextOplog')
    <3> SUFFICES ASSUME ~crossed PROVE Tiles(epochs', majority)
      BY <2>1
    <3>1. Tiles(epochs, nextOplog) /\ epochs[k].oplog = NoRange /\ flow.range.from = nextOplog
      BY <1>1 DEF AuditInv, TileInv, k
    <3>2. \A x \in Int : /\ ~InRange(epochs[k], x)
                         /\ InRange(e, x) <=> nextOplog <= x /\ x < majority
      BY <3>1, <2>2, <2>4, <2>5, NoRangeEmpty DEF InRange
    <3>3. \A i \in 1..Len(epochs), x \in Int :
            i # k => (InRange(epochs'[i], x) <=> InRange(epochs[i], x))
      BY <2>7
    <3>4. ASSUME NEW x \in Int
          PROVE  (\E i \in 1..Len(epochs') : InRange(epochs'[i], x)) <=> (0 <= x /\ x < majority)
      <4>1. (\E i \in 1..Len(epochs) : InRange(epochs[i], x)) <=> (0 <= x /\ x < nextOplog)
        BY <3>1 DEF Tiles
      <4>2. (\E i \in 1..Len(epochs') : InRange(epochs'[i], x))
              <=> ((\E i \in 1..Len(epochs) : InRange(epochs[i], x)) \/ InRange(e, x))
        BY <2>3, <2>7, <3>2, <3>3
      <4> QED
        BY <4>1, <4>2, <3>2, <2>2
    <3>5. ASSUME NEW i \in 1..Len(epochs'), NEW j \in 1..Len(epochs'), NEW x \in Int,
                 InRange(epochs'[i], x), InRange(epochs'[j], x)
          PROVE  i = j
      <4>1. \A h \in 1..Len(epochs) : InRange(epochs[h], x) => x < nextOplog
        BY <3>1 DEF Tiles
      <4>2. \A h \in 1..Len(epochs) : h # k /\ InRange(epochs'[h], x) => ~InRange(e, x)
        BY <4>1, <3>2, <3>3, <2>2
      <4>3. CASE i # k /\ j # k
        BY <4>3, <3>1, <3>3, <3>5, <2>7 DEF Tiles
      <4>4. CASE i = k \/ j = k
        BY <4>2, <4>4, <3>5, <2>7
      <4> QED
        BY <4>3, <4>4
    <3> QED
      BY <3>4, <3>5 DEF Tiles
  <2>13. TileInv'
    BY <1>1, <2>8, <2>12 DEF TileInv
  <2>15. FirstInv'
    <3>1. \A r, x : Fits(r, x)' <=> Fits(r, x)
      BY <1>1 DEF Fits
    <3>2. Fits(flow'.range, flow'.first)
      BY <2>4, <2>8, <2>14 DEF Fits
    <3>3. ASSUME NEW i \in 1..Len(epochs'), epochs'[i].oplog # NoRange
          PROVE  i - 1 \in DOMAIN hashed' /\ Fits(epochs'[i].oplog, hashed'[i - 1])
      <4>1. CASE i = k
        <5>1. i - 1 = flow.target
          BY <2>2, <2>3, <4>1 DEF k, Flows, None
        <5>2. hashed'[i - 1] = first /\ i - 1 \in DOMAIN hashed'
          BY <2>1, <5>1
        <5> QED
          BY <2>5, <2>7, <2>14, <4>1, <5>2
      <4>2. CASE i # k
        <5>1. i - 1 # flow.target /\ i \in 1..Len(epochs) /\ epochs'[i] = epochs[i]
          BY <2>2, <2>3, <2>7, <4>2 DEF k, Flows, None
        <5>2. i - 1 \in DOMAIN hashed /\ Fits(epochs[i].oplog, hashed[i - 1])
          BY <3>3, <5>1 DEF AuditInv, FirstInv
        <5> QED
          BY <2>1, <5>1, <5>2
      <4> QED
        BY <4>1, <4>2
    <3> QED
      BY <1>1, <3>1, <3>2, <3>3 DEF AuditInv, FirstInv
  <2> QED
    BY <2>9, <2>10, <2>11, <2>13, <2>15 DEF AuditInv
<1> QED
  BY <1>2, <1>3

ChainEntry(c) == c.oplog.to <= majority /\ (c.oplog # NoRange => Fits(c.oplog, c.first))

(* A commitment is put on the chain of the configured contract. *)
LEMMA AnchorChains ==
    ASSUME AuditInv, NEW root \in Int \X Int, NEW sent \in Int \X Int \X Int, NEW range \in RangeRecs,
           NEW first \in Nat, range.to <= majority, Anchor(root, sent, range, first),
           range # NoRange => Fits(range, first)
    PROVE  /\ chains' \in [bundled : Seq(Commitments), own : Seq(Commitments)]
           /\ \A c \in {"bundled", "own"} : \A i \in 1..Len(chains'[c]) : ChainEntry(chains'[c][i])
<1> DEFINE entry == [root |-> root, batch |-> sent, oplog |-> range, first |-> first]
           name == contract.name
<1>1. entry \in Commitments /\ entry.oplog = range /\ entry.first = first
  BY DEF Commitments
<1>2. chains' = [chains EXCEPT ![name] = Append(@, entry)]
  BY DEF Anchor
<1>3. /\ chains \in [bundled : Seq(Commitments), own : Seq(Commitments)] /\ name \in {"bundled", "own"}
      /\ \A c \in {"bundled", "own"} : \A i \in 1..Len(chains[c]) : ChainEntry(chains[c][i])
  BY DEF AuditInv, AuditTypes, WithinMajority, FirstInv, ChainEntry
<1>8. ChainEntry(entry)
  BY <1>1 DEF ChainEntry
<1> HIDE DEF entry, name
<1>4. chains[name] \in Seq(Commitments)
  BY <1>3
<1>5. /\ Append(chains[name], entry) \in Seq(Commitments)
      /\ \A i \in 1..Len(Append(chains[name], entry)) :
            \/ i \in 1..Len(chains[name]) /\ Append(chains[name], entry)[i] = chains[name][i]
            \/ Append(chains[name], entry)[i] = entry
  BY <1>1, <1>4
<1>6. /\ chains' \in [bundled : Seq(Commitments), own : Seq(Commitments)]
      /\ chains'[name] = Append(chains[name], entry)
      /\ \A c \in {"bundled", "own"} : c # name => chains'[c] = chains[c]
  BY <1>2, <1>3, <1>5
<1>7. \A i \in 1..Len(chains'[name]) : ChainEntry(chains'[name][i])
  BY <1>3, <1>5, <1>6, <1>8
<1> QED
  BY <1>3, <1>6, <1>7

(* A step that may put a commitment on the chain, and goes on or ends. *)
LEMMA ChainAuditInv ==
    ASSUME AuditInv, UNCHANGED <<log, epochs, nextOplog, hashed, majority, oldest, contract, crossed>>,
           chains' \in [bundled : Seq(Commitments), own : Seq(Commitments)],
           \A c \in {"bundled", "own"} : \A i \in 1..Len(chains'[c]) : ChainEntry(chains'[c][i]),
           \/ UNCHANGED flow
           \/ /\ flow' \in Flows /\ flow'.range.to <= majority /\ flow'.pc \in {"idle", "mark"}
              /\ flow'.pc = "mark" => flow'.epoch # None
    PROVE  AuditInv'
<1>1. AuditTypes'
  BY DEF AuditInv, AuditTypes
<1>2. WithinMajority'
  BY DEF AuditInv, WithinMajority, ChainEntry
<1>3. OpenLast' /\ TileInv'
  BY DEF AuditInv, OpenLast, TileInv
<1>4. FirstInv'
  <2>1. \A r, x : Fits(r, x)' <=> Fits(r, x)
    BY DEF Fits
  <2> QED
    BY <2>1 DEF AuditInv, FirstInv, ChainEntry
<1> QED
  BY <1>1, <1>2, <1>3, <1>4 DEF AuditInv

LEMMA CommitRootAuditInv ==
    ASSUME AuditInv, AuditCommitRoot
    PROVE  AuditInv'
<1>1. /\ UNCHANGED <<log, epochs, nextOplog, hashed, majority, oldest, contract, crossed, flow>>
      /\ Anchor(LiveRoot, NoBatch, NoRange, 0)
  BY DEF AuditCommitRoot
<1>2. LiveRoot \in Int \X Int /\ NoBatch \in Int \X Int \X Int
  BY DEF LiveRoot, EmptyRoot, NoBatch, None, AuditInv, AuditTypes
<1>3. /\ chains' \in [bundled : Seq(Commitments), own : Seq(Commitments)]
      /\ \A c \in {"bundled", "own"} : \A i \in 1..Len(chains'[c]) : ChainEntry(chains'[c][i])
  BY <1>1, <1>2, AnchorChains, NoRangeEmpty, RangeSmall DEF AuditInv
<1> QED
  BY <1>1, <1>3, ChainAuditInv

LEMMA SubmitAuditInv ==
    ASSUME AuditInv, NEW outcome, Submit(outcome)
    PROVE  AuditInv'
<1> DEFINE range == IF flow.connected /\ contract.oplog THEN flow.range ELSE NoRange
<1>1. UNCHANGED <<log, epochs, nextOplog, hashed, majority, oldest, contract, crossed>>
  BY DEF Submit
<1>2. Anchor(flow.root, flow.batch, range, flow.first) \/ UNCHANGED chains
  BY DEF Submit
<1>3. flow \in Flows /\ flow.range.to <= majority
  BY DEF AuditInv, AuditTypes, WithinMajority
<1>4. range \in RangeRecs /\ range.to <= majority
  BY <1>3, NoRangeEmpty, RangeSmall DEF Flows, AuditInv
<1>5. flow.root \in Int \X Int /\ flow.batch \in Int \X Int \X Int /\ flow.first \in Nat
  BY <1>3 DEF Flows
<1>8. range # NoRange => Fits(range, flow.first)
  BY DEF AuditInv, FirstInv, Submit
<1>6. /\ chains' \in [bundled : Seq(Commitments), own : Seq(Commitments)]
      /\ \A c \in {"bundled", "own"} : \A i \in 1..Len(chains'[c]) : ChainEntry(chains'[c][i])
  <2> HIDE DEF range
  <2>1. CASE Anchor(flow.root, flow.batch, range, flow.first)
    BY <1>4, <1>5, <1>8, <2>1, AnchorChains
  <2>2. CASE UNCHANGED chains
    BY <2>2 DEF AuditInv, AuditTypes, WithinMajority, FirstInv, ChainEntry
  <2> QED
    BY <1>2, <2>1, <2>2
<1>7. /\ flow' \in Flows /\ flow'.range.to <= majority /\ flow'.pc \in {"idle", "mark"}
      /\ flow'.pc = "mark" => flow'.epoch # None
  <2>1. flow' = NoFlow \/ (flow' = [flow EXCEPT !.pc = "mark"] /\ flow.epoch # None)
    BY DEF Submit
  <2>2. CASE flow' = NoFlow
    BY <2>2, NoFlowType, RangeSmall DEF AuditInv
  <2>3. CASE flow' = [flow EXCEPT !.pc = "mark"] /\ flow.epoch # None
    BY <2>3, <1>3 DEF Flows, FlowSteps
  <2> QED
    BY <2>1, <2>2, <2>3
<1> QED
  BY <1>1, <1>6, <1>7, ChainAuditInv

(* Marking keeps every range. *)
LEMMA MarkAuditInv ==
    ASSUME AuditInv, AuditMarkEpochCommitted
    PROVE  AuditInv'
<1>1. UNCHANGED <<log, nextOplog, hashed, majority, oldest, chains, contract, crossed>> /\ flow' = NoFlow
  BY DEF AuditMarkEpochCommitted, world
<1>2. CASE epochs' = epochs
  BY <1>1, <1>2, NoFlowAuditInv
<1>3. CASE flow.epoch < Len(epochs) /\ epochs' = MarkCommitted(epochs, flow.epoch, "hash")
  <2> DEFINE k == flow.epoch + 1
             e == [epochs[k] EXCEPT !.committed = TRUE, !.tx = "hash"]
  <2>1. epochs \in Seq(Epoch) /\ Len(epochs) \in Nat /\ flow.epoch \in Nat
    BY DEF AuditInv, AuditTypes, Flows, AuditMarkEpochCommitted
  <2>2. k \in 1..Len(epochs) /\ epochs[k] \in Epoch
    BY <1>3, <2>1
  <2>3. e \in Epoch /\ e.oplog = epochs[k].oplog /\ e.end = epochs[k].end
    BY <2>2 DEF Epoch
  <2>4. epochs' = [epochs EXCEPT ![k] = e]
    BY <1>3, <2>1, <2>2 DEF MarkCommitted
  <2> HIDE DEF e, k
  <2>5. /\ epochs' \in Seq(Epoch) /\ Len(epochs') = Len(epochs) /\ epochs' # <<>>
        /\ \A i \in 1..Len(epochs) : epochs'[i].oplog = epochs[i].oplog /\ epochs'[i].end = epochs[i].end
    BY <2>1, <2>2, <2>3, <2>4
  <2>6. AuditTypes'
    BY <1>1, <2>5, NoFlowType DEF AuditInv, AuditTypes
  <2>7. WithinMajority'
    BY <1>1, <2>5, NoFlowType, RangeSmall DEF AuditInv, WithinMajority
  <2>8. OpenLast'
    BY <2>1, <2>2, <2>5 DEF AuditInv, OpenLast
  <2>9. \A i \in 1..Len(epochs), x \in Int : InRange(epochs'[i], x) <=> InRange(epochs[i], x)
    BY <2>5 DEF InRange
  <2>10. Tiles(epochs, nextOplog) => Tiles(epochs', nextOplog)
    BY <2>5, <2>9 DEF Tiles
  <2>11. TileInv'
    BY <1>1, <2>10, NoFlowType DEF AuditInv, TileInv
  <2>12. FirstInv'
    <3>1. \A r, x : Fits(r, x)' <=> Fits(r, x)
      BY <1>1 DEF Fits
    <3> QED
      BY <1>1, <2>5, <3>1, NoFlowType DEF AuditInv, FirstInv
  <2> QED
    BY <2>6, <2>7, <2>8, <2>11, <2>12 DEF AuditInv
<1> QED
  BY <1>2, <1>3 DEF AuditMarkEpochCommitted

LEMMA NextAuditInv ==
    ASSUME AuditInv, [AuditNext]_auditVars
    PROVE  AuditInv'
<1>1. CASE RecordAuditEvent \/ AuditCloseEpoch
  BY <1>1, EventAuditInv
<1>2. CASE MajorityAdvances \/ OplogRollsOver
  BY <1>2, WorldAuditInv
<1>3. CASE \E saved \in BOOLEAN : AuditResetData(saved)
  BY <1>3, ResetAuditInv
<1>4. CASE \/ \E n \in Sealed, connected \in BOOLEAN : PublishEpoch(n, connected)
           \/ \E connected \in BOOLEAN : CommitUnpublished(connected)
  BY <1>4, BeginAuditInv
<1>5. CASE AuditCommitRoot
  BY <1>5, CommitRootAuditInv
<1>6. CASE \E admin \in {"same", "other", "unread"} : Preflight(admin)
  BY <1>6, PreflightAuditInv
<1>7. CASE SelectTarget
  BY <1>7, SelectAuditInv
<1>8. CASE ReadRangeStart
  BY <1>8, ReadRangeAuditInv
<1>9. CASE \E reachable \in BOOLEAN : AttachRange(reachable)
  BY <1>9, AttachAuditInv
<1>10. CASE \E outcome \in {"ok", "failed", "lost"} : Submit(outcome)
  BY <1>10, SubmitAuditInv
<1>11. CASE AuditMarkEpochCommitted
  BY <1>11, MarkAuditInv
<1>12. CASE AuditVerifyReaderMode \/ UNCHANGED auditVars
  <2>1. UNCHANGED <<log, epochs, nextOplog, hashed, majority, oldest, chains, contract, flow, crossed>>
    BY <1>12 DEF AuditVerifyReaderMode, auditVars, world
  <2>2. \A r, x : Fits(r, x)' <=> Fits(r, x)
    BY <2>1 DEF Fits
  <2>3. FirstInv'
    BY <2>1, <2>2 DEF AuditInv, FirstInv
  <2> QED
    BY <2>1, <2>3 DEF AuditInv, AuditTypes, WithinMajority, OpenLast, TileInv
<1> QED
  BY <1>1, <1>2, <1>3, <1>4, <1>5, <1>6, <1>7, <1>8, <1>9, <1>10, <1>11, <1>12 DEF AuditNext, CommitNext

LEMMA AuditAlways == AuditSpec => []AuditInv
<1>1. AuditInv /\ [AuditNext]_auditVars => AuditInv'
  BY NextAuditInv
<1> QED
  BY <1>1, InitAuditInv, PTL DEF AuditSpec

-----------------------------------------------------------------------------
LEMMA RangesOfEpochs ==
    ASSUME AuditTypes
    PROVE  \A i \in 1..Len(epochs) : epochs[i].oplog.from \in Int /\ epochs[i].oplog.to \in Int
<1>1. \A i \in 1..Len(epochs) : epochs[i] \in Epoch
  BY LastEpoch DEF AuditTypes
<1> QED
  BY <1>1 DEF Epoch, None

LEMMA TilesCover ==
    ASSUME AuditInv
    PROVE  OplogRangesTile
<1> DEFINE ranged == {n \in Sealed : epochs[n + 1].oplog # NoRange}
           span(n) == epochs[n + 1].oplog.from..(epochs[n + 1].oplog.to - 1)
<1> SUFFICES ASSUME ~crossed
             PROVE  /\ UNION {span(n) : n \in ranged} = 0..(nextOplog - 1)
                    /\ \A m, n \in ranged : m # n => span(m) \cap span(n) = {}
  BY Zenon DEF OplogRangesTile
<1>1. Tiles(epochs, nextOplog) /\ nextOplog \in Nat /\ Len(epochs) \in Nat
  BY DEF AuditInv, AuditTypes, TileInv
<1>2. \A n \in ranged : n \in Nat /\ n + 1 \in 1..Len(epochs)
  BY SealedEpochs DEF AuditInv
<1>3. \A n \in ranged : \A x : x \in span(n) <=> x \in Int /\ InRange(epochs[n + 1], x)
  BY <1>2, RangesOfEpochs DEF InRange, AuditInv
<1>4. \A i \in 1..Len(epochs), x \in Int : InRange(epochs[i], x) => i - 1 \in ranged
  <2> SUFFICES ASSUME NEW i \in 1..Len(epochs), NEW x \in Int, InRange(epochs[i], x)
               PROVE  i - 1 \in ranged
    OBVIOUS
  <2>1. epochs[i].oplog # NoRange
    BY NoRangeEmpty DEF InRange
  <2>2. epochs[i].end # None
    BY <2>1 DEF AuditInv, OpenLast
  <2>3. i - 1 \in 0..(Len(epochs) - 1) /\ (i - 1) + 1 = i
    BY <1>1
  <2> QED
    BY <2>1, <2>2, <2>3 DEF Sealed, IsOpen
<1>5. ASSUME NEW x PROVE x \in UNION {span(n) : n \in ranged} <=> x \in 0..(nextOplog - 1)
  <2>1. x \in UNION {span(n) : n \in ranged} <=> \E n \in ranged : x \in span(n)
    OBVIOUS
  <2>2. CASE x \in Int
    <3>1. (\E n \in ranged : x \in span(n)) <=> \E i \in 1..Len(epochs) : InRange(epochs[i], x)
      <4>1. ASSUME NEW n \in ranged, x \in span(n) PROVE \E i \in 1..Len(epochs) : InRange(epochs[i], x)
        BY <4>1, <1>2, <1>3
      <4>2. ASSUME NEW i \in 1..Len(epochs), InRange(epochs[i], x) PROVE \E n \in ranged : x \in span(n)
        <5>1. i - 1 \in ranged /\ (i - 1) + 1 = i
          BY <4>2, <2>2, <1>4
        <5>2. x \in span(i - 1)
          BY <5>1, <4>2, <2>2, <1>3
        <5> QED
          BY <5>1, <5>2
      <4> QED
        BY <4>1, <4>2
    <3> QED
      BY <2>1, <2>2, <3>1, <1>1 DEF Tiles
  <2>3. CASE x \notin Int
    BY <2>1, <2>3, <1>1, <1>3
  <2> QED
    BY <2>2, <2>3
<1>6. ASSUME NEW m \in ranged, NEW n \in ranged, m # n PROVE span(m) \cap span(n) = {}
  <2> SUFFICES ASSUME NEW x, x \in span(m), x \in span(n) PROVE FALSE
    OBVIOUS
  <2>1. x \in Int /\ InRange(epochs[m + 1], x) /\ InRange(epochs[n + 1], x)
    BY <1>3
  <2>2. m + 1 = n + 1
    BY <2>1, <1>1, <1>2 DEF Tiles
  <2> QED
    BY <2>2, <1>2, <1>6
<1> QED
  BY <1>5, <1>6

LEMMA WholeComplete ==
    ASSUME AuditInv
    PROVE  WholeRangeIsComplete
<1> DEFINE sequence == Len(chains.bundled)
           range == IF sequence \in DOMAIN Configured THEN Configured[sequence].oplog ELSE NoRange
<1> SUFFICES ASSUME NEW reach \in 0..majority,
                    AuditVerifyOplogIntegrity(TRUE, reach).verdict \in {"complete", "mismatch", "stale"},
                    oldest <= range.from, range.to <= reach
             PROVE  AuditVerifyOplogIntegrity(TRUE, reach).verdict = "complete"
  BY DEF WholeRangeIsComplete, AuditVerifyOplogIntegrity
<1>1. range # NoRange
  BY DEF AuditVerifyOplogIntegrity
<1>2. AuditVerifyOplogIntegrity(TRUE, reach).verdict = RangeVerdict(Configured[sequence], reach)
  BY DEF AuditVerifyOplogIntegrity
<1>3. PICK c \in Commitments : c = Configured[sequence] /\ range = c.oplog /\ Fits(c.oplog, c.first)
  <2>1. contract.name \in {"bundled", "own"} /\ Configured = chains[contract.name]
    BY DEF AuditInv, AuditTypes, Configured
  <2>2. Configured \in Seq(Commitments)
    BY <2>1 DEF AuditInv, AuditTypes
  <2>3. sequence \in 1..Len(Configured) /\ range = Configured[sequence].oplog
    BY <1>1, <2>2
  <2>4. Configured[sequence] \in Commitments
    BY <2>2, <2>3
  <2> QED
    BY <1>1, <2>1, <2>3, <2>4 DEF AuditInv, FirstInv
<1>4. oldest \in Nat /\ majority \in Nat /\ c.oplog.to \in Int
  <2>1. oldest \in Nat /\ majority \in Nat
    BY DEF AuditInv, AuditTypes
  <2>2. c.oplog \in RangeRecs
    BY DEF Commitments
  <2> QED
    BY <2>1, <2>2 DEF RangeRecs, None
<1>5. oldest <= c.oplog.from /\ c.oplog.to <= reach
  BY <1>3
<1> HIDE DEF range, sequence
<1>6. c.first = c.oplog.from /\ c.oplog.from \in Nat
  BY <1>3, <1>4, <1>5 DEF Fits
<1>7. {x \in c.oplog.from..(c.oplog.to - 1) : oldest <= x /\ x < reach} = c.first..(c.oplog.to - 1)
  BY <1>4, <1>5, <1>6
<1>8. RangeVerdict(c, reach) = "complete"
  BY <1>7 DEF RangeVerdict
<1> QED
  BY <1>2, <1>3, <1>8

(* The ranges that the commits of the desktop attach to the epochs cover   *)
(* the oplog from its beginning, each entry once, however commits fail and *)
(* are made again, and the oplog check announces no omission on a member   *)
(* that has all of the committed range (commands.rs,                       *)
(* commit_latest_epoch_root() and audit_verify_oplog_integrity()).         *)
THEOREM OplogAccountedAlways == AuditSpec => []OplogAccounted
<1>1. AuditInv => OplogAccounted
  BY TilesCover, WholeComplete DEF OplogAccounted
<1> QED
  BY <1>1, AuditAlways, PTL

-----------------------------------------------------------------------------
(* Contracts, keys and the calls that hold them *)

KeyNames == {"bundled", "pub", "att", "leaf", "ed", "dev", "production", "trial", "auditor"}
Keys == (KeyNames \X Nat) \cup {NoValue, Dir}
Real(k) == k \notin {NoValue, Dir}

Contract == [by : {"bundled", "setup", "desktop"}, admin : Keys, dvk : {"none", "pinned", "declined"},
             attesters : SUBSET (Keys \X Keys), revoked : SUBSET (Keys \X Keys)]

(* What happens to the contracts of a chain: `changed' may get another    *)
(* admin, nothing else is lost.                                           *)
Keeps(old, new) ==
    /\ new.by = old.by
    /\ old.dvk # "none" => new.dvk # "none"
    /\ old.admin # NoValue => new.admin # NoValue
    /\ old.attesters \cup old.revoked \subseteq new.attesters \cup new.revoked

Later(old, new, changed) ==
    /\ new \in Seq(Contract) /\ Len(old) <= Len(new)
    /\ \A i \in 1..Len(old) : Keeps(old[i], new[i]) /\ (i \notin changed => new[i].admin = old[i].admin)

LEMMA ContractAdmin ==
    ASSUME NEW r \in Contract, NEW k \in Keys
    PROVE  LET n == [r EXCEPT !.admin = k] IN
           /\ n \in Contract /\ n.admin = k /\ n.by = r.by /\ n.dvk = r.dvk
           /\ n.attesters = r.attesters /\ n.revoked = r.revoked
BY DEF Contract

LEMMA ContractDvk ==
    ASSUME NEW r \in Contract, NEW v \in {"pinned", "declined"}
    PROVE  LET n == [r EXCEPT !.dvk = v] IN
           /\ n \in Contract /\ n.admin = r.admin /\ n.by = r.by /\ n.dvk = v
           /\ n.attesters = r.attesters /\ n.revoked = r.revoked
BY DEF Contract

LEMMA ContractAttesters ==
    ASSUME NEW r \in Contract, NEW a \in SUBSET (Keys \X Keys)
    PROVE  LET n == [r EXCEPT !.attesters = a] IN
           /\ n \in Contract /\ n.admin = r.admin /\ n.by = r.by /\ n.dvk = r.dvk
           /\ n.attesters = a /\ n.revoked = r.revoked
BY DEF Contract

WithPairs(r, a, b) == [r EXCEPT !.attesters = a, !.revoked = b]

LEMMA ContractRevoked ==
    ASSUME NEW r \in Contract, NEW a \in SUBSET (Keys \X Keys), NEW b \in SUBSET (Keys \X Keys)
    PROVE  LET n == WithPairs(r, a, b) IN
           /\ n \in Contract /\ n.admin = r.admin /\ n.by = r.by /\ n.dvk = r.dvk
           /\ n.attesters = a /\ n.revoked = b
BY DEF Contract, WithPairs

LEMMA BlankContract ==
    ASSUME NEW by \in {"bundled", "setup", "desktop"}
    PROVE  Blank(by) \in Contract /\ Blank(by).by = by
BY DEF Contract, Blank, Keys

LEMMA Replaced ==
    ASSUME NEW ch \in Seq(Contract), NEW c \in DOMAIN ch, NEW r \in Contract, Keeps(ch[c], r)
    PROVE  LET new == [ch EXCEPT ![c] = r] IN
           /\ Later(ch, new, {c}) /\ (r.admin = ch[c].admin => Later(ch, new, {}))
           /\ Len(new) = Len(ch) /\ DOMAIN new = DOMAIN ch /\ new[c] = r
<1> DEFINE new == [ch EXCEPT ![c] = r]
<1>1. new \in Seq(Contract) /\ Len(new) = Len(ch) /\ new[c] = r /\ DOMAIN new = DOMAIN ch
  OBVIOUS
<1>2. \A i \in 1..Len(ch) : Keeps(ch[i], new[i]) /\ (i # c => new[i].admin = ch[i].admin)
  BY DEF Keeps
<1> QED
  BY <1>1, <1>2 DEF Later

LEMMA Deployed ==
    ASSUME NEW ch \in Seq(Contract), NEW r \in Contract
    PROVE  LET new == Append(ch, r) IN
           /\ Later(ch, new, {}) /\ new[Len(ch) + 1] = r
           /\ Len(ch) + 1 \in DOMAIN new /\ Len(ch) \in Nat
<1> DEFINE new == Append(ch, r)
<1>1. new \in Seq(Contract) /\ Len(new) = Len(ch) + 1 /\ new[Len(ch) + 1] = r /\ Len(ch) \in Nat
  OBVIOUS
<1>2. \A i \in 1..Len(ch) : new[i] = ch[i]
  OBVIOUS
<1> QED
  BY <1>1, <1>2 DEF Later, Keeps

-----------------------------------------------------------------------------
(* The inductive invariant, part by part *)

Deployer(e) == e.from = "deployed"

(* A file .env.audit, or what the containers got of one. *)
EnvFits(e, ch, kf) ==
    /\ e.role \in Roles \cup {NoValue} /\ e.contract \in DOMAIN ch
    /\ Deployer(e) => e.pub # NoValue /\ ch[e.contract].by = "setup" /\ ch[e.contract].admin = e.pub /\ ch[e.contract].dvk # "none"
    /\ e.role = "all" => Real(kf) /\ <<e.att, kf>> \in ch[e.contract].attesters \cup ch[e.contract].revoked

(* The wizard's contract and keys at each of its steps. *)
SetupSteps == {"fund", "contract", "initialize", "register", "key", "authorize", "env", "uris"}
SetupKeys(s) ==
    /\ s.network \in Networks /\ (s.desktop => s.network = "testnet")
    /\ s.role \in Roles /\ s.pub \in Keys /\ s.att \in Keys
    /\ s.role # "attester" => s.pub # NoValue
    /\ s.role = "attester" => ~s.deploy
    /\ s.desktop => s.role = "all"
    /\ {"pc", "desktop", "network", "role", "deploy", "explicit", "pub", "att", "leaf", "contract"} = DOMAIN s
SetupContract(s, ch) ==
    /\ s.pc \in {"fund", "contract"} => s.explicit = NoValue \/ s.explicit \in DOMAIN ch
    /\ s.pc \in {"initialize", "register"} =>
          s.deploy /\ s.role # "attester" /\ s.contract \in DOMAIN ch /\ s.contract # Bundled /\ ch[s.contract].by = "setup"
    /\ s.pc = "register" => ch[s.contract].admin = s.pub
    /\ s.pc \in {"key", "authorize", "env"} =>
          /\ s.contract \in DOMAIN ch
          /\ s.desktop => s.deploy \/ s.contract = Bundled
          /\ s.deploy =>
                ch[s.contract].by = "setup" /\ ch[s.contract].admin = s.pub /\ ch[s.contract].dvk # "none"
SetupAttester(s, ch, kf) ==
    /\ s.pc = "authorize" => Real(kf)
    /\ s.pc = "env" /\ s.role = "all" =>
          Real(kf) /\ <<s.att, kf>> \in ch[s.contract].attesters \cup ch[s.contract].revoked
SetupFits(s, ch, kf) ==
    s # NoCall => /\ s.pc \in SetupSteps /\ SetupKeys(s) /\ SetupContract(s, ch) /\ SetupAttester(s, ch, kf)
Unused(s, e) == s # NoCall /\ s.pc = "initialize" /\ Deployer(e) => e.contract # s.contract

ProvFits(p, ch) ==
    p # NoCall =>
        /\ p.pc \in {"validate", "deploy", "initialize", "register", "save"}
        /\ p.key \in Keys \ {NoValue} /\ {"pc", "key", "contract"} = DOMAIN p
        /\ p.pc \in {"initialize", "register", "save"} => p.contract \in DOMAIN ch /\ ch[p.contract].by = "desktop"
        /\ p.pc \in {"register", "save"} => ch[p.contract].admin # NoValue
        /\ p.pc = "save" => ch[p.contract].dvk # "none"

SettingsFit(st, ch) ==
    /\ DOMAIN st = {"mode", "network", "testnet"} /\ st.mode \in {"dev", "production"}
    /\ st.testnet # NoValue => st.testnet \in DOMAIN ch /\ ch[st.testnet].admin # NoValue /\ ch[st.testnet].dvk # "none"

ChainFits(ch) ==
    /\ ch \in Seq(Contract) /\ Bundled \in DOMAIN ch
    /\ ch[Bundled].by = "bundled" /\ ch[Bundled].admin # NoValue /\ ch[Bundled].dvk # "none"

StackFits(st, m, kf, keys, c) ==
    /\ DOMAIN st = {"publisher", "attester"} /\ st.publisher # "refused" /\ st.attester # "badMount"
    /\ m \in {NoValue, "dir", "file"} /\ (m = "file" => Real(kf))
    /\ keys = {} \/ \E k : keys = {k}
    /\ st.publisher = "running" => keys \subseteq {c.leaf}

Counts(n) == /\ DOMAIN n = {"setups", "provisions", "settings", "ups"}
             /\ n.setups \in 0..MaxSetups /\ n.provisions \in Nat /\ n.settings \in Nat /\ n.ups \in Nat
Keychain(k) == DOMAIN k = {"dev", "production"} /\ k.dev \in Keys /\ k.production \in Keys

DeployInv ==
    /\ ChainFits(chain) /\ keyFile \in Keys /\ Counts(count) /\ Keychain(keychain)
    /\ EnvFits(env, chain, keyFile) /\ EnvFits(cfg, chain, keyFile)
    /\ SetupFits(setup, chain, keyFile) /\ Unused(setup, env) /\ Unused(setup, cfg)
    /\ ProvFits(prov, chain) /\ SettingsFit(settings, chain)
    /\ StackFits(stack, mount, keyFile, leafKeys, cfg)

-----------------------------------------------------------------------------
(* What keeps its meaning when the chain or the key file move on *)

LEMMA LaterIndex ==
    ASSUME NEW ch \in Seq(Contract), NEW new, NEW changed, Later(ch, new, changed), NEW i \in DOMAIN ch
    PROVE  /\ i \in DOMAIN new /\ new[i].by = ch[i].by /\ (ch[i].dvk # "none" => new[i].dvk # "none")
           /\ ch[i].admin # NoValue => new[i].admin # NoValue
           /\ ch[i].attesters \cup ch[i].revoked \subseteq new[i].attesters \cup new[i].revoked
           /\ i \notin changed => new[i].admin = ch[i].admin
BY DEF Later, Keeps

LEMMA LaterChain ==
    ASSUME NEW ch, ChainFits(ch), NEW new, NEW changed, Later(ch, new, changed)
    PROVE  ChainFits(new)
<1>1. ch \in Seq(Contract) /\ Bundled \in DOMAIN ch /\ new \in Seq(Contract)
  BY DEF ChainFits, Later
<1> QED
  BY <1>1, LaterIndex DEF ChainFits

LEMMA LaterEnv ==
    ASSUME NEW ch \in Seq(Contract), NEW e, NEW kf, EnvFits(e, ch, kf), NEW new, NEW changed, Later(ch, new, changed),
           Deployer(e) => e.contract \notin changed
    PROVE  EnvFits(e, new, kf)
<1>1. e.contract \in DOMAIN ch
  BY DEF EnvFits
<1> QED
  BY <1>1, LaterIndex DEF EnvFits

LEMMA LaterSettings ==
    ASSUME NEW ch \in Seq(Contract), NEW st, SettingsFit(st, ch), NEW new, NEW changed, Later(ch, new, changed)
    PROVE  SettingsFit(st, new)
BY LaterIndex DEF SettingsFit

LEMMA LaterProv ==
    ASSUME NEW ch \in Seq(Contract), NEW p, ProvFits(p, ch), NEW new, NEW changed, Later(ch, new, changed)
    PROVE  ProvFits(p, new)
BY LaterIndex DEF ProvFits

(* A change of what provisioning deployed is none of the wizard's. *)
LEMMA LaterSetup ==
    ASSUME NEW ch \in Seq(Contract), NEW s, NEW kf, SetupFits(s, ch, kf), NEW new, NEW changed, Later(ch, new, changed),
           \A i \in changed : i \in DOMAIN ch => ch[i].by # "setup"
    PROVE  SetupFits(s, new, kf)
<1> SUFFICES ASSUME s # NoCall
             PROVE  s.pc \in SetupSteps /\ SetupKeys(s) /\ SetupContract(s, new) /\ SetupAttester(s, new, kf)
  BY DEF SetupFits
<1>1. s.pc \in SetupSteps /\ SetupKeys(s) /\ SetupContract(s, ch) /\ SetupAttester(s, ch, kf)
  BY DEF SetupFits
<1>2. \A i \in DOMAIN ch : i \in DOMAIN new
  BY LaterIndex
<1>3. SetupContract(s, new)
  BY <1>1, <1>2, LaterIndex DEF SetupContract
<1>4. SetupAttester(s, new, kf)
  BY <1>1, LaterIndex DEF SetupAttester, SetupContract
<1> QED
  BY <1>1, <1>3, <1>4

LEMMA LaterKey ==
    ASSUME NEW ch, NEW e, NEW s, NEW kf, NEW new, Real(kf) => new = kf
    PROVE  /\ EnvFits(e, ch, kf) => EnvFits(e, ch, new)
           /\ SetupFits(s, ch, kf) => SetupFits(s, ch, new)
BY DEF EnvFits, SetupFits, SetupAttester

(* A step that moves the chain, but for what the wizard's files name. *)
LEMMA ChainMoves ==
    ASSUME DeployInv, NEW changed, Later(chain, chain', changed), UNCHANGED <<env, cfg, keyFile, settings>>,
           Deployer(env) => env.contract \notin changed, Deployer(cfg) => cfg.contract \notin changed
    PROVE  /\ ChainFits(chain') /\ EnvFits(env, chain, keyFile)' /\ EnvFits(cfg, chain, keyFile)'
           /\ SettingsFit(settings, chain)' /\ ProvFits(prov, chain')
<1>1. chain \in Seq(Contract)
  BY DEF DeployInv, ChainFits
<1>2. EnvFits(env, chain', keyFile) /\ EnvFits(cfg, chain', keyFile)
  BY <1>1, LaterEnv DEF DeployInv
<1>3. ChainFits(chain') /\ SettingsFit(settings, chain') /\ ProvFits(prov, chain')
  BY <1>1, LaterChain, LaterSettings, LaterProv DEF DeployInv
<1> QED
  BY <1>2, <1>3

(* A step that moves the chain and one of the calls. *)
LEMMA ChainStep ==
    ASSUME DeployInv, NEW changed, Later(chain, chain', changed), \A i \in changed : i \in DOMAIN chain => chain[i].by # "setup",
           \A i \in changed : i # Bundled, UNCHANGED <<env, cfg, keyFile, settings>>
    PROVE  /\ ChainFits(chain') /\ EnvFits(env, chain, keyFile)' /\ EnvFits(cfg, chain, keyFile)'
           /\ SettingsFit(settings, chain)' /\ SetupFits(setup, chain', keyFile) /\ ProvFits(prov, chain')
<1>1. chain \in Seq(Contract)
  BY DEF DeployInv, ChainFits
<1>2. ASSUME NEW e, e = env \/ e = cfg PROVE Deployer(e) => e.contract \notin changed
  BY <1>2 DEF DeployInv, EnvFits
<1>3. EnvFits(env, chain', keyFile) /\ EnvFits(cfg, chain', keyFile)
  BY <1>1, <1>2, LaterEnv DEF DeployInv
<1>4. ChainFits(chain') /\ SettingsFit(settings, chain') /\ SetupFits(setup, chain', keyFile) /\ ProvFits(prov, chain')
  BY <1>1, LaterChain, LaterSettings, LaterSetup, LaterProv DEF DeployInv
<1> QED
  BY <1>3, <1>4

-----------------------------------------------------------------------------
(* The wizard *)

LEMMA InitDeploy == DeployInit => DeployInv
<1> SUFFICES ASSUME DeployInit PROVE DeployInv
  OBVIOUS
<1> DEFINE r == [Blank("bundled") EXCEPT !.admin = <<"bundled", 0>>]
           c == [r EXCEPT !.dvk = "pinned"]
<1>1. Blank("bundled") \in Contract /\ Blank("bundled").by = "bundled" /\ <<"bundled", 0>> \in Keys
  BY BlankContract DEF Keys, KeyNames
<1>2. r \in Contract /\ r.admin = <<"bundled", 0>> /\ r.by = "bundled"
  BY <1>1, ContractAdmin
<1>3. c \in Contract /\ c.admin = <<"bundled", 0>> /\ c.by = "bundled" /\ c.dvk # "none"
  BY <1>2, ContractDvk
<1>4. chain = <<c>>
  BY DEF DeployInit
<1> HIDE DEF c, r
<1>5. chain \in Seq(Contract) /\ chain[Bundled] = c /\ Bundled \in DOMAIN chain
  BY <1>3, <1>4 DEF Bundled
<1>6. ChainFits(chain)
  BY <1>3, <1>5, DeploymentAssumption DEF ChainFits
<1>7. EnvFits(NoEnv, chain, keyFile)
  BY <1>5, DeploymentAssumption DEF EnvFits, NoEnv, Deployer, Roles
<1>8. keyFile \in Keys /\ Counts(count) /\ Keychain(keychain)
  BY DeploymentAssumption DEF DeployInit, Keys, Counts, Keychain
<1>9. SetupFits(setup, chain, keyFile) /\ Unused(setup, env) /\ Unused(setup, cfg) /\ ProvFits(prov, chain)
  BY DEF DeployInit, SetupFits, Unused, ProvFits
<1>10. SettingsFit(settings, chain)
  BY DEF DeployInit, SettingsFit
<1>11. StackFits(stack, mount, keyFile, leafKeys, cfg)
  BY DeploymentAssumption DEF DeployInit, StackFits
<1> QED
  BY <1>6, <1>7, <1>8, <1>9, <1>10, <1>11 DEF DeployInv, DeployInit

LEMMA NoCallFits ==
    ASSUME NEW ch, NEW kf, NEW e
    PROVE  SetupFits(NoCall, ch, kf) /\ Unused(NoCall, e) /\ ProvFits(NoCall, ch)
BY DEF SetupFits, Unused, ProvFits

LEMMA SetupMoves ==
    ASSUME NEW s, SetupKeys(s), NEW step, step # "idle"
    PROVE  LET n == [s EXCEPT !.pc = step] IN
           /\ n.pc = step /\ n # NoCall /\ SetupKeys(n) /\ n.contract = s.contract /\ n.role = s.role
           /\ n.pub = s.pub /\ n.att = s.att /\ n.explicit = s.explicit
           /\ n.network = s.network /\ (n.deploy <=> s.deploy) /\ (n.desktop <=> s.desktop)
<1> DEFINE n == [s EXCEPT !.pc = step]
<1>1. /\ n.pc = step /\ n.contract = s.contract /\ n.role = s.role
      /\ n.pub = s.pub /\ n.att = s.att /\ n.explicit = s.explicit
      /\ n.network = s.network /\ n.desktop = s.desktop /\ n.deploy = s.deploy /\ DOMAIN n = DOMAIN s
  BY DEF SetupKeys
<1>2. n # NoCall
  BY <1>1 DEF NoCall
<1> HIDE DEF n
<1> QED
  BY <1>1, <1>2 DEF SetupKeys, n

MovedWith(s, c, step) == [s EXCEPT !.contract = c, !.pc = step]

LEMMA SetupMovesWith ==
    ASSUME NEW s, SetupKeys(s), NEW step, step # "idle", NEW c, NEW n, n = MovedWith(s, c, step)
    PROVE  /\ n.pc = step /\ n # NoCall /\ SetupKeys(n) /\ n.contract = c /\ n.role = s.role
           /\ n.pub = s.pub /\ n.att = s.att /\ n.explicit = s.explicit
           /\ n.network = s.network /\ (n.deploy <=> s.deploy) /\ (n.desktop <=> s.desktop)
<1>0. n = [s EXCEPT !.contract = c, !.pc = step]
  BY DEF MovedWith
<1>1. /\ n.pc = step /\ n.contract = c /\ n.role = s.role
      /\ n.pub = s.pub /\ n.att = s.att /\ n.explicit = s.explicit
      /\ n.network = s.network /\ n.desktop = s.desktop /\ n.deploy = s.deploy /\ DOMAIN n = DOMAIN s
  BY <1>0 DEF SetupKeys
<1>2. n # NoCall
  BY <1>1 DEF NoCall
<1> QED
  BY <1>1, <1>2 DEF SetupKeys

(* A step that changes nothing but the wizard and the counters. *)
LEMMA SetupOnly ==
    ASSUME DeployInv, SetupFits(setup', chain, keyFile), Unused(setup', env), Unused(setup', cfg), Counts(count'),
           UNCHANGED <<chain, env, keyFile, settings, keychain, prov, stackVars>>
    PROVE  DeployInv'
BY DEF DeployInv, stackVars

LEMMA CountedCounts ==
    ASSUME Counts(count), NEW what, NEW max, Counted(what, max),
           what \in {"provisions", "settings", "ups"} \/ (what = "setups" /\ max = MaxSetups)
    PROVE  Counts(count')
<1>1. CASE what = "setups"
  BY <1>1, DeploymentAssumption DEF Counts, Counted
<1>2. CASE what \in {"provisions", "settings", "ups"}
  BY <1>2 DEF Counts, Counted
<1> QED
  BY <1>1, <1>2

LEMMA SetupCalled ==
    ASSUME DeployInv, NEW desktop \in BOOLEAN, NEW network \in Networks, NEW role \in Roles, NEW deploy \in BOOLEAN, NEW explicit, NEW given \in Keys,
           explicit = NoValue \/ explicit \in DOMAIN chain, role = "attester" => ~deploy, desktop => role = "all" /\ network = "testnet",
           count.setups < MaxSetups
    PROVE  LET s == SetupCall(desktop, network, role, deploy, explicit, given) IN
           SetupFits(s, chain, keyFile) /\ \A e : Unused(s, e)
<1> DEFINE n == count.setups
           s == SetupCall(desktop, network, role, deploy, explicit, given)
<1>1. n \in 0..MaxSetups /\ n \in Nat
  BY DeploymentAssumption DEF DeployInv, Counts
<1>2. <<"pub", n>> \in Keys /\ <<"att", n>> \in Keys /\ NoValue \in Keys /\ <<"pub", n>> # NoValue
  BY <1>1, DeploymentAssumption DEF Keys, KeyNames
<1>3. /\ s.pc = "fund" /\ s.network = network /\ s.role = role /\ s.explicit = explicit
      /\ s.pub = IF role = "attester" THEN NoValue ELSE IF given # NoValue THEN given ELSE <<"pub", n>>
      /\ s.att = IF role = "publisher" THEN NoValue ELSE <<"att", n>>
      /\ DOMAIN s = {"pc", "desktop", "network", "role", "deploy", "explicit", "pub", "att", "leaf", "contract"}
  BY DEF SetupCall
<1>4. (s.desktop => desktop) /\ (s.deploy => deploy)
  BY DEF SetupCall
<1> HIDE DEF n, s
<1>5. SetupKeys(s)
  BY <1>2, <1>3, <1>4 DEF SetupKeys
<1>6. SetupContract(s, chain) /\ SetupAttester(s, chain, keyFile)
  BY <1>3 DEF SetupContract, SetupAttester
<1> QED
  BY <1>3, <1>5, <1>6 DEF SetupFits, SetupSteps, Unused, s

LEMMA DesktopSetupStep ==
    ASSUME DeployInv, NEW explicit \in DOMAIN chain \cup {NoValue}, NEW given \in {NoValue, keychain.production},
           NEW overwrite \in BOOLEAN, DesktopSetup(explicit, given, overwrite)
    PROVE  DeployInv'
<1> DEFINE deploy == explicit = NoValue
<1>1. deploy \in BOOLEAN /\ given \in Keys /\ "all" \in Roles /\ "testnet" \in Networks
  BY DEF DeployInv, Keychain, Keys, Roles, Networks
<1>2. count.setups < MaxSetups /\ Counts(count')
  BY CountedCounts DEF DeployInv, DesktopSetup, Counted
<1>3. setup' = SetupCall(TRUE, "testnet", "all", deploy, explicit, given)
  BY Zenon DEF DesktopSetup
<1> HIDE DEF deploy
<1>4. SetupFits(setup', chain, keyFile) /\ \A e : Unused(setup', e)
  BY <1>1, <1>2, <1>3, SetupCalled
<1> QED
  BY <1>2, <1>4, SetupOnly DEF DesktopSetup

LEMMA CliSetupStep ==
    ASSUME DeployInv, NEW network \in Networks, NEW role \in Roles, NEW deploy \in BOOLEAN,
           NEW explicit \in DOMAIN chain \cup {NoValue}, CliSetup(network, role, deploy, explicit)
    PROVE  DeployInv'
<1>1. count.setups < MaxSetups /\ Counts(count') /\ NoValue \in Keys
  BY CountedCounts DEF DeployInv, CliSetup, Counted, Keys
<1>2. SetupFits(setup', chain, keyFile) /\ \A e : Unused(setup', e)
  BY <1>1, SetupCalled DEF CliSetup
<1> QED
  BY <1>1, <1>2, SetupOnly DEF CliSetup

LEMMA FundStep ==
    ASSUME DeployInv, NEW outcome, FundAccounts(outcome)
    PROVE  DeployInv'
<1>1. setup.pc = "fund" /\ setup # NoCall
  BY DEF FundAccounts, NoCall
<1>2. SetupKeys(setup) /\ SetupContract(setup, chain) /\ Counts(count') /\ count' = count
  BY <1>1 DEF DeployInv, SetupFits, FundAccounts
<1>3. CASE outcome = "ok"
  <2>1. setup' = [setup EXCEPT !.pc = "contract"]
    BY <1>3 DEF FundAccounts, StepTo
  <2>2. /\ setup'.pc = "contract" /\ SetupKeys(setup') /\ setup'.explicit = setup.explicit
    BY <1>2, <2>1, SetupMoves
  <2>3. SetupFits(setup', chain, keyFile) /\ \A e : Unused(setup', e)
    BY <1>1, <1>2, <2>2 DEF SetupFits, SetupSteps, SetupContract, SetupAttester, Unused
  <2> QED
    BY <1>2, <2>3, SetupOnly DEF FundAccounts
<1>4. CASE outcome # "ok"
  <2>1. setup' = NoCall
    BY <1>4 DEF FundAccounts, StepTo
  <2> QED
    BY <1>2, <2>1, NoCallFits, SetupOnly DEF FundAccounts
<1> QED
  BY <1>3, <1>4

LEMMA SelectStep ==
    ASSUME DeployInv, SelectContract
    PROVE  DeployInv'
<1> DEFINE c == ExistingContract(setup.network, setup.role, setup.explicit)
           step == IF setup.role = "publisher" THEN "env" ELSE "key"
<1>1. setup.pc = "contract" /\ setup # NoCall
  BY DEF SelectContract, NoCall
<1>2. SetupKeys(setup) /\ SetupContract(setup, chain) /\ Counts(count') /\ count' = count
  BY <1>1 DEF DeployInv, SetupFits, SelectContract
<1>5. ~setup.deploy
  BY DEF SelectContract
<1>3. CASE c = NoValue
  <2>1. setup' = NoCall
    BY <1>3 DEF SelectContract
  <2> QED
    BY <1>2, <2>1, NoCallFits, SetupOnly DEF SelectContract
<1>4. CASE c # NoValue
  <2>1. setup' = MovedWith(setup, c, step) /\ step \in {"env", "key"}
    BY <1>4 DEF SelectContract, MovedWith
  <2>3. c \in DOMAIN chain /\ (setup.desktop => c = Bundled)
    BY <1>1, <1>2, <1>4 DEF ExistingContract, SetupContract, SetupKeys, DeployInv, ChainFits
  <2>4. step = "env" => setup.role = "publisher"
    OBVIOUS
  <2> HIDE DEF c, step
  <2>2. /\ setup'.pc = step /\ setup' # NoCall /\ SetupKeys(setup') /\ setup'.contract = c /\ setup'.role = setup.role
        /\ (setup'.deploy <=> setup.deploy) /\ (setup'.desktop <=> setup.desktop)
    BY <1>2, <2>1, SetupMovesWith
  <2>5. SetupFits(setup', chain, keyFile) /\ \A e : Unused(setup', e)
    BY <1>1, <1>5, <2>1, <2>2, <2>3, <2>4 DEF SetupFits, SetupSteps, SetupContract, SetupAttester, Unused
  <2> QED
    BY <1>2, <2>5, SetupOnly DEF SelectContract
<1> QED
  BY <1>3, <1>4

LEMMA DeployContractStep ==
    ASSUME DeployInv, NEW outcome \in Outcomes, DeployContract(outcome)
    PROVE  DeployInv'
<1> DEFINE c == Len(chain) + 1
<1>1. /\ setup.pc = "contract" /\ setup.deploy /\ setup # NoCall
      /\ UNCHANGED <<env, keyFile, settings, keychain, prov, count, cfg, stack, mount, pidFile, leafKeys>>
  BY DEF DeployContract, NoCall, stackVars
<1>2. SetupKeys(setup) /\ SetupContract(setup, chain) /\ setup.role # "attester"
  BY <1>1 DEF DeployInv, SetupFits, SetupKeys
<1>3. chain \in Seq(Contract) /\ Blank("setup") \in Contract /\ Blank("setup").by = "setup" /\ Len(chain) \in Nat
  BY BlankContract DEF DeployInv, ChainFits
<1>4. Later(chain, chain, {})
  BY <1>3 DEF Later, Keeps
<1>5. Later(chain, chain', {}) /\ (outcome = "ok" => c \in DOMAIN chain' /\ chain'[c].by = "setup")
  BY <1>3, <1>4, Deployed DEF DeployContract, Applied
<1>6. /\ ChainFits(chain') /\ EnvFits(env, chain, keyFile)' /\ EnvFits(cfg, chain, keyFile)'
      /\ SettingsFit(settings, chain)' /\ ProvFits(prov, chain')
  BY <1>1, <1>5, ChainMoves
<1>7. SetupFits(setup', chain', keyFile) /\ Unused(setup', env) /\ Unused(setup', cfg)
  <2>1. CASE outcome = "ok"
    <3>1. setup' = MovedWith(setup, c, "initialize")
      BY <2>1 DEF DeployContract, MovedWith
    <3>2. c # Bundled /\ c \notin DOMAIN chain
      BY <1>3 DEF DeployInv, ChainFits, Bundled
    <3> HIDE DEF c
    <3>3. /\ setup'.pc = "initialize" /\ setup' # NoCall /\ SetupKeys(setup') /\ setup'.contract = c /\ setup'.role = setup.role
          /\ (setup'.deploy <=> setup.deploy) /\ (setup'.desktop <=> setup.desktop)
      BY <1>2, <3>1, SetupMovesWith
    <3>4. env.contract # c /\ cfg.contract # c
      BY <3>2 DEF DeployInv, EnvFits
    <3> QED
      BY <1>1, <1>2, <1>5, <2>1, <3>2, <3>3, <3>4 DEF SetupFits, SetupSteps, SetupContract, SetupAttester, Unused
  <2>2. CASE outcome # "ok"
    <3>1. setup' = NoCall
      BY <2>2 DEF DeployContract
    <3> QED
      BY <3>1, NoCallFits
  <2> QED
    BY <2>1, <2>2
<1> QED
  BY <1>1, <1>6, <1>7 DEF DeployInv

LEMMA InitializeStep ==
    ASSUME DeployInv, NEW outcome \in Outcomes, InitializeContract(outcome)
    PROVE  DeployInv'
<1> DEFINE c == setup.contract
           r == [chain[c] EXCEPT !.admin = setup.pub]
<1>1. /\ setup.pc = "initialize" /\ setup # NoCall
      /\ UNCHANGED <<env, keyFile, settings, keychain, prov, count, cfg, stack, mount, pidFile, leafKeys>>
  BY DEF InitializeContract, NoCall, stackVars
<1>2. /\ SetupKeys(setup) /\ setup.deploy /\ setup.role # "attester" /\ setup.pub \in Keys /\ setup.pub # NoValue
      /\ c \in DOMAIN chain /\ c # Bundled /\ chain[c].by = "setup"
  BY <1>1 DEF DeployInv, SetupFits, SetupKeys, SetupContract
<1>3. chain \in Seq(Contract) /\ chain[c] \in Contract
  BY <1>2 DEF DeployInv, ChainFits
<1>4. /\ r \in Contract /\ r.admin = setup.pub /\ r.by = "setup" /\ Keeps(chain[c], r)
  BY <1>2, <1>3, ContractAdmin DEF Keeps
<1>5. Applied(outcome) => chain' = [chain EXCEPT ![c] = r]
  BY DEF InitializeContract
<1> HIDE DEF r
<1>6. /\ Later(chain, chain', {c}) /\ c \in DOMAIN chain' /\ chain'[c].by = "setup"
      /\ outcome = "ok" => chain'[c].admin = setup.pub
  <2>1. CASE Applied(outcome)
    BY <1>2, <1>3, <1>4, <1>5, <2>1, Replaced
  <2>2. CASE ~Applied(outcome)
    <3>1. chain' = chain /\ outcome # "ok"
      BY <2>2 DEF InitializeContract, Applied
    <3> QED
      BY <1>2, <1>3, <3>1 DEF Later, Keeps
  <2> QED
    BY <2>1, <2>2
<1>7. /\ Deployer(env) => env.contract \notin {c}
      /\ Deployer(cfg) => cfg.contract \notin {c}
  BY <1>1 DEF DeployInv, Unused
<1>8. /\ ChainFits(chain') /\ EnvFits(env, chain, keyFile)' /\ EnvFits(cfg, chain, keyFile)'
      /\ SettingsFit(settings, chain)' /\ ProvFits(prov, chain')
  BY <1>1, <1>6, <1>7, ChainMoves
<1>9. SetupFits(setup', chain', keyFile) /\ Unused(setup', env) /\ Unused(setup', cfg)
  <2>1. CASE outcome = "ok"
    <3>1. setup' = [setup EXCEPT !.pc = "register"]
      BY <2>1 DEF InitializeContract, StepTo
    <3>2. /\ setup'.pc = "register" /\ setup' # NoCall /\ SetupKeys(setup') /\ setup'.contract = c
          /\ setup'.role = setup.role /\ setup'.pub = setup.pub
          /\ (setup'.deploy <=> setup.deploy) /\ (setup'.desktop <=> setup.desktop)
      BY <1>2, <3>1, SetupMoves
    <3> QED
      BY <1>2, <1>6, <2>1, <3>2 DEF SetupFits, SetupSteps, SetupContract, SetupAttester, Unused
  <2>2. CASE outcome # "ok"
    <3>1. setup' = NoCall
      BY <2>2 DEF InitializeContract, StepTo
    <3> QED
      BY <3>1, NoCallFits
  <2> QED
    BY <2>1, <2>2
<1> QED
  BY <1>1, <1>8, <1>9 DEF DeployInv

LEMMA RegisterStep ==
    ASSUME DeployInv, NEW given \in BOOLEAN, NEW outcome \in Outcomes, RegisterDisclosureVk(given, outcome)
    PROVE  DeployInv'
<1> DEFINE c == setup.contract
           r == [chain[c] EXCEPT !.dvk = Registered(given)]
           step == IF setup.role = "publisher" THEN "env" ELSE "key"
<1>1. /\ setup.pc = "register" /\ setup # NoCall
      /\ UNCHANGED <<env, keyFile, settings, keychain, prov, count, cfg, stack, mount, pidFile, leafKeys>>
  BY DEF RegisterDisclosureVk, NoCall, stackVars
<1>2. /\ SetupKeys(setup) /\ setup.deploy /\ setup.role # "attester"
      /\ c \in DOMAIN chain /\ c # Bundled /\ chain[c].by = "setup" /\ chain[c].admin = setup.pub
  BY <1>1 DEF DeployInv, SetupFits, SetupContract
<1>3. chain \in Seq(Contract) /\ chain[c] \in Contract /\ Registered(given) \in {"pinned", "declined"}
  BY <1>2 DEF DeployInv, ChainFits, Registered
<1>4. /\ r \in Contract /\ r.admin = chain[c].admin /\ r.by = "setup" /\ r.dvk # "none" /\ Keeps(chain[c], r)
  BY <1>2, <1>3, ContractDvk DEF Keeps
<1>5. Applied(outcome) => chain' = [chain EXCEPT ![c] = r]
  BY DEF RegisterDisclosureVk
<1> HIDE DEF r
<1>6. /\ Later(chain, chain', {}) /\ c \in DOMAIN chain'
      /\ outcome = "ok" => chain'[c].dvk # "none" /\ chain'[c].by = "setup" /\ chain'[c].admin = setup.pub
  <2>1. CASE Applied(outcome)
    <3>1. c \in DOMAIN chain /\ r \in Contract /\ Keeps(chain[c], r) /\ r.admin = chain[c].admin
      BY <1>2, <1>4
    <3>2. chain' = [chain EXCEPT ![c] = r]
      BY <1>5, <2>1
    <3>3. Later(chain, chain', {}) /\ DOMAIN chain' = DOMAIN chain /\ chain'[c] = r
      BY <1>3, <3>1, <3>2, Replaced
    <3> QED
      BY <1>2, <1>4, <3>3
  <2>2. CASE ~Applied(outcome)
    <3>1. chain' = chain /\ outcome # "ok"
      BY <2>2 DEF RegisterDisclosureVk, Applied
    <3> QED
      BY <1>2, <1>3, <3>1 DEF Later, Keeps
  <2> QED
    BY <2>1, <2>2
<1>7. /\ ChainFits(chain') /\ EnvFits(env, chain, keyFile)' /\ EnvFits(cfg, chain, keyFile)'
      /\ SettingsFit(settings, chain)' /\ ProvFits(prov, chain')
  BY <1>1, <1>6, ChainMoves
<1>8. SetupFits(setup', chain', keyFile) /\ Unused(setup', env) /\ Unused(setup', cfg)
  <2>1. CASE outcome = "ok"
    <3>1. setup' = [setup EXCEPT !.pc = step] /\ step \in {"env", "key"} /\ (step = "env" => setup.role = "publisher")
      BY <2>1 DEF RegisterDisclosureVk, StepTo
    <3> HIDE DEF step
    <3>2. /\ setup'.pc = step /\ setup' # NoCall /\ SetupKeys(setup') /\ setup'.contract = c
          /\ setup'.role = setup.role /\ setup'.pub = setup.pub
          /\ (setup'.deploy <=> setup.deploy) /\ (setup'.desktop <=> setup.desktop)
      BY <1>2, <3>1, SetupMoves
    <3> QED
      BY <1>2, <1>6, <2>1, <3>1, <3>2 DEF SetupFits, SetupSteps, SetupContract, SetupAttester, Unused
  <2>2. CASE outcome # "ok"
    <3>1. setup' = NoCall
      BY <2>2 DEF RegisterDisclosureVk, StepTo
    <3> QED
      BY <3>1, NoCallFits
  <2> QED
    BY <2>1, <2>2
<1> QED
  BY <1>1, <1>7, <1>8 DEF DeployInv

LEMMA LoadKeyStep ==
    ASSUME DeployInv, LoadAttesterKey
    PROVE  DeployInv'
<1> DEFINE step == IF setup.role = "all" THEN "authorize" ELSE "env"
           n == count.setups
<1>1. /\ setup.pc = "key" /\ setup # NoCall
      /\ UNCHANGED <<chain, env, settings, keychain, prov, count, cfg, stack, mount, pidFile, leafKeys>>
  BY DEF LoadAttesterKey, NoCall, stackVars
<1>2. SetupKeys(setup) /\ SetupContract(setup, chain)
  BY <1>1 DEF DeployInv, SetupFits
<1>3. n \in 0..MaxSetups /\ n \in Nat
  BY DeploymentAssumption DEF DeployInv, Counts
<1>4. <<"ed", n>> \in Keys /\ Real(<<"ed", n>>)
  BY <1>3, DeploymentAssumption DEF Keys, KeyNames, Real
<1>5. keyFile' \in Keys /\ Real(keyFile') /\ (Real(keyFile) => keyFile' = keyFile)
  BY <1>4 DEF LoadAttesterKey, AttesterKey, DeployInv, Real
<1>6. setup' = [setup EXCEPT !.pc = step] /\ step \in {"authorize", "env"} /\ (step = "env" => setup.role # "all")
  BY DEF LoadAttesterKey
<1> HIDE DEF step
<1>7. /\ setup'.pc = step /\ setup' # NoCall /\ SetupKeys(setup') /\ setup'.contract = setup.contract
      /\ setup'.role = setup.role /\ setup'.pub = setup.pub
      /\ (setup'.deploy <=> setup.deploy) /\ (setup'.desktop <=> setup.desktop)
  BY <1>2, <1>6, SetupMoves
<1>8. SetupFits(setup', chain, keyFile') /\ Unused(setup', env) /\ Unused(setup', cfg)
  BY <1>1, <1>2, <1>5, <1>6, <1>7 DEF SetupFits, SetupSteps, SetupContract, SetupAttester, Unused
<1>9. EnvFits(env, chain, keyFile') /\ EnvFits(cfg, chain, keyFile')
  BY <1>5, LaterKey DEF DeployInv
<1>10. StackFits(stack, mount, keyFile', leafKeys, cfg)
  BY <1>5 DEF DeployInv, StackFits
<1> QED
  BY <1>1, <1>5, <1>8, <1>9, <1>10 DEF DeployInv

LEMMA AuthorizeStep ==
    ASSUME DeployInv, NEW outcome \in Outcomes, AuthorizeAttester(outcome)
    PROVE  DeployInv'
<1> DEFINE c == setup.contract
           pair == <<setup.att, keyFile>>
           a == chain[c].attesters \cup {pair}
           r == [chain[c] EXCEPT !.attesters = a]
<1>1. /\ setup.pc = "authorize" /\ setup # NoCall
      /\ UNCHANGED <<env, keyFile, settings, keychain, prov, count, cfg, stack, mount, pidFile, leafKeys>>
  BY DEF AuthorizeAttester, NoCall, stackVars
<1>2. /\ SetupKeys(setup) /\ SetupContract(setup, chain) /\ Real(keyFile) /\ setup.att \in Keys /\ keyFile \in Keys
      /\ c \in DOMAIN chain
  BY <1>1 DEF DeployInv, SetupFits, SetupKeys, SetupContract, SetupAttester
<1>3. chain \in Seq(Contract) /\ chain[c] \in Contract
  BY <1>2 DEF DeployInv, ChainFits
<1>4. a \in SUBSET (Keys \X Keys)
  BY <1>2, <1>3 DEF Contract
<1>5. chain' = [chain EXCEPT ![c] = r] \/ (chain' = chain /\ outcome # "ok")
  BY DEF AuthorizeAttester, Applied
<1> HIDE DEF a
<1>6. /\ r \in Contract /\ r.admin = chain[c].admin /\ r.attesters = a /\ r.by = chain[c].by /\ r.dvk = chain[c].dvk
      /\ r.revoked = chain[c].revoked
  BY <1>3, <1>4, ContractAttesters
<1> HIDE DEF r
<1>7. Keeps(chain[c], r)
  BY <1>6 DEF Keeps, a
<1>8. Later(chain, chain', {}) /\ c \in DOMAIN chain' /\ (outcome = "ok" => pair \in chain'[c].attesters)
  <2>1. CASE chain' = [chain EXCEPT ![c] = r]
    <3>1. Later(chain, chain', {}) /\ DOMAIN chain' = DOMAIN chain /\ chain'[c] = r
      BY <1>2, <1>3, <1>6, <1>7, <2>1, Replaced
    <3> QED
      BY <1>2, <1>6, <3>1 DEF a
  <2>2. CASE chain' = chain /\ outcome # "ok"
    BY <1>2, <1>3, <2>2 DEF Later, Keeps
  <2> QED
    BY <1>5, <2>1, <2>2
<1> HIDE DEF pair
<1>9. /\ ChainFits(chain') /\ EnvFits(env, chain, keyFile)' /\ EnvFits(cfg, chain, keyFile)'
      /\ SettingsFit(settings, chain)' /\ SetupFits(setup, chain', keyFile) /\ ProvFits(prov, chain')
  BY <1>1, <1>8, ChainStep
<1>10. SetupFits(setup', chain', keyFile) /\ Unused(setup', env) /\ Unused(setup', cfg)
  <2>1. CASE outcome = "ok"
    <3>1. setup' = [setup EXCEPT !.pc = "env"]
      BY <2>1 DEF AuthorizeAttester, StepTo
    <3>2. /\ setup'.pc = "env" /\ setup' # NoCall /\ SetupKeys(setup') /\ setup'.contract = c
          /\ setup'.role = setup.role /\ setup'.pub = setup.pub /\ setup'.att = setup.att
          /\ (setup'.deploy <=> setup.deploy) /\ (setup'.desktop <=> setup.desktop)
      BY <1>2, <3>1, SetupMoves
    <3>3. SetupContract(setup', chain')
      BY <1>1, <1>9, <3>2 DEF SetupContract, SetupFits
    <3>4. SetupAttester(setup', chain', keyFile)
      BY <1>2, <1>8, <2>1, <3>2 DEF SetupAttester, pair
    <3> QED
      BY <3>2, <3>3, <3>4 DEF SetupFits, SetupSteps, Unused
  <2>2. CASE outcome # "ok"
    <3>1. setup' = NoCall
      BY <2>2 DEF AuthorizeAttester, StepTo
    <3> QED
      BY <3>1, NoCallFits
  <2> QED
    BY <2>1, <2>2
<1> QED
  BY <1>1, <1>9, <1>10 DEF DeployInv

LEMMA WriteEnvStep ==
    ASSUME DeployInv, NEW outcome, WriteEnv(outcome)
    PROVE  DeployInv'
<1>1. /\ setup.pc = "env" /\ setup # NoCall
      /\ UNCHANGED <<chain, keyFile, settings, keychain, prov, count, cfg, stack, mount, pidFile, leafKeys>>
  BY DEF WriteEnv, NoCall, stackVars
<1>2. SetupKeys(setup) /\ SetupContract(setup, chain) /\ SetupAttester(setup, chain, keyFile)
  BY <1>1 DEF DeployInv, SetupFits
<1>3. EnvFits(EnvironmentOf(setup), chain, keyFile)
  <2> DEFINE e == EnvironmentOf(setup)
  <2>1. /\ e.role = setup.role /\ e.contract = setup.contract /\ e.pub = setup.pub /\ e.att = setup.att
        /\ Deployer(e) => setup.deploy
    BY DEF EnvironmentOf, Deployer
  <2> HIDE DEF e
  <2>2. e.role \in Roles \cup {NoValue} /\ e.contract \in DOMAIN chain
    BY <1>1, <1>2, <2>1 DEF SetupKeys, SetupContract
  <2>3. Deployer(e) => /\ e.pub # NoValue /\ chain[e.contract].by = "setup"
                       /\ chain[e.contract].admin = e.pub /\ chain[e.contract].dvk # "none"
    BY <1>1, <1>2, <2>1 DEF SetupContract, SetupKeys, Deployer
  <2>4. e.role = "all" => Real(keyFile) /\ <<e.att, keyFile>> \in chain[e.contract].attesters \cup chain[e.contract].revoked
    BY <1>1, <1>2, <2>1 DEF SetupAttester
  <2> QED
    BY <2>2, <2>3, <2>4 DEF EnvFits, e
<1>4. EnvFits(env', chain, keyFile)
  BY <1>3 DEF WriteEnv, DeployInv
<1>5. CASE setup' = NoCall
  BY <1>1, <1>4, <1>5, NoCallFits DEF DeployInv
<1>6. CASE setup' # NoCall
  <2>1. setup' = [setup EXCEPT !.pc = "uris"]
    BY <1>6 DEF WriteEnv
  <2>2. setup'.pc = "uris" /\ SetupKeys(setup')
    BY <1>2, <2>1, SetupMoves
  <2>3. SetupFits(setup', chain, keyFile) /\ \A e : Unused(setup', e)
    BY <2>2 DEF SetupFits, SetupSteps, SetupContract, SetupAttester, Unused
  <2> QED
    BY <1>1, <1>4, <2>3 DEF DeployInv
<1> QED
  BY <1>5, <1>6

(* The desktop's wizard goes on after it has written the file. *)
Written == setup # NoCall /\ setup.pc = "uris" => Deployer(env) \/ env.contract = Bundled

LEMMA StepToStays ==
    ASSUME NEW outcome, NEW step, step # "uris", StepTo(outcome, step), SetupKeys(setup)
    PROVE  setup' = NoCall \/ setup'.pc # "uris"
<1>1. CASE outcome = "ok"
  <2>1. setup' = [setup EXCEPT !.pc = step] /\ "pc" \in DOMAIN setup
    BY <1>1 DEF StepTo, SetupKeys
  <2> QED
    BY <2>1
<1> QED
  BY <1>1 DEF StepTo

LEMMA WrittenStep ==
    ASSUME DeployInv, Written, DeployNext
    PROVE  Written'
<1>1. CASE UNCHANGED <<setup, env>>
  BY <1>1 DEF Written
<1>2. CASE CallNext
  BY <1>1, <1>2 DEF CallNext, ProvisionTestnetContract, DesktopSetup, CliSetup, SetupCall, Written
<1>3. CASE WizardNext
  <2>a. setup.pc \in SetupSteps
    BY <1>3 DEF SetupSteps, WizardNext, SelectContract, LoadAttesterKey, FundAccounts, DeployContract,
                InitializeContract, RegisterDisclosureVk, AuthorizeAttester, WriteEnv, SyncSettings
  <2>1. setup # NoCall /\ SetupKeys(setup)
    BY <2>a DEF DeployInv, SetupFits, NoCall, SetupSteps
  <2>2. "pc" \in DOMAIN setup
    BY <2>1 DEF SetupKeys
  <2>3. CASE SelectContract
    BY <2>2, <2>3 DEF SelectContract, Written
  <2>4. CASE LoadAttesterKey
    BY <2>2, <2>4 DEF LoadAttesterKey, Written
  <2>5. ASSUME NEW o \in Outcomes, \/ FundAccounts(o) \/ InitializeContract(o) \/ AuthorizeAttester(o)
               \/ \E given \in BOOLEAN : RegisterDisclosureVk(given, o)
        PROVE  Written'
    <3>1. \E step \in {"contract", "register", "env", "key"} : StepTo(o, step)
      BY <2>5 DEF FundAccounts, InitializeContract, RegisterDisclosureVk, AuthorizeAttester
    <3> QED
      BY <2>1, <3>1, StepToStays DEF Written
  <2>6. ASSUME NEW o \in Outcomes, DeployContract(o) PROVE Written'
    BY <2>2, <2>6 DEF DeployContract, Written
  <2>7. ASSUME NEW o \in Outcomes, WriteEnv(o) PROVE Written'
    <3>1. setup' # NoCall => env' = EnvironmentOf(setup) /\ setup.desktop
      BY <2>7 DEF WriteEnv
    <3>2. setup.pc = "env" /\ SetupContract(setup, chain)
      BY <2>1, <2>7 DEF WriteEnv, DeployInv, SetupFits
    <3>3. setup' # NoCall => Deployer(env') \/ env'.contract = Bundled
      BY <3>1, <3>2 DEF SetupContract, EnvironmentOf, Deployer
    <3> QED
      BY <3>3 DEF Written
  <2>8. ASSUME NEW o \in Outcomes, SyncSettings(o) PROVE Written'
    BY <2>8 DEF SyncSettings, Written
  <2> QED
    BY <1>3, <2>3, <2>4, <2>5, <2>6, <2>7, <2>8 DEF WizardNext
<1>4. CASE ProvisionNext \/ SettingsNext
  <2>1. UNCHANGED <<setup, env>>
    BY <1>4 DEF ProvisionNext, ValidateContract, ProvisionDeploy, ProvisionInitialize, ProvisionRegister, ProvisionSave,
                SettingsNext, SetAuditMode, SetProductionNetwork, GenerateStellarAccount, ImportProductionKeypair,
                ClearProductionKeypair, AuthorizeOnchainAttester, RevokeOnchainAttester
  <2> QED
    BY <1>1, <2>1
<1>5. CASE StackNext
  <2>1. UNCHANGED <<setup, env>>
    BY <1>5 DEF StackNext, StackUp, PublisherStart, AttesterStart, StackDown, Crash, RestartContainer, PublishEvent
  <2> QED
    BY <1>1, <2>1
<1> QED
  BY <1>2, <1>3, <1>4, <1>5 DEF DeployNext

LEMMA SyncStep ==
    ASSUME DeployInv, Written, NEW outcome, SyncSettings(outcome)
    PROVE  DeployInv'
<1>1. /\ setup.pc = "uris" /\ setup # NoCall /\ setup' = NoCall
      /\ UNCHANGED <<chain, env, keyFile, keychain, prov, count, cfg, stack, mount, pidFile, leafKeys>>
  BY DEF SyncSettings, NoCall, stackVars
<1>2. /\ env.contract \in DOMAIN chain /\ chain[env.contract].admin # NoValue /\ chain[env.contract].dvk # "none"
  BY <1>1 DEF DeployInv, Written, EnvFits, ChainFits, Deployer
<1>3. SettingsFit(settings', chain)
  <2>1. CASE outcome = "ok"
    <3>1. settings' = [settings EXCEPT !.testnet = env.contract] /\ DOMAIN settings = {"mode", "network", "testnet"}
      BY <2>1 DEF SyncSettings, DeployInv, SettingsFit
    <3>2. /\ settings'.testnet = env.contract /\ settings'.mode = settings.mode
          /\ DOMAIN settings' = {"mode", "network", "testnet"}
      BY <3>1
    <3> QED
      BY <1>2, <3>2 DEF DeployInv, SettingsFit
  <2>2. CASE outcome # "ok"
    BY <2>2 DEF SyncSettings, DeployInv
  <2> QED
    BY <2>1, <2>2
<1> QED
  BY <1>1, <1>3, NoCallFits DEF DeployInv

-----------------------------------------------------------------------------
(* Settings and provisioning *)

LEMMA SettingsStep ==
    ASSUME DeployInv,
           \/ \E mode \in {"dev", "production"} : SetAuditMode(mode)
           \/ \E network \in Networks : SetProductionNetwork(network)
    PROVE  DeployInv'
<1>1. UNCHANGED <<chain, env, keyFile, keychain, setup, prov, cfg, stack, mount, pidFile, leafKeys>>
  BY DEF SetAuditMode, SetProductionNetwork, stackVars
<1>2. Counts(count')
  BY CountedCounts DEF SetAuditMode, SetProductionNetwork, DeployInv
<1>3. SettingsFit(settings', chain)
  <2>1. DOMAIN settings = {"mode", "network", "testnet"}
    BY DEF DeployInv, SettingsFit
  <2>2. CASE \E mode \in {"dev", "production"} : SetAuditMode(mode)
    BY <2>1, <2>2 DEF DeployInv, SettingsFit, SetAuditMode
  <2>3. CASE \E network \in Networks : SetProductionNetwork(network)
    BY <2>1, <2>3 DEF DeployInv, SettingsFit, SetProductionNetwork
  <2> QED
    BY <2>2, <2>3
<1> QED
  BY <1>1, <1>2, <1>3 DEF DeployInv

LEMMA KeychainStep ==
    ASSUME DeployInv, GenerateStellarAccount \/ ImportProductionKeypair \/ ClearProductionKeypair
    PROVE  DeployInv'
<1>1. UNCHANGED <<chain, env, keyFile, settings, setup, prov, cfg, stack, mount, pidFile, leafKeys>>
  BY DEF GenerateStellarAccount, ImportProductionKeypair, ClearProductionKeypair, stackVars
<1>2. Counts(count')
  BY CountedCounts DEF GenerateStellarAccount, ImportProductionKeypair, ClearProductionKeypair, DeployInv
<1>3. <<"dev", count.settings>> \in Keys /\ <<"production", 0>> \in Keys /\ NoValue \in Keys
  BY DEF DeployInv, Counts, Keys, KeyNames
<1>4. Keychain(keychain')
  BY <1>3 DEF DeployInv, Keychain, GenerateStellarAccount, ImportProductionKeypair, ClearProductionKeypair
<1> QED
  BY <1>1, <1>2, <1>4 DEF DeployInv

LEMMA ProvisionStarts ==
    ASSUME DeployInv, ProvisionTestnetContract
    PROVE  DeployInv'
<1> DEFINE mode == settings.mode
           key == IF mode = "dev" /\ keychain.dev = NoValue THEN <<"trial", count.provisions>> ELSE keychain[mode]
<1>1. UNCHANGED <<chain, env, keyFile, settings, setup, cfg, stack, mount, pidFile, leafKeys>>
  BY DEF ProvisionTestnetContract, stackVars
<1>2. Counts(count')
  BY CountedCounts DEF ProvisionTestnetContract, DeployInv
<1>3. key \in Keys
  BY DEF DeployInv, Counts, Keychain, SettingsFit, Keys, KeyNames
<1>4. /\ key # NoValue /\ keychain' = IF mode = "dev" THEN [keychain EXCEPT !.dev = key] ELSE keychain
      /\ prov' = [pc |-> "validate", key |-> key, contract |-> settings.testnet]
  BY DEF ProvisionTestnetContract
<1> HIDE DEF key
<1>5. Keychain(keychain')
  BY <1>3, <1>4 DEF DeployInv, Keychain
<1>6. ProvFits(prov', chain)
  BY <1>3, <1>4 DEF ProvFits
<1> QED
  BY <1>1, <1>2, <1>5, <1>6 DEF DeployInv

LEMMA ProvMoves ==
    ASSUME NEW p, {"pc", "key", "contract"} = DOMAIN p, NEW step, step # "idle"
    PROVE  LET n == [p EXCEPT !.pc = step] IN
           /\ n.pc = step /\ n.key = p.key /\ n.contract = p.contract /\ {"pc", "key", "contract"} = DOMAIN n
           /\ n # NoCall
BY DEF NoCall

(* A step that changes nothing but the provisioning call and its contract. *)
LEMMA ProvisionOnly ==
    ASSUME DeployInv, NEW changed, Later(chain, chain', changed),
           \A i \in changed : i # Bundled /\ (i \in DOMAIN chain => chain[i].by # "setup"), ProvFits(prov', chain'),
           UNCHANGED <<env, keyFile, settings, keychain, setup, count, stackVars>>
    PROVE  DeployInv'
<1>1. UNCHANGED <<env, keyFile, settings, keychain, setup, count, cfg, stack, mount, pidFile, leafKeys>>
  BY DEF stackVars
<1>2. /\ ChainFits(chain') /\ EnvFits(env, chain, keyFile)' /\ EnvFits(cfg, chain, keyFile)'
      /\ SettingsFit(settings, chain)' /\ SetupFits(setup, chain', keyFile)
  BY <1>1, ChainStep
<1> QED
  BY <1>1, <1>2 DEF DeployInv

LEMMA ValidateStep ==
    ASSUME DeployInv, NEW reachable, ValidateContract(reachable)
    PROVE  DeployInv'
<1>1. prov.pc = "validate" /\ prov # NoCall /\ chain' = chain
  BY DEF ValidateContract, NoCall
<1>2. {"pc", "key", "contract"} = DOMAIN prov /\ prov.key \in Keys \ {NoValue} /\ chain \in Seq(Contract)
  BY <1>1 DEF DeployInv, ProvFits, ChainFits
<1>3. Later(chain, chain', {})
  BY <1>1, <1>2 DEF Later, Keeps
<1>4. prov' = [prov EXCEPT !.pc = "deploy"] \/ prov' = NoCall
  BY DEF ValidateContract
<1>5. ProvFits(prov', chain')
  BY <1>2, <1>4, ProvMoves DEF ProvFits
<1> QED
  BY <1>3, <1>5, ProvisionOnly DEF ValidateContract

LEMMA ProvisionDeployStep ==
    ASSUME DeployInv, NEW outcome \in Outcomes, ProvisionDeploy(outcome)
    PROVE  DeployInv'
<1> DEFINE c == Len(chain) + 1
<1>1. prov.pc = "deploy" /\ prov # NoCall
  BY DEF ProvisionDeploy, NoCall
<1>2. {"pc", "key", "contract"} = DOMAIN prov /\ prov.key \in Keys \ {NoValue}
  BY <1>1 DEF DeployInv, ProvFits
<1>3. chain \in Seq(Contract) /\ Blank("desktop") \in Contract /\ Blank("desktop").by = "desktop"
  BY BlankContract DEF DeployInv, ChainFits
<1>4. Later(chain, chain, {})
  BY <1>3 DEF Later, Keeps
<1>5. Later(chain, chain', {}) /\ (outcome = "ok" => c \in DOMAIN chain' /\ chain'[c].by = "desktop")
  BY <1>3, <1>4, Deployed DEF ProvisionDeploy, Applied
<1>6. ProvFits(prov', chain')
  <2>1. CASE outcome = "ok"
    <3>1. prov' = [prov EXCEPT !.pc = "initialize", !.contract = c]
      BY <2>1 DEF ProvisionDeploy
    <3> HIDE DEF c
    <3>2. prov'.pc = "initialize" /\ prov'.contract = c /\ prov'.key = prov.key /\ {"pc", "key", "contract"} = DOMAIN prov'
      BY <1>2, <3>1
    <3> QED
      BY <1>2, <1>5, <2>1, <3>2 DEF ProvFits
  <2>2. CASE outcome # "ok"
    BY <2>2, NoCallFits DEF ProvisionDeploy
  <2> QED
    BY <2>1, <2>2
<1> QED
  BY <1>5, <1>6, ProvisionOnly DEF ProvisionDeploy

LEMMA ProvisionInitializeStep ==
    ASSUME DeployInv, NEW outcome \in Outcomes, ProvisionInitialize(outcome)
    PROVE  DeployInv'
<1> DEFINE c == prov.contract
           r == [chain[c] EXCEPT !.admin = prov.key]
<1>1. prov.pc = "initialize" /\ prov # NoCall
  BY DEF ProvisionInitialize, NoCall
<1>2. /\ {"pc", "key", "contract"} = DOMAIN prov /\ prov.key \in Keys /\ prov.key # NoValue
      /\ c \in DOMAIN chain /\ chain[c].by = "desktop" /\ c # Bundled
  BY <1>1 DEF DeployInv, ProvFits, ChainFits
<1>3. chain \in Seq(Contract) /\ chain[c] \in Contract
  BY <1>2 DEF DeployInv, ChainFits
<1>4. r \in Contract /\ r.admin = prov.key /\ r.by = "desktop" /\ Keeps(chain[c], r)
  BY <1>2, <1>3, ContractAdmin DEF Keeps
<1>5. chain' = [chain EXCEPT ![c] = r] \/ (chain' = chain /\ outcome # "ok")
  BY DEF ProvisionInitialize, Applied
<1> HIDE DEF r
<1>6. Later(chain, chain', {c}) /\ c \in DOMAIN chain' /\ chain'[c].by = "desktop" /\ (outcome = "ok" => chain'[c].admin # NoValue)
  <2>1. CASE chain' = [chain EXCEPT ![c] = r]
    <3>1. Later(chain, chain', {c}) /\ DOMAIN chain' = DOMAIN chain /\ chain'[c] = r
      BY <1>2, <1>3, <1>4, <2>1, Replaced
    <3> QED
      BY <1>2, <1>4, <3>1
  <2>2. CASE chain' = chain /\ outcome # "ok"
    BY <1>2, <1>3, <2>2 DEF Later, Keeps
  <2> QED
    BY <1>5, <2>1, <2>2
<1>7. ProvFits(prov', chain')
  <2>1. CASE outcome = "ok"
    <3>1. prov' = [prov EXCEPT !.pc = "register"]
      BY <2>1 DEF ProvisionInitialize, ProvisionStep
    <3> QED
      BY <1>2, <1>6, <2>1, <3>1, ProvMoves DEF ProvFits
  <2>2. CASE outcome # "ok"
    BY <2>2, NoCallFits DEF ProvisionInitialize, ProvisionStep
  <2> QED
    BY <2>1, <2>2
<1>8. \A i \in {c} : i # Bundled /\ (i \in DOMAIN chain => chain[i].by # "setup")
  BY <1>2
<1>9. UNCHANGED <<env, keyFile, settings, keychain, setup, count, stackVars>>
  BY DEF ProvisionInitialize
<1> QED
  BY <1>6, <1>7, <1>8, <1>9, ProvisionOnly

LEMMA ProvisionRegisterStep ==
    ASSUME DeployInv, NEW given \in BOOLEAN, NEW outcome \in Outcomes, ProvisionRegister(given, outcome)
    PROVE  DeployInv'
<1> DEFINE c == prov.contract
           r == [chain[c] EXCEPT !.dvk = Registered(given)]
<1>1. prov.pc = "register" /\ prov # NoCall
  BY DEF ProvisionRegister, NoCall
<1>2. /\ {"pc", "key", "contract"} = DOMAIN prov /\ prov.key \in Keys /\ prov.key # NoValue
      /\ c \in DOMAIN chain /\ chain[c].by = "desktop" /\ chain[c].admin # NoValue
  BY <1>1 DEF DeployInv, ProvFits
<1>3. chain \in Seq(Contract) /\ chain[c] \in Contract /\ Registered(given) \in {"pinned", "declined"}
  BY <1>2 DEF DeployInv, ChainFits, Registered
<1>4. r \in Contract /\ r.admin = chain[c].admin /\ r.by = "desktop" /\ r.dvk # "none" /\ Keeps(chain[c], r)
  BY <1>2, <1>3, ContractDvk DEF Keeps
<1>5. chain' = [chain EXCEPT ![c] = r] \/ (chain' = chain /\ outcome # "ok")
  BY DEF ProvisionRegister, Applied
<1> HIDE DEF r
<1>6. /\ Later(chain, chain', {}) /\ c \in DOMAIN chain' /\ chain'[c].by = "desktop" /\ chain'[c].admin # NoValue
      /\ outcome = "ok" => chain'[c].dvk # "none"
  <2>1. CASE chain' = [chain EXCEPT ![c] = r]
    <3>1. r \in Contract /\ Keeps(chain[c], r) /\ r.admin = chain[c].admin
      BY <1>4
    <3>2. Later(chain, chain', {}) /\ DOMAIN chain' = DOMAIN chain /\ chain'[c] = r
      BY <1>2, <1>3, <2>1, <3>1, Replaced
    <3> QED
      BY <1>2, <1>4, <3>2
  <2>2. CASE chain' = chain /\ outcome # "ok"
    BY <1>2, <1>3, <2>2 DEF Later, Keeps
  <2> QED
    BY <1>5, <2>1, <2>2
<1>7. ProvFits(prov', chain')
  <2>1. CASE outcome = "ok"
    <3>1. prov' = [prov EXCEPT !.pc = "save"]
      BY <2>1 DEF ProvisionRegister, ProvisionStep
    <3>2. prov'.pc = "save" /\ prov'.key = prov.key /\ prov'.contract = c /\ {"pc", "key", "contract"} = DOMAIN prov'
      BY <1>2, <3>1, ProvMoves
    <3> QED
      BY <1>2, <1>6, <2>1, <3>2 DEF ProvFits
  <2>2. CASE outcome # "ok"
    BY <2>2, NoCallFits DEF ProvisionRegister, ProvisionStep
  <2> QED
    BY <2>1, <2>2
<1>8. UNCHANGED <<env, keyFile, settings, keychain, setup, count, stackVars>>
  BY DEF ProvisionRegister
<1> QED
  BY <1>6, <1>7, <1>8, ProvisionOnly

LEMMA ProvisionSaveStep ==
    ASSUME DeployInv, ProvisionSave
    PROVE  DeployInv'
<1>1. /\ prov.pc = "save" /\ prov # NoCall /\ prov' = NoCall
      /\ UNCHANGED <<chain, env, keyFile, keychain, setup, count, cfg, stack, mount, pidFile, leafKeys>>
  BY DEF ProvisionSave, NoCall, stackVars
<1>2. prov.contract \in DOMAIN chain /\ chain[prov.contract].admin # NoValue /\ chain[prov.contract].dvk # "none"
  BY <1>1 DEF DeployInv, ProvFits
<1>3. settings' = [settings EXCEPT !.network = "testnet", !.testnet = prov.contract] /\ DOMAIN settings = {"mode", "network", "testnet"}
  BY DEF ProvisionSave, DeployInv, SettingsFit
<1>4. /\ settings'.testnet = prov.contract /\ settings'.mode = settings.mode
      /\ DOMAIN settings' = {"mode", "network", "testnet"}
  BY <1>3
<1>5. SettingsFit(settings', chain)
  BY <1>2, <1>4 DEF SettingsFit, DeployInv
<1> QED
  BY <1>1, <1>5, NoCallFits DEF DeployInv

LEMMA OnchainStep ==
    ASSUME DeployInv, NEW pair \in OnchainPairs, AuthorizeOnchainAttester(pair) \/ RevokeOnchainAttester(pair)
    PROVE  DeployInv'
<1> DEFINE c == OperatorContract
<1>1. UNCHANGED <<env, keyFile, settings, keychain, setup, prov, cfg, stack, mount, pidFile, leafKeys>>
  BY DEF AuthorizeOnchainAttester, RevokeOnchainAttester, stackVars
<1>2. Counts(count')
  BY CountedCounts DEF AuthorizeOnchainAttester, RevokeOnchainAttester, DeployInv
<1>3. chain \in Seq(Contract) /\ c \in DOMAIN chain
  BY DEF DeployInv, ChainFits, SettingsFit, OperatorContract
<1> HIDE DEF c
<1>a. \A i \in DOMAIN chain : chain[i] \in Contract
  BY <1>3
<1>4. chain[c] \in Contract /\ \A i \in DOMAIN chain : chain[i].attesters \subseteq Keys \X Keys
  BY <1>3, <1>a DEF Contract
<1>5. pair \in Keys \X Keys
  <2>1. <<<<"auditor", 0>>, <<"auditor", 0>>>> \in Keys \X Keys
    BY DEF Keys, KeyNames
  <2>2. CASE pair \in AttesterPairs
    <3>1. PICK i \in DOMAIN chain : pair \in chain[i].attesters
      BY <2>2 DEF AttesterPairs
    <3>2. chain[i].attesters \subseteq Keys \X Keys
      BY <1>4
    <3> QED
      BY <3>1, <3>2
  <2> QED
    BY <2>1, <2>2 DEF OnchainPairs
<1>6. \E r \in Contract : Keeps(chain[c], r) /\ r.admin = chain[c].admin /\ chain' = [chain EXCEPT ![c] = r]
  <2>1. CASE AuthorizeOnchainAttester(pair)
    <3> DEFINE a == chain[c].attesters \cup {pair}
               r == [chain[c] EXCEPT !.attesters = a]
    <3>1. chain' = [chain EXCEPT ![c] = r]
      BY <2>1 DEF AuthorizeOnchainAttester, c
    <3>2. a \in SUBSET (Keys \X Keys)
      BY <1>3, <1>4, <1>5
    <3> HIDE DEF a
    <3>3. /\ r \in Contract /\ r.admin = chain[c].admin /\ r.by = chain[c].by /\ r.dvk = chain[c].dvk
          /\ r.attesters = a /\ r.revoked = chain[c].revoked
      BY <1>4, <3>2, ContractAttesters
    <3> HIDE DEF r
    <3>4. Keeps(chain[c], r)
      BY <3>3 DEF Keeps, a
    <3> QED
      BY <3>1, <3>3, <3>4
  <2>2. CASE RevokeOnchainAttester(pair)
    <3> DEFINE a == chain[c].attesters \ {pair}
               b == chain[c].revoked \cup {pair}
               r == WithPairs(chain[c], a, b)
    <3>1. chain' = [chain EXCEPT ![c] = r]
      BY <1>3, <1>4, <2>2 DEF RevokeOnchainAttester, c, Contract, WithPairs
    <3>2. a \in SUBSET (Keys \X Keys) /\ b \in SUBSET (Keys \X Keys)
      BY <1>4, <1>5 DEF Contract
    <3> HIDE DEF a, b
    <3>3. /\ r \in Contract /\ r.admin = chain[c].admin /\ r.by = chain[c].by /\ r.dvk = chain[c].dvk
          /\ r.attesters = a /\ r.revoked = b
      BY <1>4, <3>2, ContractRevoked
    <3> HIDE DEF r
    <3>4. Keeps(chain[c], r)
      BY <3>3 DEF Keeps, a, b
    <3> QED
      BY <3>1, <3>3, <3>4
  <2> QED
    BY <2>1, <2>2
<1>7. Later(chain, chain', {})
  <2>1. PICK r \in Contract : Keeps(chain[c], r) /\ r.admin = chain[c].admin /\ chain' = [chain EXCEPT ![c] = r]
    BY <1>6
  <2>2. Later(chain, [chain EXCEPT ![c] = r], {})
    BY <1>3, <2>1, Replaced
  <2> QED
    BY <2>1, <2>2
<1>8. /\ ChainFits(chain') /\ EnvFits(env, chain, keyFile)' /\ EnvFits(cfg, chain, keyFile)'
      /\ SettingsFit(settings, chain)' /\ SetupFits(setup, chain', keyFile) /\ ProvFits(prov, chain')
  BY <1>1, <1>7, ChainStep
<1> QED
  BY <1>1, <1>2, <1>8 DEF DeployInv

-----------------------------------------------------------------------------
(* The containers *)

LEMMA StackUpStep ==
    ASSUME DeployInv, NEW healed \in BOOLEAN, NEW db \in BOOLEAN, StackUp(healed, db)
    PROVE  DeployInv'
<1> DEFINE m == IF healed THEN Heal(mount) ELSE mount
           fits == m \in {NoValue, KindOf(keyFile)}
<1>1. UNCHANGED <<chain, env, settings, keychain, setup, prov, pidFile, leafKeys>> /\ Counts(count')
  BY CountedCounts DEF StackUp, DeployInv
<1>2. keyFile' \in Keys /\ (Real(keyFile) => keyFile' = keyFile)
  BY DEF StackUp, DeployInv, Keys, Real
<1>3. cfg' = env \/ cfg' = cfg
  BY DEF StackUp
<1>4. /\ EnvFits(env', chain', keyFile') /\ EnvFits(cfg', chain', keyFile') /\ SetupFits(setup', chain', keyFile')
      /\ Unused(setup', env') /\ Unused(setup', cfg')
  BY <1>1, <1>2, <1>3, LaterKey DEF DeployInv
<1>5. StackFits(stack, mount, keyFile, leafKeys, cfg)
  BY DEF DeployInv
<1>6. m \in {NoValue, "dir", "file"} /\ (m = "file" => Real(keyFile)) /\ (healed => m # "dir" \/ m = NoValue)
  BY <1>5, DeploymentAssumption DEF StackFits, Heal
<1>7. KindOf(keyFile) = IF Real(keyFile) THEN "file" ELSE "dir"
  BY DEF KindOf, Real
<1>8. mount' \in {NoValue, "dir", "file"} /\ (mount' = "file" => Real(keyFile'))
  <2>1. mount' = m \/ mount' = KindOf(keyFile)
    BY DEF StackUp
  <2> HIDE DEF m
  <2> QED
    BY <1>2, <1>6, <1>7, <2>1
<1>9. CASE ~db
  <2>1. stack' = stack /\ cfg' = cfg
    BY <1>9 DEF StackUp
  <2>2. StackFits(stack', mount', keyFile', leafKeys', cfg')
    BY <1>1, <1>5, <1>8, <2>1 DEF StackFits
  <2> QED
    BY <1>1, <1>2, <1>4, <2>2 DEF DeployInv
<1>10. CASE db
  <2>1. stack' = [publisher |-> "starting",
                  attester |-> IF fits THEN "starting" ELSE IF healed THEN "badMount" ELSE "unhealed"]
    BY <1>10 DEF StackUp
  <2>2. healed => fits
    BY <1>6, <1>7
  <2>3. DOMAIN stack' = {"publisher", "attester"} /\ stack'.publisher = "starting" /\ stack'.attester # "badMount"
    BY <2>1, <2>2
  <2>4. StackFits(stack', mount', keyFile', leafKeys', cfg')
    BY <1>1, <1>5, <1>8, <2>3 DEF StackFits
  <2> QED
    BY <1>1, <1>2, <1>4, <2>4 DEF DeployInv
<1> QED
  BY <1>9, <1>10

(* A step of the containers alone. *)
LEMMA StackOnly ==
    ASSUME DeployInv, StackFits(stack', mount', keyFile, leafKeys', cfg),
           UNCHANGED <<chain, env, keyFile, settings, keychain, setup, prov, cfg, count>>
    PROVE  DeployInv'
BY DEF DeployInv

LEMMA PublisherStartStep ==
    ASSUME DeployInv, NEW mongo \in BOOLEAN, NEW bound \in BOOLEAN, PublisherStart(mongo, bound)
    PROVE  DeployInv'
<1> DEFINE up == Replayable(cfg.leaf) /\ mongo /\ cfg.pub # NoValue
           s == IF up /\ bound THEN "running" ELSE "crashed"
<1>1. UNCHANGED <<chain, env, keyFile, settings, keychain, setup, prov, cfg, count, mount, leafKeys>>
  BY DEF PublisherStart
<1>2. StackFits(stack, mount, keyFile, leafKeys, cfg)
  BY DEF DeployInv
<1>3. ~AlreadyRunning(pidFile)
  BY DEF AlreadyRunning, IsProcessRunning
<1>4. stack' = [stack EXCEPT !.publisher = s]
  BY <1>3 DEF PublisherStart
<1>5. s \in {"running", "crashed"} /\ (s = "running" => leafKeys \subseteq {cfg.leaf})
  BY DEF Replayable
<1> HIDE DEF s
<1>6. DOMAIN stack' = {"publisher", "attester"} /\ stack'.publisher = s /\ stack'.attester = stack.attester
  BY <1>2, <1>4 DEF StackFits
<1>7. StackFits(stack', mount', keyFile, leafKeys', cfg)
  BY <1>1, <1>2, <1>5, <1>6 DEF StackFits
<1> QED
  BY <1>1, <1>7, StackOnly

LEMMA ContainerStep ==
    ASSUME DeployInv,
           \/ \E mongo \in BOOLEAN : AttesterStart(mongo)
           \/ \E s \in DOMAIN stack : Crash(s) \/ RestartContainer(s)
    PROVE  DeployInv'
<1>1. UNCHANGED <<chain, env, keyFile, settings, keychain, setup, prov, cfg, count, mount, leafKeys>>
  BY DEF AttesterStart, Crash, RestartContainer
<1>2. StackFits(stack, mount, keyFile, leafKeys, cfg)
  BY DEF DeployInv
<1>3. DOMAIN stack = {"publisher", "attester"}
  BY <1>2 DEF StackFits
<1>4. \/ \E x \in {"running", "crashed"} : stack' = [stack EXCEPT !.attester = x]
      \/ \E s \in {"publisher", "attester"}, x \in {"crashed", "starting"} : stack' = [stack EXCEPT ![s] = x]
  BY <1>3 DEF AttesterStart, Crash, RestartContainer
<1>5. /\ DOMAIN stack' = {"publisher", "attester"} /\ stack'.publisher # "refused" /\ stack'.attester # "badMount"
      /\ stack'.publisher = "running" => stack.publisher = "running"
  BY <1>2, <1>3, <1>4 DEF StackFits
<1>6. StackFits(stack', mount', keyFile, leafKeys', cfg)
  BY <1>1, <1>2, <1>5 DEF StackFits
<1> QED
  BY <1>1, <1>6, StackOnly

LEMMA PublishEventStep ==
    ASSUME DeployInv, PublishEvent
    PROVE  DeployInv'
<1>1. UNCHANGED <<chain, env, keyFile, settings, keychain, setup, prov, cfg, count, mount, stack>>
  BY DEF PublishEvent
<1>2. StackFits(stack, mount, keyFile, leafKeys, cfg)
  BY DEF DeployInv
<1>3. leafKeys' = {cfg.leaf}
  BY <1>2 DEF PublishEvent, StackFits
<1>4. StackFits(stack', mount', keyFile, leafKeys', cfg)
  BY <1>1, <1>2, <1>3 DEF StackFits
<1> QED
  BY <1>1, <1>4, StackOnly

LEMMA StackDownStep ==
    ASSUME DeployInv, NEW volumes \in BOOLEAN, StackDown(volumes)
    PROVE  DeployInv'
<1>1. UNCHANGED <<chain, env, keyFile, settings, keychain, setup, prov, cfg, count>>
  BY DEF StackDown
<1>2. StackFits(stack, mount, keyFile, leafKeys, cfg)
  BY DEF DeployInv
<1>3. DOMAIN stack' = {"publisher", "attester"} /\ stack'.publisher = "down" /\ stack'.attester = "down"
  BY <1>2 DEF StackDown, StackFits
<1>4. (mount' = NoValue /\ leafKeys' = {}) \/ (mount' = mount /\ leafKeys' = leafKeys)
  BY DEF StackDown
<1>5. StackFits(stack', mount', keyFile, leafKeys', cfg)
  BY <1>2, <1>3, <1>4, DeploymentAssumption DEF StackFits
<1> QED
  BY <1>1, <1>5, StackOnly

-----------------------------------------------------------------------------
LEMMA NextDeploy == DeployInv /\ Written /\ [DeployNext]_deployVars => DeployInv' /\ Written'
<1> SUFFICES ASSUME DeployInv, Written, [DeployNext]_deployVars PROVE DeployInv' /\ Written'
  OBVIOUS
<1>1. CASE UNCHANGED deployVars
  BY <1>1 DEF deployVars, DeployInv, Written
<1>2. CASE WizardNext
  BY <1>2, FundStep, SelectStep, DeployContractStep, InitializeStep, RegisterStep, LoadKeyStep, AuthorizeStep,
     WriteEnvStep, SyncStep, WrittenStep DEF WizardNext, DeployNext
<1>3. CASE ProvisionNext
  BY <1>3, ValidateStep, ProvisionDeployStep, ProvisionInitializeStep, ProvisionRegisterStep, ProvisionSaveStep,
     WrittenStep DEF ProvisionNext, DeployNext
<1>4. CASE SettingsNext
  <2>1. \/ \E mode \in {"dev", "production"} : SetAuditMode(mode)
        \/ \E network \in Networks : SetProductionNetwork(network)
        \/ GenerateStellarAccount \/ ImportProductionKeypair \/ ClearProductionKeypair
        \/ \E pair \in OnchainPairs : AuthorizeOnchainAttester(pair) \/ RevokeOnchainAttester(pair)
    BY <1>4 DEF SettingsNext
  <2> QED
    BY <1>4, <2>1, SettingsStep, KeychainStep, OnchainStep, WrittenStep DEF DeployNext
<1>5. CASE CallNext
  BY <1>5, ProvisionStarts, DesktopSetupStep, CliSetupStep, WrittenStep DEF CallNext, DeployNext
<1>6. CASE StackNext
  BY <1>6, StackUpStep, PublisherStartStep, ContainerStep, PublishEventStep, StackDownStep, WrittenStep DEF StackNext, DeployNext
<1> QED
  BY <1>1, <1>2, <1>3, <1>4, <1>5, <1>6 DEF DeployNext

LEMMA DeployInvImplies == DeployInv => LeftoversHarmless
<1> SUFFICES ASSUME DeployInv PROVE LeftoversHarmless
  OBVIOUS
<1>1. Anchors(env) /\ Anchors(cfg)
  BY DEF DeployInv, EnvFits, Anchors, Deployer
<1>2. SavedContractReady
  BY DEF DeployInv, SettingsFit, SavedContractReady
<1>3. LeftoversNeverLockOut
  BY DEF DeployInv, StackFits, LeftoversNeverLockOut
<1>4. leafKeys = {} \/ \E k : leafKeys = {k}
  BY DEF DeployInv, StackFits
<1>a. ASSUME leafKeys = {} PROVE LogUnderOneKey
  <2>1. Cardinality(leafKeys) = 0
    BY <1>a, FS_EmptySet, Zenon
  <2> QED
    BY <2>1 DEF LogUnderOneKey
<1>b. ASSUME NEW k, leafKeys = {k} PROVE LogUnderOneKey
  <2>1. Cardinality({k}) = 1
    BY FS_Singleton
  <2> QED
    BY <1>b, <2>1 DEF LogUnderOneKey
<1>5. LogUnderOneKey
  <2>1. CASE \E k : leafKeys = {k}
    <3>1. PICK k : leafKeys = {k}
      BY <2>1
    <3> QED
      BY <1>b, <3>1
  <2> QED
    BY <1>4, <1>a, <2>1, Zenon
<1> QED
  BY <1>1, <1>2, <1>3, <1>5 DEF LeftoversHarmless, EnvironmentAnchors

(* Whatever step of a setup, a provisioning call or a start fails, is lost *)
(* or is made again: the written environment names a contract its          *)
(* publisher owns with the attester's very key, a saved contract is ready, *)
(* no leftover locks a container out, and a log has one leaf key.          *)
THEOREM LeftoversAlwaysHarmless == DeploySpec => []LeftoversHarmless
<1>1. DeployInit => Written
  BY DEF DeployInit, Written
<1> QED
  BY InitDeploy, NextDeploy, DeployInvImplies, <1>1, PTL DEF DeploySpec

-----------------------------------------------------------------------------
(* Profiles: the inductive invariant *)

CommandFields == {"op", "id", "secret", "profile", "all", "sent"}
ProfileFields == {"name", "uri", "mechanism", "hasSecret"}

NamesDiffer(all) == \A p, q \in Id : p # q /\ all[p] # NoProfile /\ all[q] # NoProfile => all[p].name # all[q].name

(* The store, its file, and what a command read: of every profile something that is    *)
(* known, without a password, and no name twice.                                     *)
Snapshot(all, kn) ==
    /\ DOMAIN all = Id /\ all = [p \in Id |-> all[p]]
    /\ \A p \in Id : all[p] \in kn[p] /\ all[p].uri.password = NoSecret
    /\ NamesDiffer(all)

(* What a save is about to write: no password, and a name nobody else has. *)
SaveFits(c) ==
    /\ c.secret \in Secret \cup {Keep, Clear}
    /\ c.sent = (IF c.secret \in Secret THEN c.secret ELSE NoSecret)
    /\ DOMAIN c.profile = ProfileFields /\ c.profile.uri.password = NoSecret
    /\ \A q \in Id : q # c.id /\ c.all[q] # NoProfile => c.all[q].name # c.profile.name

CommandFits(c, kn) ==
    /\ DOMAIN c = CommandFields /\ c.op \in {"idle", "secret", "save", "delete", "forget"}
    /\ c.op # "idle" => c.id \in Id
    /\ c.op \in {"secret", "save", "delete"} => Snapshot(c.all, kn)
    /\ c.op \in {"secret", "save"} => SaveFits(c)

(* A command that nothing overlapped finds what it left. *)
NotCrossed(c, keys, now, saved) ==
    /\ c.op = "save" /\ c.secret \in Secret => keys[c.id] = c.secret
    /\ c.op = "forget" => now[c.id] = NoProfile /\ saved[c.id] = NoProfile
AloneFits ==
    \A t \in Thread : t \in alone /\ command[t].op # "idle" =>
       /\ \A u \in Thread \ {t} : command[u].op = "idle"
       /\ NotCrossed(command[t], secrets, store, disk)

ProfileTypes == DOMAIN command = Thread /\ DOMAIN secrets = Id /\ DOMAIN known = Id /\ DOMAIN passwords = Id
SecretsKnown == \A p \in Id : secrets[p] \in passwords[p]
ProfilesInv ==
    /\ ProfileTypes /\ SecretsKnown /\ AloneFits
    /\ Snapshot(store, known) /\ Snapshot(disk, known)
    /\ \A t \in Thread : CommandFits(command[t], known)

-----------------------------------------------------------------------------
LEMMA NoCommandIs == NoCommand.op = "idle" /\ \A kn : CommandFits(NoCommand, kn)
BY DEF CommandFits, NoCommand, CommandFields

LEMMA NoProfileHas == NoProfile.name = "" /\ NoProfile.uri.password = NoSecret
BY DEF NoProfile, Uri

LEMMA Words == Keep # Clear /\ Keep \notin Secret /\ Clear \notin Secret /\ NoSecret \notin Secret
BY ProfilesAssumption DEF Keep, Clear

LEMMA EmptyStoreFits == ASSUME NEW kn, \A p \in Id : NoProfile \in kn[p] PROVE Snapshot(EmptyStore, kn)
<1>1. DOMAIN EmptyStore = Id /\ EmptyStore = [p \in Id |-> EmptyStore[p]] /\ \A p \in Id : EmptyStore[p] = NoProfile
  BY DEF EmptyStore
<1> QED
  BY <1>1, NoProfileHas DEF Snapshot, NamesDiffer

LEMMA SnapshotGrows ==
    ASSUME NEW all, NEW kn, NEW more, Snapshot(all, kn), \A p \in Id : kn[p] \subseteq more[p]
    PROVE  Snapshot(all, more)
BY DEF Snapshot

LEMMA CommandGrows ==
    ASSUME NEW c, NEW kn, NEW more, CommandFits(c, kn), \A p \in Id : kn[p] \subseteq more[p]
    PROVE  CommandFits(c, more)
<1>1. c.op \in {"secret", "save", "delete"} => Snapshot(c.all, more)
  BY SnapshotGrows DEF CommandFits
<1> QED
  BY <1>1 DEF CommandFits

(* One profile of a snapshot is replaced by one whose name nobody else has, or by none. *)
LEMMA SnapshotWritten ==
    ASSUME NEW all, NEW kn, NEW more, NEW id \in Id, NEW profile, Snapshot(all, kn),
           \A p \in Id \ {id} : kn[p] \subseteq more[p], profile \in more[id], profile.uri.password = NoSecret,
           profile = NoProfile \/ \A q \in Id : q # id /\ all[q] # NoProfile => all[q].name # profile.name
    PROVE  Snapshot([all EXCEPT ![id] = profile], more)
<1>1. PICK new : new = [all EXCEPT ![id] = profile]
  OBVIOUS
<1>2. DOMAIN all = Id /\ NamesDiffer(all) /\ \A p \in Id : all[p] \in kn[p] /\ all[p].uri.password = NoSecret
  BY DEF Snapshot
<1>3. DOMAIN new = Id /\ new = [p \in Id |-> new[p]] /\ new[id] = profile /\ \A p \in Id \ {id} : new[p] = all[p]
  BY <1>1, <1>2
<1>4. NamesDiffer(new)
  BY <1>2, <1>3 DEF NamesDiffer
<1>5. \A p \in Id : new[p] \in more[p] /\ new[p].uri.password = NoSecret
  BY <1>2, <1>3
<1>6. Snapshot(new, more)
  BY <1>3, <1>4, <1>5 DEF Snapshot
<1> QED
  BY <1>1, <1>6

LEMMA ProfilesStart == ProfilesInit => ProfilesInv
<1> SUFFICES ASSUME ProfilesInit PROVE ProfilesInv
  OBVIOUS
<1>1. ProfileTypes /\ SecretsKnown
  BY DEF ProfilesInit, ProfileTypes, SecretsKnown
<1>2. \A t \in Thread : command[t] = NoCommand
  BY DEF ProfilesInit
<1>3. AloneFits
  BY <1>2, NoCommandIs DEF AloneFits
<1>4. \A p \in Id : NoProfile \in known[p]
  BY DEF ProfilesInit
<1>5. store = EmptyStore /\ disk = EmptyStore
  BY DEF ProfilesInit
<1> QED
  BY <1>1, <1>2, <1>3, <1>4, <1>5, NoCommandIs, EmptyStoreFits DEF ProfilesInv

-----------------------------------------------------------------------------
(* A command begins. *)
LEMMA StartStep ==
    ASSUME ProfilesInv, NEW t \in Thread, NEW c, Start(t, c), CommandFits(c, known), c.op \in {"secret", "delete"},
           UNCHANGED <<store, disk, secrets, known, passwords>>
    PROVE  ProfilesInv'
<1>1. command' = [command EXCEPT ![t] = c] /\ alone' = IF \A u \in Thread : command[u] = NoCommand THEN {t} ELSE {}
  BY DEF Start
<1>2. DOMAIN command' = Thread /\ command'[t] = c /\ \A u \in Thread \ {t} : command'[u] = command[u]
  BY <1>1 DEF ProfilesInv, ProfileTypes
<1>3. \A u \in Thread : CommandFits(command'[u], known')
  BY <1>2 DEF ProfilesInv
<1>4. ASSUME NEW u \in Thread, u \in alone', command'[u].op # "idle"
      PROVE  /\ \A v \in Thread \ {u} : command'[v].op = "idle"
             /\ NotCrossed(command'[u], secrets', store', disk')
  <2>1. u = t /\ \A v \in Thread : command[v] = NoCommand
    BY <1>1, <1>4
  <2>2. \A v \in Thread \ {u} : command'[v].op = "idle"
    BY <1>2, <2>1, NoCommandIs
  <2>3. NotCrossed(command'[u], secrets', store', disk')
    BY <1>2, <2>1 DEF NotCrossed
  <2> QED
    BY <2>2, <2>3
<1>5. AloneFits'
  BY <1>4 DEF AloneFits
<1>6. ProfileTypes' /\ SecretsKnown' /\ Snapshot(store', known') /\ Snapshot(disk', known')
  BY <1>2 DEF ProfilesInv, ProfileTypes, SecretsKnown
<1> QED
  BY <1>3, <1>5, <1>6 DEF ProfilesInv, Snapshot, NamesDiffer

(* A command goes on or ends: what is known grows, or nothing overlapped it. *)
LEMMA CommandGoesOn ==
    ASSUME ProfilesInv, NEW t \in Thread, NEW d, command[t].op # "idle", command' = [command EXCEPT ![t] = d],
           UNCHANGED alone, CommandFits(d, known'),
           t \in alone /\ d.op # "idle" => NotCrossed(d, secrets', store', disk'),
           (\A p \in Id : known[p] \subseteq known'[p]) \/ t \in alone
    PROVE  DOMAIN command' = Thread /\ AloneFits' /\ \A u \in Thread : CommandFits(command'[u], known')
<1>1. DOMAIN command' = Thread /\ command'[t] = d /\ \A u \in Thread \ {t} : command'[u] = command[u]
  BY DEF ProfilesInv, ProfileTypes
<1>2. \A u \in Thread \ {t} : u \in alone => command[u].op = "idle"
  BY DEF ProfilesInv, AloneFits
<1>3. t \in alone => \A u \in Thread \ {t} : command[u].op = "idle"
  BY DEF ProfilesInv, AloneFits
<1>4. AloneFits'
  BY <1>1, <1>2, <1>3 DEF AloneFits
<1>5. ASSUME NEW u \in Thread PROVE CommandFits(command'[u], known')
  <2>1. CommandFits(command[u], known)
    BY DEF ProfilesInv
  <2>2. CASE u = t
    BY <1>1, <2>2
  <2>3. CASE u # t /\ t \in alone
    <3>1. command[u].op = "idle" /\ command'[u] = command[u]
      BY <1>1, <1>3, <2>3
    <3> QED
      BY <2>1, <3>1 DEF CommandFits
  <2>4. CASE u # t /\ \A p \in Id : known[p] \subseteq known'[p]
    BY <1>1, <2>1, <2>4, CommandGrows
  <2> QED
    BY <2>2, <2>3, <2>4
<1> QED
  BY <1>1, <1>4, <1>5

LEMMA SplitFits ==
    ASSUME NEW form \in Form
    PROVE  /\ SplitUriAndSecret(form.uri, form.secret).uri.password = NoSecret
           /\ SplitUriAndSecret(form.uri, form.secret).secret \in Secret \cup {Keep, Clear}
           /\ TypedPassword(form.uri, form.secret) =
                 (IF SplitUriAndSecret(form.uri, form.secret).secret \in Secret
                  THEN SplitUriAndSecret(form.uri, form.secret).secret ELSE NoSecret)
<1>1. form.uri.password \in Secret \cup {NoSecret} /\ form.secret \in Secret \cup {Keep, Clear}
  BY ProfilesAssumption
<1> QED
  BY <1>1, Words DEF SplitUriAndSecret, StripPassword, Uri, TypedPassword

LEMMA SaveLoadStep == ASSUME ProfilesInv, NEW t \in Thread, SaveLoad(t) PROVE ProfilesInv'
<1>1. PICK id \in Id, form \in Form :
        LET split == SplitUriAndSecret(form.uri, form.secret)
        IN  /\ NameFree(store, id, form.name)
            /\ Start(t, [op |-> "secret", id |-> id, secret |-> split.secret, all |-> store, sent |-> TypedPassword(form.uri, form.secret),
                         profile |-> [name |-> form.name, uri |-> split.uri, mechanism |-> form.mechanism, hasSecret |-> FALSE]])
            /\ UNCHANGED <<store, disk, secrets, known, passwords>>
  BY DEF SaveLoad
<1> DEFINE split == SplitUriAndSecret(form.uri, form.secret)
           sent == TypedPassword(form.uri, form.secret)
           profile == [name |-> form.name, uri |-> split.uri, mechanism |-> form.mechanism, hasSecret |-> FALSE]
<1>2. /\ split.secret \in Secret \cup {Keep, Clear} /\ sent = (IF split.secret \in Secret THEN split.secret ELSE NoSecret)
      /\ split.uri.password = NoSecret
  BY SplitFits
<1> HIDE DEF split, sent
<1>3. DOMAIN profile = ProfileFields /\ profile.uri.password = NoSecret /\ profile.name = form.name
  BY <1>2 DEF ProfileFields
<1> HIDE DEF profile
<1>4. PICK c : c = [op |-> "secret", id |-> id, secret |-> split.secret, all |-> store, sent |-> sent, profile |-> profile]
  OBVIOUS
<1>5. /\ c.op = "secret" /\ c.id = id /\ c.secret = split.secret /\ c.all = store /\ c.sent = sent /\ c.profile = profile
      /\ DOMAIN c = CommandFields
  BY <1>4 DEF CommandFields
<1>6. Start(t, c) /\ UNCHANGED <<store, disk, secrets, known, passwords>>
  BY <1>1, <1>4 DEF split, sent, profile
<1>7. form.name # ""
  BY ProfilesAssumption
<1>8. \A q \in Id : q # id /\ store[q] # NoProfile => store[q].name # form.name
  <2>1. NamesDiffer(store)
    BY DEF ProfilesInv, Snapshot
  <2>2. CASE store[id].name = form.name
    <3>1. store[id] # NoProfile
      BY <2>2, <1>7, NoProfileHas
    <3> QED
      BY <2>1, <2>2, <3>1 DEF NamesDiffer
  <2>3. CASE \A q \in Stored(store) \ {id} : store[q].name # form.name
    BY <2>3 DEF Stored
  <2> QED
    BY <1>1, <2>2, <2>3 DEF NameFree
<1>9. SaveFits(c)
  BY <1>2, <1>3, <1>5, <1>8 DEF SaveFits
<1>10. CommandFits(c, known)
  BY <1>5, <1>9 DEF CommandFits, ProfilesInv
<1> QED
  BY <1>5, <1>6, <1>10, StartStep

LEMMA DeleteLoadStep == ASSUME ProfilesInv, NEW t \in Thread, DeleteLoad(t) PROVE ProfilesInv'
<1>1. PICK id \in Stored(store) :
        /\ Start(t, [NoCommand EXCEPT !.op = "delete", !.id = id, !.all = store])
        /\ UNCHANGED <<store, disk, secrets, known, passwords>>
  BY DEF DeleteLoad
<1>2. id \in Id
  BY DEF Stored
<1>3. PICK c : c = [NoCommand EXCEPT !.op = "delete", !.id = id, !.all = store]
  OBVIOUS
<1>4. DOMAIN c = CommandFields /\ c.op = "delete" /\ c.id = id /\ c.all = store
  BY <1>3 DEF NoCommand, CommandFields
<1>5. CommandFits(c, known)
  BY <1>2, <1>4 DEF CommandFits, ProfilesInv
<1> QED
  BY <1>1, <1>3, <1>4, <1>5, StartStep

-----------------------------------------------------------------------------
LEMMA PersistOutcome ==
    ASSUME NEW id, NEW secret \in Secret \cup {Keep, Clear}, NEW r \in PersistSecret(id, secret)
    PROVE  /\ secret = Keep => r.secrets = secrets[id]
           /\ secret = Clear => r.secrets \in {NoSecret, secrets[id]}
           /\ secret \in Secret => r.secrets \in {secret, secrets[id]} /\ (r.ok => r.secrets = secret)
<1>2. CASE secret = Clear
  <2>1. PersistSecret(id, secret) = {[secrets |-> k, has |-> FALSE, ok |-> TRUE] : k \in {NoSecret, secrets[id]}}
    BY <1>2, Words DEF PersistSecret
  <2>2. PICK k \in {NoSecret, secrets[id]} : r = [secrets |-> k, has |-> FALSE, ok |-> TRUE]
    BY <2>1
  <2>3. r.secrets = k
    BY <2>2
  <2> QED
    BY <1>2, <2>3, Words
<1>3. CASE secret = Keep
  <2> DEFINE h == HasSecret(secrets[id])
  <2>1. PersistSecret(id, secret) = {[secrets |-> secrets[id], has |-> h, ok |-> o] : o \in BOOLEAN}
    BY <1>3, Words DEF PersistSecret
  <2> HIDE DEF h
  <2>2. PICK o \in BOOLEAN : r = [secrets |-> secrets[id], has |-> h, ok |-> o]
    BY <2>1
  <2>3. r.secrets = secrets[id]
    BY <2>2
  <2> QED
    BY <1>3, <2>3, Words
<1>4. CASE secret \in Secret
  <2>1. PersistSecret(id, secret) = {[secrets |-> secret, has |-> TRUE, ok |-> TRUE],
                                     [secrets |-> secrets[id], has |-> FALSE, ok |-> FALSE]}
    BY <1>4, Words DEF PersistSecret
  <2>2. \/ r = [secrets |-> secret, has |-> TRUE, ok |-> TRUE]
        \/ r = [secrets |-> secrets[id], has |-> FALSE, ok |-> FALSE]
    BY <2>1
  <2>3. CASE r = [secrets |-> secret, has |-> TRUE, ok |-> TRUE]
    <3>1. r.secrets = secret
      BY <2>3
    <3> QED
      BY <1>4, <3>1, Words
  <2>4. CASE r = [secrets |-> secrets[id], has |-> FALSE, ok |-> FALSE]
    <3>1. r.secrets = secrets[id] /\ ~r.ok
      BY <2>4
    <3> QED
      BY <1>4, <3>1, Words
  <2> QED
    BY <2>2, <2>3, <2>4
<1> QED
  BY <1>2, <1>3, <1>4

LEMMA SaveSecretStep == ASSUME ProfilesInv, NEW t \in Thread, SaveSecret(t) PROVE ProfilesInv'
<1>1. PICK c : c = command[t]
  OBVIOUS
<1>2. PICK r \in PersistSecret(c.id, c.secret) :
        /\ secrets' = [secrets EXCEPT ![c.id] = r.secrets]
        /\ IF r.ok THEN command' = [command EXCEPT ![t].op = "save", ![t].profile.hasSecret = r.has] ELSE End(t)
  BY <1>1 DEF SaveSecret
<1>3. /\ c.op = "secret" /\ UNCHANGED <<store, disk, alone, known>>
      /\ passwords' = [passwords EXCEPT ![c.id] = passwords[c.id] \cup Asked(c, {})]
  BY <1>1 DEF SaveSecret
<1>4. CommandFits(c, known)
  BY <1>1 DEF ProfilesInv
<1>5. c.id \in Id /\ SaveFits(c) /\ Snapshot(c.all, known) /\ DOMAIN c = CommandFields
  BY <1>3, <1>4 DEF CommandFits
<1>6. c.secret \in Secret \cup {Keep, Clear} /\ c.sent = (IF c.secret \in Secret THEN c.secret ELSE NoSecret) /\ DOMAIN c.profile = ProfileFields
  BY <1>5 DEF SaveFits
<1>7. /\ c.secret = Keep => r.secrets = secrets[c.id]
      /\ c.secret = Clear => r.secrets \in {NoSecret, secrets[c.id]}
      /\ c.secret \in Secret => r.secrets \in {c.secret, secrets[c.id]} /\ (r.ok => r.secrets = c.secret)
  BY <1>2, <1>6, PersistOutcome
<1>a. DOMAIN secrets = Id /\ DOMAIN passwords = Id /\ DOMAIN known = Id /\ DOMAIN command = Thread /\ \A p \in Id : secrets[p] \in passwords[p]
  BY DEF ProfilesInv, ProfileTypes, SecretsKnown
<1>b. secrets' = [secrets EXCEPT ![c.id] = r.secrets]
  BY <1>2
<1>8. DOMAIN secrets' = Id /\ secrets'[c.id] = r.secrets /\ \A p \in Id \ {c.id} : secrets'[p] = secrets[p]
  BY <1>5, <1>a, <1>b
<1>9. /\ DOMAIN passwords' = Id /\ passwords'[c.id] = passwords[c.id] \cup Asked(c, {})
      /\ \A p \in Id \ {c.id} : passwords'[p] = passwords[p]
  BY <1>3, <1>5, <1>a
<1>10. SecretsKnown'
  <2>1. r.secrets = secrets[c.id] \/ r.secrets \in Asked(c, {})
    BY <1>6, <1>7, Words DEF Asked
  <2> QED
    BY <1>5, <1>8, <1>9, <1>a, <2>1 DEF SecretsKnown
<1>11. PICK d : d = IF r.ok THEN [c EXCEPT !.op = "save", !.profile.hasSecret = r.has] ELSE NoCommand
  OBVIOUS
<1>12. command' = [command EXCEPT ![t] = d]
  BY <1>1, <1>2, <1>11, <1>a DEF End
<1>13. CommandFits(d, known) /\ (d.op # "idle" => NotCrossed(d, secrets', store, disk))
  <2>1. CASE ~r.ok
    BY <1>11, <2>1, NoCommandIs
  <2>2. CASE r.ok
    <3>1. /\ DOMAIN d = CommandFields /\ d.op = "save" /\ d.id = c.id /\ d.secret = c.secret /\ d.all = c.all
          /\ d.sent = c.sent /\ d.profile = [c.profile EXCEPT !.hasSecret = r.has]
      BY <1>5, <1>11, <2>2 DEF CommandFields
    <3>2. /\ DOMAIN d.profile = ProfileFields
          /\ d.profile.name = c.profile.name /\ d.profile.uri = c.profile.uri
      BY <1>6, <3>1 DEF ProfileFields
    <3>3. SaveFits(d)
      BY <1>5, <3>1, <3>2 DEF SaveFits
    <3>4. CommandFits(d, known)
      BY <1>5, <3>1, <3>3 DEF CommandFits
    <3>5. NotCrossed(d, secrets', store, disk)
      BY <1>7, <1>8, <2>2, <3>1 DEF NotCrossed
    <3> QED
      BY <3>4, <3>5
  <2> QED
    BY <2>1, <2>2
<1>14. DOMAIN command' = Thread /\ AloneFits' /\ \A u \in Thread : CommandFits(command'[u], known')
  BY <1>1, <1>3, <1>12, <1>13, CommandGoesOn
<1> QED
  BY <1>3, <1>8, <1>9, <1>10, <1>14, <1>a DEF ProfilesInv, ProfileTypes, Snapshot, NamesDiffer

-----------------------------------------------------------------------------
(* The file after a write, whatever became of it. *)
LEMMA FileFits ==
    ASSUME NEW outcome \in {"written", "failed", "cut"}, WriteStore(outcome), NEW kn, Snapshot(store', kn),
           outcome = "failed" => Snapshot(disk, kn),
           outcome = "cut" => \A p \in Id : NoProfile \in kn[p]
    PROVE  Snapshot(disk', kn)
<1>1. CASE outcome = "written"
  BY <1>1 DEF WriteStore
<1>2. CASE outcome = "failed"
  BY <1>2 DEF WriteStore
<1>3. CASE outcome = "cut"
  <2>1. disk' = EmptyStore
    BY <1>3 DEF WriteStore
  <2> QED
    BY <1>3, <2>1, EmptyStoreFits
<1> QED
  BY <1>1, <1>2, <1>3

LEMMA SaveStoreStep == ASSUME ProfilesInv, NEW t \in Thread, SaveStore(t) PROVE ProfilesInv'
<1>1. PICK c : c = command[t]
  OBVIOUS
<1>2. c.op = "save" /\ store' = [c.all EXCEPT ![c.id] = c.profile] /\ End(t) /\ UNCHANGED <<secrets, alone>>
  BY <1>1 DEF SaveStore
<1>3. PICK outcome \in {"written", "failed", "cut"}, answered \in BOOLEAN :
        LET acked == answered /\ outcome = "written" /\ t \in alone
        IN  /\ WriteStore(outcome)
            /\ known' = [p \in Id |-> Lost(outcome) \cup IF p # c.id THEN known[p] ELSE IF acked THEN {c.profile} ELSE known[p] \cup {c.profile}]
            /\ passwords' = [passwords EXCEPT ![c.id] = IF acked /\ ~(c.secret = Clear /\ HasSecret(secrets[c.id])) THEN Asked(c, @) ELSE @]
  BY <1>1 DEF SaveStore
<1> DEFINE acked == answered /\ outcome = "written" /\ t \in alone
<1>4. CommandFits(c, known)
  BY <1>1 DEF ProfilesInv
<1>5. c.id \in Id /\ SaveFits(c) /\ Snapshot(c.all, known)
  BY <1>2, <1>4 DEF CommandFits
<1>6. /\ c.secret \in Secret \cup {Keep, Clear} /\ c.sent = (IF c.secret \in Secret THEN c.secret ELSE NoSecret)
      /\ c.profile.uri.password = NoSecret
      /\ \A q \in Id : q # c.id /\ c.all[q] # NoProfile => c.all[q].name # c.profile.name
  BY <1>5 DEF SaveFits
<1>7. DOMAIN secrets = Id /\ DOMAIN passwords = Id /\ DOMAIN command = Thread /\ \A p \in Id : secrets[p] \in passwords[p]
  BY DEF ProfilesInv, ProfileTypes, SecretsKnown
<1>8. /\ DOMAIN known' = Id /\ \A p \in Id \ {c.id} : known'[p] = known[p] \cup Lost(outcome)
      /\ known'[c.id] = Lost(outcome) \cup IF acked THEN {c.profile} ELSE known[c.id] \cup {c.profile}
  BY <1>3, <1>5
<1>9. Snapshot(store', known')
  <2>1. c.profile \in known'[c.id] /\ \A p \in Id \ {c.id} : known[p] \subseteq known'[p]
    BY <1>8
  <2> QED
    BY <1>2, <1>5, <1>6, <2>1, SnapshotWritten
<1>10. Snapshot(disk', known')
  <2>1. outcome # "written" => \A p \in Id : known[p] \subseteq known'[p]
    BY <1>8
  <2>2. outcome = "failed" => Snapshot(disk, known')
    BY <2>1, SnapshotGrows DEF ProfilesInv
  <2>3. outcome = "cut" => \A p \in Id : NoProfile \in known'[p]
    BY <1>8 DEF Lost
  <2>4. WriteStore(outcome)
    BY <1>3
  <2> QED
    BY <1>9, <2>2, <2>3, <2>4, FileFits
<1>11. SecretsKnown' /\ DOMAIN passwords' = Id
  <2> DEFINE changed == acked /\ ~(c.secret = Clear /\ HasSecret(secrets[c.id]))
  <2>1. passwords' = [passwords EXCEPT ![c.id] = IF changed THEN Asked(c, passwords[c.id]) ELSE passwords[c.id]]
    BY <1>3
  <2>2. changed => secrets[c.id] \in Asked(c, passwords[c.id])
    <3>1. SUFFICES ASSUME changed PROVE secrets[c.id] \in Asked(c, passwords[c.id])
      OBVIOUS
    <3>2. t \in alone /\ (c.secret = Clear => secrets[c.id] = NoSecret)
      BY <3>1 DEF HasSecret
    <3>3. c.secret \in Secret => secrets[c.id] = c.secret
      BY <1>1, <1>2, <3>2 DEF ProfilesInv, AloneFits, NotCrossed
    <3>4. CASE c.secret \in Secret
      BY <1>6, <3>3, <3>4, Words DEF Asked
    <3>5. CASE c.secret = Clear
      BY <1>6, <3>2, <3>5, Words DEF Asked
    <3>6. CASE c.secret = Keep
      BY <1>5, <1>6, <1>7, <3>6, Words DEF Asked
    <3> QED
      BY <1>6, <3>4, <3>5, <3>6
  <2> HIDE DEF changed
  <2>3. /\ DOMAIN passwords' = Id /\ passwords'[c.id] = (IF changed THEN Asked(c, passwords[c.id]) ELSE passwords[c.id])
        /\ \A p \in Id \ {c.id} : passwords'[p] = passwords[p]
    BY <1>5, <1>7, <2>1
  <2> QED
    BY <1>2, <1>5, <1>7, <2>2, <2>3 DEF SecretsKnown
<1>12. DOMAIN command' = Thread /\ AloneFits' /\ \A u \in Thread : CommandFits(command'[u], known')
  <2>1. (\A p \in Id : known[p] \subseteq known'[p]) \/ t \in alone
    BY <1>8
  <2>2. command' = [command EXCEPT ![t] = NoCommand]
    BY <1>2 DEF End
  <2>3. CommandFits(NoCommand, known')
    BY NoCommandIs
  <2> QED
    BY <1>1, <1>2, <2>1, <2>2, <2>3, NoCommandIs, CommandGoesOn
<1> QED
  BY <1>2, <1>7, <1>8, <1>9, <1>10, <1>11, <1>12 DEF ProfilesInv, ProfileTypes, Snapshot, NamesDiffer

LEMMA DeleteStoreStep == ASSUME ProfilesInv, NEW t \in Thread, DeleteStore(t) PROVE ProfilesInv'
<1>1. PICK c : c = command[t]
  OBVIOUS
<1>2. c.op = "delete" /\ store' = [c.all EXCEPT ![c.id] = NoProfile] /\ UNCHANGED <<secrets, alone, passwords>>
  BY <1>1 DEF DeleteStore
<1>3. PICK outcome \in {"written", "failed", "cut"} :
        /\ WriteStore(outcome)
        /\ known' = [p \in Id |-> known[p] \cup Lost(outcome) \cup IF p = c.id THEN {NoProfile} ELSE {}]
        /\ IF outcome = "written" THEN command' = [command EXCEPT ![t].op = "forget"] ELSE End(t)
  BY <1>1 DEF DeleteStore
<1>4. CommandFits(c, known)
  BY <1>1 DEF ProfilesInv
<1>5. c.id \in Id /\ Snapshot(c.all, known) /\ DOMAIN c = CommandFields
  BY <1>2, <1>4 DEF CommandFits
<1>6. DOMAIN secrets = Id /\ DOMAIN passwords = Id /\ DOMAIN command = Thread
  BY DEF ProfilesInv, ProfileTypes
<1>7. DOMAIN known' = Id /\ NoProfile \in known'[c.id] /\ \A p \in Id : known[p] \subseteq known'[p]
  BY <1>3, <1>5
<1>8. Snapshot(store', known')
  BY <1>2, <1>5, <1>7, NoProfileHas, SnapshotWritten
<1>9. Snapshot(disk', known')
  <2>1. Snapshot(disk, known')
    BY <1>7, SnapshotGrows DEF ProfilesInv
  <2>2. outcome = "cut" => \A p \in Id : NoProfile \in known'[p]
    BY <1>3 DEF Lost
  <2> QED
    BY <1>3, <1>8, <2>1, <2>2, FileFits
<1>10. PICK d : d = IF outcome = "written" THEN [c EXCEPT !.op = "forget"] ELSE NoCommand
  OBVIOUS
<1>11. command' = [command EXCEPT ![t] = d]
  BY <1>1, <1>3, <1>6, <1>10 DEF End
<1>12. CommandFits(d, known') /\ (d.op # "idle" => NotCrossed(d, secrets', store', disk'))
  <2>1. CASE outcome # "written"
    BY <1>10, <2>1, NoCommandIs
  <2>2. CASE outcome = "written"
    <3>1. DOMAIN d = CommandFields /\ d.op = "forget" /\ d.id = c.id
      BY <1>5, <1>10, <2>2 DEF CommandFields
    <3>2. disk' = store' /\ store'[c.id] = NoProfile
      BY <1>2, <1>3, <1>5, <2>2 DEF WriteStore, Snapshot
    <3> QED
      BY <1>5, <3>1, <3>2 DEF CommandFits, NotCrossed
  <2> QED
    BY <2>1, <2>2
<1>13. DOMAIN command' = Thread /\ AloneFits' /\ \A u \in Thread : CommandFits(command'[u], known')
  BY <1>1, <1>2, <1>7, <1>11, <1>12, CommandGoesOn
<1> QED
  BY <1>2, <1>6, <1>7, <1>8, <1>9, <1>13 DEF ProfilesInv, ProfileTypes, SecretsKnown, Snapshot, NamesDiffer

LEMMA DeleteSecretStep == ASSUME ProfilesInv, NEW t \in Thread, DeleteSecret(t) PROVE ProfilesInv'
<1>1. PICK c : c = command[t]
  OBVIOUS
<1>2. /\ c.op = "forget" /\ secrets' \in {secrets, [secrets EXCEPT ![c.id] = NoSecret]}
      /\ known' = [known EXCEPT ![c.id] = IF t \in alone THEN {NoProfile} ELSE known[c.id]]
      /\ passwords' = [passwords EXCEPT ![c.id] = {NoSecret} \cup IF t \in alone /\ ~HasSecret(secrets'[c.id]) THEN {} ELSE passwords[c.id]]
      /\ End(t) /\ UNCHANGED <<store, disk, alone>>
  BY <1>1 DEF DeleteSecret
<1>3. c.id \in Id
  BY <1>1, <1>2 DEF ProfilesInv, CommandFits
<1>4. DOMAIN secrets = Id /\ DOMAIN passwords = Id /\ DOMAIN known = Id /\ DOMAIN command = Thread /\ \A p \in Id : secrets[p] \in passwords[p]
  BY DEF ProfilesInv, ProfileTypes, SecretsKnown
<1>5. DOMAIN secrets' = Id /\ secrets'[c.id] \in {NoSecret, secrets[c.id]} /\ \A p \in Id \ {c.id} : secrets'[p] = secrets[p]
  BY <1>2, <1>3, <1>4
<1>6. SecretsKnown' /\ DOMAIN passwords' = Id
  <2> DEFINE gone == t \in alone /\ ~HasSecret(secrets'[c.id])
  <2>1. passwords' = [passwords EXCEPT ![c.id] = {NoSecret} \cup IF gone THEN {} ELSE passwords[c.id]]
    BY <1>2
  <2>2. gone => secrets'[c.id] = NoSecret
    BY DEF HasSecret
  <2> HIDE DEF gone
  <2>3. /\ DOMAIN passwords' = Id /\ passwords'[c.id] = {NoSecret} \cup (IF gone THEN {} ELSE passwords[c.id])
        /\ \A p \in Id \ {c.id} : passwords'[p] = passwords[p]
    BY <1>3, <1>4, <2>1
  <2> QED
    BY <1>3, <1>4, <1>5, <2>2, <2>3 DEF SecretsKnown
<1>7. /\ DOMAIN known' = Id /\ \A p \in Id \ {c.id} : known'[p] = known[p]
      /\ known'[c.id] = IF t \in alone THEN {NoProfile} ELSE known[c.id]
  BY <1>2, <1>3, <1>4
<1>8. t \in alone => store[c.id] = NoProfile /\ disk[c.id] = NoProfile
  BY <1>1, <1>2 DEF ProfilesInv, AloneFits, NotCrossed
<1>9. ASSUME NEW all \in {store, disk} PROVE Snapshot(all, known')
  <2>1. Snapshot(all, known)
    BY DEF ProfilesInv
  <2>2. \A p \in Id : all[p] \in known'[p]
    BY <1>7, <1>8, <2>1 DEF Snapshot
  <2> QED
    BY <2>1, <2>2 DEF Snapshot
<1>10. Snapshot(store', known') /\ Snapshot(disk', known')
  BY <1>2, <1>9
<1>11. DOMAIN command' = Thread /\ AloneFits' /\ \A u \in Thread : CommandFits(command'[u], known')
  <2>1. (\A p \in Id : known[p] \subseteq known'[p]) \/ t \in alone
    BY <1>7
  <2>2. command' = [command EXCEPT ![t] = NoCommand] /\ UNCHANGED alone
    BY <1>2 DEF End
  <2>3. CommandFits(NoCommand, known')
    BY NoCommandIs
  <2> QED
    BY <1>1, <1>2, <2>1, <2>2, <2>3, NoCommandIs, CommandGoesOn
<1> QED
  BY <1>5, <1>6, <1>7, <1>10, <1>11 DEF ProfilesInv, ProfileTypes, Snapshot, NamesDiffer

LEMMA AutosaveStep == ASSUME ProfilesInv, Autosave PROVE ProfilesInv'
<1>1. disk' = store /\ UNCHANGED <<store, secrets, command, alone, known, passwords>>
  BY DEF Autosave
<1>2. \A t \in Thread : CommandFits(command'[t], known')
  BY <1>1 DEF ProfilesInv
<1>3. AloneFits'
  BY <1>1 DEF ProfilesInv, AloneFits, NotCrossed
<1>4. Snapshot(store', known') /\ Snapshot(disk', known')
  BY <1>1 DEF ProfilesInv
<1> QED
  BY <1>1, <1>2, <1>3, <1>4 DEF ProfilesInv, ProfileTypes, SecretsKnown, Snapshot, NamesDiffer

LEMMA RelaunchStep == ASSUME ProfilesInv, Relaunch PROVE ProfilesInv'
<1>1. PICK outcome \in {"failed", "cut"} : WriteStore(outcome) /\ known' = [p \in Id |-> known[p] \cup Lost(outcome)]
  BY DEF Relaunch
<1>2. store' = disk' /\ command' = [t \in Thread |-> NoCommand] /\ UNCHANGED <<secrets, alone, passwords>>
  BY DEF Relaunch
<1>3. DOMAIN known' = Id /\ \A p \in Id : known[p] \subseteq known'[p]
  BY <1>1
<1>4. Snapshot(disk', known')
  <2>1. CASE outcome = "failed"
    <3>1. disk' = disk
      BY <1>1, <2>1 DEF WriteStore
    <3> QED
      BY <1>3, <3>1, SnapshotGrows DEF ProfilesInv
  <2>2. CASE outcome = "cut"
    <3>1. disk' = EmptyStore /\ \A p \in Id : NoProfile \in known'[p]
      BY <1>1, <2>2 DEF WriteStore, Lost
    <3> QED
      BY <3>1, EmptyStoreFits
  <2> QED
    BY <2>1, <2>2
<1>5. DOMAIN command' = Thread /\ \A t \in Thread : command'[t] = NoCommand
  BY <1>2
<1>6. \A t \in Thread : CommandFits(command'[t], known')
  BY <1>5, NoCommandIs
<1>7. AloneFits'
  BY <1>5, NoCommandIs DEF AloneFits
<1> QED
  BY <1>2, <1>3, <1>4, <1>5, <1>6, <1>7 DEF ProfilesInv, ProfileTypes, SecretsKnown, Snapshot, NamesDiffer

LEMMA ProfilesInductive == ASSUME ProfilesInv, [ProfilesNext]_pvars PROVE ProfilesInv'
<1>1. CASE UNCHANGED pvars
  <2>1. UNCHANGED <<store, disk, secrets, command, alone, known, passwords>>
    BY <1>1 DEF pvars
  <2>2. AloneFits'
    BY <2>1 DEF ProfilesInv, AloneFits
  <2>3. \A t \in Thread : CommandFits(command'[t], known')
    BY <2>1 DEF ProfilesInv
  <2> QED
    BY <2>1, <2>2, <2>3 DEF ProfilesInv, ProfileTypes, SecretsKnown, Snapshot, NamesDiffer
<1>2. CASE Autosave \/ Relaunch
  BY <1>2, AutosaveStep, RelaunchStep
<1>3. ASSUME NEW t \in Thread,
             SaveLoad(t) \/ SaveSecret(t) \/ SaveStore(t) \/ DeleteLoad(t) \/ DeleteStore(t) \/ DeleteSecret(t)
      PROVE  ProfilesInv'
  BY <1>3, SaveLoadStep, SaveSecretStep, SaveStoreStep, DeleteLoadStep, DeleteStoreStep, DeleteSecretStep
<1> QED
  BY <1>1, <1>2, <1>3 DEF ProfilesNext

-----------------------------------------------------------------------------
(* What is sent. *)

LEMMA WhatIsSent ==
    ASSUME NEW uri, NEW mechanism, NEW secret, mechanism \notin {"x509", "kerberos"},
           ~ApplyAuth(uri, mechanism, secret).refused
    PROVE  ApplyAuth(uri, mechanism, secret).password = IF secret # NoSecret THEN secret ELSE uri.password
BY DEF ApplyAuth, RefusedAuth

LEMMA TestAlwaysSendsTyped == TestSendsTyped
<1>1. SUFFICES ASSUME NEW form \in Form, form.mechanism \notin {"x509", "kerberos"},
                     ~TestProfile(form.uri, form.mechanism, form.secret).refused
               PROVE  TestProfile(form.uri, form.mechanism, form.secret).password = TypedPassword(form.uri, form.secret)
  BY DEF TestSendsTyped
<1>2. PICK secret : secret = IF form.secret \in {Keep, Clear} THEN NoSecret ELSE form.secret
  OBVIOUS
<1>3. ApplyAuth(form.uri, form.mechanism, secret).password = IF secret # NoSecret THEN secret ELSE form.uri.password
  BY <1>1, <1>2, WhatIsSent DEF TestProfile
<1>4. form.secret \in Secret \cup {Keep, Clear}
  BY ProfilesAssumption
<1>5. (IF secret # NoSecret THEN secret ELSE form.uri.password) = TypedPassword(form.uri, form.secret)
  BY <1>2, <1>4, Words DEF TypedPassword
<1> QED
  BY <1>2, <1>3, <1>5 DEF TestProfile

LEMMA ProfilesImply == ProfilesInv => ProfilesKept
<1> SUFFICES ASSUME ProfilesInv PROVE ProfilesKept
  OBVIOUS
<1>1. ASSUME NEW p \in Id, store[p].mechanism \notin {"x509", "kerberos"}, ~OpenConnection(p, NoSecret).refused
      PROVE  OpenConnection(p, NoSecret).password \in passwords[p]
  <2>1. secrets[p] \in passwords[p] /\ store[p].uri.password = NoSecret
    BY DEF ProfilesInv, SecretsKnown, Snapshot
  <2>2. OpenConnection(p, NoSecret) = ApplyAuth(store[p].uri, store[p].mechanism, secrets[p])
    BY DEF OpenConnection
  <2>3. OpenConnection(p, NoSecret).password = IF secrets[p] # NoSecret THEN secrets[p] ELSE store[p].uri.password
    BY <1>1, <2>2, WhatIsSent
  <2> QED
    BY <2>1, <2>3
<1>2. SavedPasswordIsSent
  BY <1>1, TestAlwaysSendsTyped DEF SavedPasswordIsSent
<1>3. AckedProfilesKept
  BY DEF ProfilesInv, Snapshot, NamesDiffer, Stored, AckedProfilesKept
<1> QED
  BY <1>2, <1>3 DEF ProfilesKept

(* For any number of commands that overlap, and whatever call fails or wherever the *)
(* program stops: the store and its file hold a profile as the last save or delete   *)
(* that nothing overlapped left it, or as one tried since would, none when the file  *)
(* was cut off; no file holds a password, no name is there twice, and                *)
(* open_connection() sends the password last saved, or one typed since.              *)
THEOREM ProfilesAlwaysKept == ProfilesSpec => []ProfilesKept
<1>1. ProfilesInit => ProfilesInv
  BY ProfilesStart
<1>2. ProfilesInv /\ [ProfilesNext]_pvars => ProfilesInv'
  BY ProfilesInductive
<1>3. ProfilesInv => ProfilesKept
  BY ProfilesImply
<1> QED
  BY <1>1, <1>2, <1>3, PTL DEF ProfilesSpec

-----------------------------------------------------------------------------
(* Data model: the inductive invariant *)

GraphFields == {"scan", "edges", "confirmed", "hidden"}
OverrideFields == {"phase", "id", "seen", "flag", "to", "graph"}

(* Every graph there is: on the canvas, in the cache, or on its way to one of them. *)
InPlay == {NoGraph, cache, canvas, scan.graph} \cup {override[k].graph : k \in Click} \cup {loads[l].graph : l \in DOMAIN loads}

(* Scan n found at most one list of edges, and the scan under way none so far. *)
GraphFits(g, last, sampling) ==
    /\ DOMAIN g = GraphFields /\ g.scan \in Nat /\ g.scan <= last
    /\ sampling => g.scan < last
Alike(g, h) == DOMAIN g = DOMAIN h /\ g.scan = h.scan /\ g.edges = h.edges
OneListPerScan(graphs) == \A g, h \in graphs : g.scan = h.scan => g.edges = h.edges

(* The edge that was clicked is the one a graph of its scan has at its place. *)
ClickFits(o, last, sampling) ==
    /\ DOMAIN o = OverrideFields /\ o.phase \in {"idle", "sent", "read", "written"}
    /\ o.phase # "idle" =>
          /\ o.id[1] \in Nat /\ o.id[1] <= last /\ (sampling => o.id[1] < last)
          /\ o.flag \in {"confirmed", "hidden"}
    /\ o.phase = "read" => o.graph.scan = o.id[1] /\ o.id[2] \in DOMAIN o.graph.edges
SeenThere(o, g) == o.phase # "idle" /\ g.scan = o.id[1] /\ o.id[2] \in DOMAIN g.edges => g.edges[o.id[2]] = o.seen

Sampling == scan.phase = "sampling"
ModelTypes ==
    /\ DOMAIN scan = {"phase", "graph"} /\ DOMAIN tally = {"scans", "overrides"} /\ tally.scans \in Nat \ {0}
    /\ tally.overrides \in Nat /\ DOMAIN override = Click
    /\ scan.phase = "sampling" => tally.scans > 1
ModelInv ==
    /\ ModelTypes
    /\ \A g \in InPlay : GraphFits(g, tally.scans, Sampling)
    /\ OneListPerScan(InPlay)
    /\ \A k \in Click : ClickFits(override[k], tally.scans, Sampling) /\ \A g \in InPlay : SeenThere(override[k], g)
    /\ OverrideHitsSeenEdge

-----------------------------------------------------------------------------
LEMMA NoGraphIs == DOMAIN NoGraph = GraphFields /\ NoGraph.scan = 0 /\ NoGraph.edges = <<>>
BY DEF NoGraph, Graph, GraphFields

LEMMA NoOverrideIs ==
    /\ DOMAIN NoOverride = OverrideFields /\ NoOverride.phase = "idle" /\ NoOverride.graph = NoGraph
    /\ DOMAIN NoScan = {"phase", "graph"} /\ NoScan.phase = "idle" /\ NoScan.graph = NoGraph
<1>1. PICK g : g = NoGraph
  OBVIOUS
<1>2. /\ NoOverride = [phase |-> "idle", id |-> <<0, 0>>, seen |-> "", flag |-> "", to |-> FALSE, graph |-> g]
      /\ NoScan = [phase |-> "idle", graph |-> g]
  BY <1>1 DEF NoOverride, NoScan
<1> QED
  BY <1>1, <1>2 DEF OverrideFields

LEMMA ModelStart == ModelInit => ModelInv
<1> SUFFICES ASSUME ModelInit PROVE ModelInv
  OBVIOUS
<1>1. /\ canvas = NoGraph /\ scan = NoScan /\ touched = {} /\ DOMAIN override = Click /\ \A k \in Click : override[k] = NoOverride
      /\ \A l \in DOMAIN loads : loads[l].graph = NoGraph
      /\ tally.scans = 1 /\ tally.overrides = 0 /\ DOMAIN tally = {"scans", "overrides"}
  BY DEF ModelInit
<1>2. DOMAIN cache = GraphFields /\ (cache = NoGraph \/ cache.scan = 1)
  <2>1. CASE cache = NoGraph
    BY <2>1, NoGraphIs
  <2>2. ASSUME NEW o \in Orders, cache = Graph(1, o) PROVE DOMAIN cache = GraphFields /\ cache.scan = 1
    BY <2>2 DEF Graph, GraphFields
  <2> QED
    BY <2>1, <2>2 DEF ModelInit
<1>3. \A g \in InPlay : g = NoGraph \/ g = cache
  BY <1>1, NoOverrideIs DEF InPlay
<1>4. ModelTypes /\ ~Sampling
  BY <1>1, NoOverrideIs DEF ModelTypes, Sampling
<1>5. \A g \in InPlay : GraphFits(g, tally.scans, Sampling)
  BY <1>1, <1>2, <1>3, <1>4, NoGraphIs, NoOverrideIs DEF GraphFits
<1>6. OneListPerScan(InPlay)
  BY <1>2, <1>3, NoGraphIs DEF OneListPerScan
<1>7. \A k \in Click : ClickFits(override[k], tally.scans, Sampling) /\ \A g \in InPlay : SeenThere(override[k], g)
  BY <1>1, <1>4, NoOverrideIs DEF ClickFits, SeenThere
<1> QED
  BY <1>1, <1>4, <1>5, <1>6, <1>7 DEF ModelInv, OverrideHitsSeenEdge

(* A step that brings no list of edges that was not there. *)
NothingNew == \A g \in InPlay' : \E h \in InPlay : Alike(g, h)
ScansGoOn ==
    /\ tally'.scans \in Nat /\ tally.scans <= tally'.scans
    /\ Sampling' => (Sampling /\ tally'.scans = tally.scans) \/ tally.scans < tally'.scans

LEMMA GraphsKept ==
    ASSUME ModelInv, NothingNew, ScansGoOn
    PROVE  (\A g \in InPlay : GraphFits(g, tally.scans, Sampling))' /\ OneListPerScan(InPlay)'
<1>1. ASSUME NEW g \in InPlay' PROVE GraphFits(g, tally'.scans, Sampling')
  <2>1. PICK h \in InPlay : Alike(g, h)
    BY <1>1 DEF NothingNew
  <2>2. GraphFits(h, tally.scans, Sampling) /\ tally.scans \in Nat
    BY DEF ModelInv, ModelTypes
  <2> QED
    BY <2>1, <2>2 DEF GraphFits, Alike, ScansGoOn
<1>2. ASSUME NEW g \in InPlay', NEW h \in InPlay', g.scan = h.scan PROVE g.edges = h.edges
  <2>1. PICK a \in InPlay : Alike(g, a)
    BY <1>2 DEF NothingNew
  <2>2. PICK b \in InPlay : Alike(h, b)
    BY <1>2 DEF NothingNew
  <2>3. a.edges = b.edges
    BY <1>2, <2>1, <2>2 DEF Alike, ModelInv, OneListPerScan
  <2> QED
    BY <2>1, <2>2, <2>3 DEF Alike
<1>3. OneListPerScan(InPlay')
  BY <1>2 DEF OneListPerScan
<1>4. \A g \in InPlay' : GraphFits(g, tally'.scans, Sampling')
  BY <1>1
<1> QED
  BY <1>3, <1>4 DEF OneListPerScan

(* Every override stays what it was, or is over. *)
OverridesEnd == DOMAIN override' = Click /\ \A k \in Click : override'[k] = override[k] \/ override'[k] = NoOverride

LEMMA ClickKept ==
    ASSUME ModelInv, NothingNew, ScansGoOn, UNCHANGED touched, ModelTypes', OverridesEnd
    PROVE  ModelInv'
<1>1. (\A g \in InPlay : GraphFits(g, tally.scans, Sampling))' /\ OneListPerScan(InPlay)'
  BY GraphsKept
<1>2. ASSUME NEW k \in Click
      PROVE  ClickFits(override'[k], tally'.scans, Sampling') /\ \A g \in InPlay' : SeenThere(override'[k], g)
  <2>1. ClickFits(override[k], tally.scans, Sampling) /\ tally.scans \in Nat
    BY DEF ModelInv, ModelTypes
  <2>2. override'[k] = override[k] \/ override'[k] = NoOverride
    BY DEF OverridesEnd
  <2>3. ASSUME NEW g \in InPlay' PROVE SeenThere(override'[k], g)
    <3>1. PICK h \in InPlay : Alike(g, h)
      BY <2>3 DEF NothingNew
    <3>2. SeenThere(override[k], h)
      BY DEF ModelInv
    <3> QED
      BY <2>2, <3>1, <3>2, NoOverrideIs DEF SeenThere, Alike
  <2>4. ClickFits(override'[k], tally'.scans, Sampling')
    BY <2>1, <2>2, NoOverrideIs DEF ClickFits, ScansGoOn
  <2> QED
    BY <2>3, <2>4
<1>3. OverrideHitsSeenEdge'
  BY DEF ModelInv, OverrideHitsSeenEdge
<1> QED
  BY <1>1, <1>2, <1>3 DEF ModelInv

LEMMA SameOverrides == ModelInv /\ UNCHANGED override => OverridesEnd
BY DEF ModelInv, ModelTypes, OverridesEnd

LEMMA AlikeSelf == \A g : Alike(g, g)
BY DEF Alike

(* What a load that was announced brings along. *)
LEMMA AnnouncedGraphs ==
    \A l \in DOMAIN Announced : Announced[l].graph \in InPlay
<1>1. PICK none : none = [read |-> FALSE, graph |-> NoGraph]
  OBVIOUS
<1>2. Announced = [l \in DOMAIN loads \cup {NextLoad} |-> IF l \in DOMAIN loads THEN loads[l] ELSE none]
  BY <1>1 DEF Announced
<1>3. none.graph = NoGraph
  BY <1>1
<1> QED
  BY <1>2, <1>3 DEF InPlay

LEMMA PlayedIs ==
    /\ NoGraph \in InPlay /\ cache \in InPlay /\ canvas \in InPlay /\ scan.graph \in InPlay
    /\ \A k \in Click : override[k].graph \in InPlay
    /\ \A l \in DOMAIN loads : loads[l].graph \in InPlay
BY DEF InPlay

(* Every graph of the next state is one of those named here. *)
LEMMA PlayedNext ==
    ASSUME NEW S, NoGraph \in S, cache' \in S, canvas' \in S, scan'.graph \in S, \A k \in Click : override'[k].graph \in S,
           \A l \in DOMAIN loads' : loads'[l].graph \in S
    PROVE  InPlay' \subseteq S
BY DEF InPlay

LEMMA SubsetNothingNew == InPlay' \subseteq InPlay => NothingNew
BY AlikeSelf DEF NothingNew

-----------------------------------------------------------------------------
LEMMA RunScanStep == ModelInv /\ RunScan => ModelInv'
<1> SUFFICES ASSUME ModelInv, RunScan PROVE ModelInv'
  OBVIOUS
<1>1. /\ scan' = [phase |-> "sampling", graph |-> NoGraph] /\ canvas' = NoGraph /\ tally' = [tally EXCEPT !.scans = tally.scans + 1]
      /\ UNCHANGED <<cache, loads, override, touched>>
  BY DEF RunScan
<1>2. scan'.phase = "sampling" /\ scan'.graph = NoGraph /\ DOMAIN scan' = {"phase", "graph"}
  BY <1>1
<1>3. tally'.scans = tally.scans + 1 /\ tally'.overrides = tally.overrides /\ tally.scans \in Nat \ {0} /\ DOMAIN tally' = {"scans", "overrides"}
  BY <1>1 DEF ModelInv, ModelTypes
<1>4. InPlay' \subseteq InPlay
  BY <1>1, <1>2, PlayedIs, PlayedNext
<1>5. ScansGoOn
  BY <1>3 DEF ScansGoOn
<1>6. ModelTypes'
  BY <1>1, <1>2, <1>3 DEF ModelInv, ModelTypes
<1> QED
  BY <1>1, <1>4, <1>5, <1>6, SameOverrides, SubsetNothingNew, ClickKept

(* A step that leaves the numbers alone and starts no scan. *)
LEMMA QuietStep ==
    ASSUME ModelInv, UNCHANGED touched, OverridesEnd,
           DOMAIN scan' = {"phase", "graph"}, UNCHANGED tally,
           scan'.phase = "sampling" => scan.phase = "sampling", InPlay' \subseteq InPlay
    PROVE  ModelInv'
<1>1. ScansGoOn /\ ModelTypes'
  BY DEF ModelInv, ModelTypes, ScansGoOn, Sampling, OverridesEnd
<1> QED
  BY <1>1, SubsetNothingNew, ClickKept

LEMMA TypesHere ==
    ModelInv => DOMAIN scan = {"phase", "graph"} /\ DOMAIN tally = {"scans", "overrides"} /\ tally.scans \in Nat \ {0}
BY DEF ModelInv, ModelTypes

LEMMA ScanFailsStep == ModelInv /\ ScanFails => ModelInv'
<1> SUFFICES ASSUME ModelInv, ScanFails PROVE ModelInv'
  OBVIOUS
<1>1. scan' = NoScan /\ UNCHANGED <<cache, canvas, loads, override, tally, touched>>
  BY DEF ScanFails
<1>2. InPlay' \subseteq InPlay
  BY <1>1, NoOverrideIs, PlayedIs, PlayedNext
<1> QED
  BY <1>1, <1>2, TypesHere, SameOverrides, NoOverrideIs, QuietStep

LEMMA SaveScanStep == ModelInv /\ SaveScan => ModelInv'
<1> SUFFICES ASSUME ModelInv, SaveScan PROVE ModelInv'
  OBVIOUS
<1>1. /\ scan' = [scan EXCEPT !.phase = "saved"] /\ cache' \in {cache, NoGraph, scan.graph}
      /\ UNCHANGED <<canvas, loads, override, tally, touched>>
  BY DEF SaveScan
<1>2. DOMAIN scan' = {"phase", "graph"} /\ scan'.phase = "saved" /\ scan'.graph = scan.graph
  BY <1>1, TypesHere
<1>3. InPlay' \subseteq InPlay
  BY <1>1, <1>2, PlayedIs, PlayedNext
<1> QED
  BY <1>1, <1>2, <1>3, TypesHere, SameOverrides, QuietStep

LEMMA ScanAnswerStep == ModelInv /\ ScanAnswer => ModelInv'
<1> SUFFICES ASSUME ModelInv, ScanAnswer PROVE ModelInv'
  OBVIOUS
<1>1. scan' = NoScan /\ canvas' = scan.graph /\ UNCHANGED <<cache, loads, override, tally, touched>>
  BY DEF ScanAnswer
<1>2. InPlay' \subseteq InPlay
  BY <1>1, NoOverrideIs, PlayedIs, PlayedNext
<1> QED
  BY <1>1, <1>2, TypesHere, SameOverrides, NoOverrideIs, QuietStep

LEMMA LoadStep == ModelInv /\ (LoadRead \/ LoadAnswer \/ LoadFails) => ModelInv'
<1> SUFFICES ASSUME ModelInv, LoadRead \/ LoadAnswer \/ LoadFails PROVE ModelInv'
  OBVIOUS
<1>1. UNCHANGED <<cache, scan, override, tally, touched>>
  BY DEF LoadRead, LoadAnswer, LoadFails
<1>2. canvas' \in InPlay /\ \A l \in DOMAIN loads' : loads'[l].graph \in InPlay
  <2>1. CASE LoadRead
    <3>1. PICK l \in DOMAIN loads : loads' = [loads EXCEPT ![l] = [read |-> TRUE, graph |-> cache]] /\ UNCHANGED canvas
      BY <2>1 DEF LoadRead
    <3>2. PICK new : new = [read |-> TRUE, graph |-> cache]
      OBVIOUS
    <3>3. new.graph = cache
      BY <3>2
    <3>4. \A m \in DOMAIN loads' : m \in DOMAIN loads /\ (loads'[m] = new \/ loads'[m] = loads[m])
      BY <3>1, <3>2
    <3> QED
      BY <3>1, <3>3, <3>4, PlayedIs
  <2>2. CASE LoadAnswer
    BY <2>2, PlayedIs DEF LoadAnswer
  <2>3. CASE LoadFails
    BY <2>3, PlayedIs DEF LoadFails
  <2> QED
    BY <2>1, <2>2, <2>3
<1>3. InPlay' \subseteq InPlay
  BY <1>1, <1>2, PlayedIs, PlayedNext
<1> QED
  BY <1>1, <1>3, TypesHere, SameOverrides, QuietStep

(* One override changes. *)
LEMMA OneOverride ==
    ASSUME ModelInv, NEW k \in Click, NEW o, override' = [override EXCEPT ![k] = o]
    PROVE  DOMAIN override' = Click /\ override'[k] = o /\ \A m \in Click \ {k} : override'[m] = override[m]
BY DEF ModelInv, ModelTypes

LEMMA OneEnds == ASSUME ModelInv, NEW k \in Click, override' = [override EXCEPT ![k] = NoOverride] PROVE OverridesEnd
<1>1. DOMAIN override' = Click /\ override'[k] = NoOverride /\ \A m \in Click \ {k} : override'[m] = override[m]
  BY OneOverride
<1> QED
  BY <1>1 DEF OverridesEnd

LEMMA EndsInPlay == ModelInv /\ OverridesEnd => \A k \in Click : override'[k].graph \in InPlay
BY NoOverrideIs, PlayedIs DEF OverridesEnd

LEMMA OverrideEndsStep == ASSUME ModelInv, NEW k \in Click, OverrideFails(k) \/ OverrideAnswer(k) PROVE ModelInv'
<1>1. /\ override' = [override EXCEPT ![k] = NoOverride] /\ UNCHANGED <<scan, loads, tally, touched>>
      /\ cache' \in {cache, NoGraph} /\ canvas' \in {canvas, override[k].graph}
  BY DEF OverrideFails, OverrideAnswer
<1>2. OverridesEnd
  BY <1>1, OneEnds
<1>3. InPlay' \subseteq InPlay
  BY <1>1, <1>2, EndsInPlay, PlayedIs, PlayedNext
<1> QED
  BY <1>1, <1>2, <1>3, TypesHere, QuietStep

(* A scan that is done brings a list of edges under a number no graph has. *)
LEMMA ScanDoneStep == ModelInv /\ ScanDone => ModelInv'
<1> SUFFICES ASSUME ModelInv, ScanDone PROVE ModelInv'
  OBVIOUS
<1>1. PICK o \in Orders : scan' = [phase |-> "announced", graph |-> Graph(tally.scans, o)]
  BY DEF ScanDone
<1>2. Sampling /\ loads' = Announced /\ UNCHANGED <<cache, canvas, override, tally, touched>>
  BY DEF ScanDone, Sampling
<1>3. PICK new : new = Graph(tally.scans, o)
  OBVIOUS
<1>4. DOMAIN new = GraphFields /\ new.scan = tally.scans
  BY <1>3 DEF Graph, GraphFields
<1>5. DOMAIN scan' = {"phase", "graph"} /\ scan'.phase = "announced" /\ scan'.graph = new
  BY <1>1, <1>3
<1>6. tally.scans \in Nat \ {0} /\ tally'.scans = tally.scans /\ DOMAIN tally' = {"scans", "overrides"}
  BY <1>2, TypesHere
<1>7. InPlay' \subseteq InPlay \cup {new}
  <2>1. \A l \in DOMAIN loads' : loads'[l].graph \in InPlay
    BY <1>2, AnnouncedGraphs
  <2>2. PICK S : S = InPlay \cup {new}
    OBVIOUS
  <2> QED
    BY <1>2, <1>5, <2>1, <2>2, PlayedIs, PlayedNext
<1>8. ModelTypes' /\ ~Sampling'
  BY <1>2, <1>5, <1>6 DEF ModelInv, ModelTypes, Sampling
<1>9. ASSUME NEW g \in InPlay PROVE GraphFits(g, tally.scans, TRUE)
  BY <1>2 DEF ModelInv, GraphFits
<1>10. ASSUME NEW k \in Click PROVE ClickFits(override[k], tally.scans, TRUE)
  BY <1>2 DEF ModelInv, ClickFits
<1>11. ASSUME NEW g \in InPlay' PROVE GraphFits(g, tally.scans, FALSE)
  BY <1>4, <1>6, <1>7, <1>9, <1>11 DEF GraphFits
<1>12. ASSUME NEW g \in InPlay', NEW k \in Click PROVE SeenThere(override[k], g)
  <2>1. CASE g \in InPlay
    BY <2>1 DEF ModelInv
  <2>2. CASE g = new
    <3>1. ClickFits(override[k], tally.scans, TRUE)
      BY <1>10
    <3> QED
      BY <1>4, <1>6, <2>2, <3>1 DEF SeenThere, ClickFits
  <2> QED
    BY <1>7, <2>1, <2>2
<1>13. OneListPerScan(InPlay')
  <2>1. \A g \in InPlay : g.scan # new.scan
    BY <1>4, <1>6, <1>9 DEF GraphFits
  <2>2. OneListPerScan(InPlay)
    BY DEF ModelInv
  <2> QED
    BY <1>7, <2>1, <2>2 DEF OneListPerScan
<1>14. \A g \in InPlay' : GraphFits(g, tally'.scans, Sampling')
  BY <1>6, <1>8, <1>11 DEF GraphFits
<1>15. \A k \in Click : ClickFits(override'[k], tally'.scans, Sampling') /\ \A g \in InPlay' : SeenThere(override'[k], g)
  <2>1. ASSUME NEW k \in Click PROVE ClickFits(override[k], tally.scans, FALSE)
    BY <1>10 DEF ClickFits
  <2>2. ASSUME NEW k \in Click PROVE ClickFits(override[k], tally'.scans, Sampling')
    BY <1>6, <1>8, <2>1 DEF ClickFits
  <2> QED
    BY <1>2, <1>12, <2>2
<1>16. OneListPerScan(InPlay)'
  BY <1>13 DEF OneListPerScan
<1>17. OverrideHitsSeenEdge'
  BY <1>2 DEF ModelInv, OverrideHitsSeenEdge
<1> QED
  BY <1>8, <1>14, <1>15, <1>16, <1>17 DEF ModelInv

(* One override moves on: the others are as they were. *)
LEMMA OneMoves ==
    ASSUME ModelInv, NothingNew, ModelTypes', UNCHANGED scan, tally'.scans = tally.scans, OverrideHitsSeenEdge',
           NEW k \in Click, NEW o, override' = [override EXCEPT ![k] = o],
           ClickFits(o, tally.scans, Sampling), \A g \in InPlay' : SeenThere(o, g)
    PROVE  ModelInv'
<1>1. Sampling' = Sampling /\ ScansGoOn
  BY DEF ModelInv, ModelTypes, Sampling, ScansGoOn
<1>2. (\A g \in InPlay : GraphFits(g, tally.scans, Sampling))' /\ OneListPerScan(InPlay)'
  BY <1>1, GraphsKept
<1>3. DOMAIN override' = Click /\ override'[k] = o /\ \A m \in Click \ {k} : override'[m] = override[m]
  BY OneOverride
<1>4. ASSUME NEW m \in Click
      PROVE  ClickFits(override'[m], tally'.scans, Sampling') /\ \A g \in InPlay' : SeenThere(override'[m], g)
  <2>1. CASE m = k
    BY <1>1, <1>3, <2>1
  <2>2. CASE m # k
    <3>1. ClickFits(override[m], tally.scans, Sampling)
      BY DEF ModelInv
    <3>2. ASSUME NEW g \in InPlay' PROVE SeenThere(override[m], g)
      <4>1. PICK h \in InPlay : Alike(g, h)
        BY <3>2 DEF NothingNew
      <4>2. SeenThere(override[m], h)
        BY DEF ModelInv
      <4> QED
        BY <4>1, <4>2 DEF SeenThere, Alike
    <3>3. override'[m] = override[m]
      BY <1>3, <2>2
    <3> QED
      BY <1>1, <3>1, <3>2, <3>3
  <2> QED
    BY <2>1, <2>2
<1> QED
  BY <1>2, <1>4 DEF ModelInv

LEMMA ClickStep == ModelInv /\ ClickOverride /\ tally.overrides + 1 \in Click => ModelInv'
<1> SUFFICES ASSUME ModelInv, ClickOverride, tally.overrides + 1 \in Click PROVE ModelInv'
  OBVIOUS
<1>1. PICK i \in DOMAIN canvas.edges, which \in {"confirmed", "hidden"} :
        /\ override' = [override EXCEPT ![tally.overrides + 1] =
                          [phase |-> "sent", id |-> <<canvas.scan, i>>, seen |-> canvas.edges[i], flag |-> which,
                           to |-> canvas.edges[i] \notin canvas[which], graph |-> NoGraph]]
        /\ tally' = [tally EXCEPT !.overrides = tally.overrides + 1]
        /\ UNCHANGED <<cache, canvas, scan, loads, touched>>
  BY DEF ClickOverride
<1> DEFINE to == canvas.edges[i] \notin canvas[which]
<1>2. PICK k \in Click : k = tally.overrides + 1
  OBVIOUS
<1>3. PICK o : o = [phase |-> "sent", id |-> <<canvas.scan, i>>, seen |-> canvas.edges[i], flag |-> which, to |-> to, graph |-> NoGraph]
  OBVIOUS
<1>4. override' = [override EXCEPT ![k] = o]
  BY <1>1, <1>2, <1>3
<1> HIDE DEF to
<1>5. /\ DOMAIN o = OverrideFields /\ o.phase = "sent" /\ o.id[1] = canvas.scan /\ o.id[2] = i
      /\ o.seen = canvas.edges[i] /\ o.flag = which /\ o.graph = NoGraph
  BY <1>3 DEF OverrideFields
<1>6. tally'.scans = tally.scans /\ DOMAIN tally' = {"scans", "overrides"} /\ tally'.overrides \in Nat /\ tally.scans \in Nat \ {0}
  BY <1>1 DEF ModelInv, ModelTypes
<1>7. DOMAIN override' = Click /\ override'[k] = o /\ \A m \in Click \ {k} : override'[m] = override[m]
  BY <1>4, OneOverride
<1>8. InPlay' \subseteq InPlay
  <2>1. \A m \in Click : override'[m].graph \in InPlay
    BY <1>5, <1>7, PlayedIs
  <2> QED
    BY <1>1, <2>1, PlayedIs, PlayedNext
<1>9. ModelTypes'
  BY <1>1, <1>6, <1>7 DEF ModelInv, ModelTypes
<1>10. GraphFits(canvas, tally.scans, Sampling) /\ canvas \in InPlay
  BY PlayedIs DEF ModelInv
<1>11. ASSUME NEW g \in InPlay' PROVE SeenThere(o, g)
  <2>1. g.scan = canvas.scan => g.edges = canvas.edges
    BY <1>8, <1>10 DEF ModelInv, OneListPerScan
  <2> QED
    BY <1>5, <2>1 DEF SeenThere
<1>12. ClickFits(o, tally.scans, Sampling)
  BY <1>5, <1>6, <1>10 DEF ClickFits, GraphFits
<1>13. OverrideHitsSeenEdge'
  BY <1>1 DEF ModelInv, OverrideHitsSeenEdge
<1> QED
  BY <1>1, <1>4, <1>6, <1>8, <1>9, <1>11, <1>12, <1>13, SubsetNothingNew, OneMoves

LEMMA CountFits == ModelInv /\ ClickOverride => tally.overrides + 1 \in Click
BY ModelAssumption DEF ModelInv, ModelTypes, ClickOverride, Click

(* Turning a flag changes no edge. *)
LEMMA OverrideAlike ==
    ASSUME NEW graph, NEW id, NEW which \in {"confirmed", "hidden"}, NEW to, DOMAIN graph = GraphFields
    PROVE  Alike(OverrideEdge(graph, id, which, to), graph)
<1>1. PICK set : set = IF to THEN graph[which] \cup {graph.edges[id[2]]} ELSE graph[which] \ {graph.edges[id[2]]}
  OBVIOUS
<1>2. PICK turned : turned = [graph EXCEPT ![which] = set]
  OBVIOUS
<1>3. DOMAIN turned = GraphFields /\ turned.scan = graph.scan /\ turned.edges = graph.edges
  BY <1>2 DEF GraphFields
<1>4. PICK shown : shown = [turned EXCEPT !.hidden = turned.hidden \ {graph.edges[id[2]]}]
  OBVIOUS
<1>5. DOMAIN shown = GraphFields /\ shown.scan = graph.scan /\ shown.edges = graph.edges
  BY <1>3, <1>4 DEF GraphFields
<1>6. OverrideEdge(graph, id, which, to) = IF which = "confirmed" /\ to THEN shown ELSE turned
  BY <1>1, <1>2, <1>4 DEF OverrideEdge
<1> QED
  BY <1>3, <1>5, <1>6 DEF Alike

LEMMA OverrideReadStep == ASSUME ModelInv, NEW k \in Click, OverrideRead(k) PROVE ModelInv'
<1>1. PICK o : o = override[k]
  OBVIOUS
<1>2. o.phase = "sent" /\ UNCHANGED <<cache, canvas, scan, loads, tally, touched>>
  BY <1>1 DEF OverrideRead
<1>3. ClickFits(o, tally.scans, Sampling) /\ DOMAIN o = OverrideFields
  BY <1>1 DEF ModelInv, ClickFits
<1>4. CASE ~HasEdge(cache, o.id)
  <2>1. override' = [override EXCEPT ![k] = NoOverride]
    BY <1>1, <1>4 DEF OverrideRead
  <2>2. OverridesEnd
    BY <2>1, OneEnds
  <2>3. InPlay' \subseteq InPlay
    BY <1>2, <2>2, EndsInPlay, PlayedIs, PlayedNext
  <2> QED
    BY <1>2, <2>2, <2>3, TypesHere, QuietStep
<1>5. CASE HasEdge(cache, o.id)
  <2>1. PICK new : new = OverrideEdge(cache, o.id, o.flag, o.to)
    OBVIOUS
  <2>2. PICK p : p = [o EXCEPT !.phase = "read", !.graph = new]
    OBVIOUS
  <2>3. override' = [override EXCEPT ![k] = p]
    BY <1>1, <1>5, <2>1, <2>2 DEF OverrideRead
  <2>4. /\ DOMAIN p = OverrideFields /\ p.phase = "read" /\ p.graph = new
        /\ p.id = o.id /\ p.seen = o.seen /\ p.flag = o.flag
    BY <1>3, <2>2 DEF OverrideFields
  <2>5. Alike(new, cache)
    BY <1>2, <1>3, <2>1, OverrideAlike, PlayedIs DEF ClickFits, ModelInv, GraphFits
  <2>6. DOMAIN override' = Click /\ override'[k] = p /\ \A m \in Click \ {k} : override'[m] = override[m]
    BY <2>3, OneOverride
  <2>7. NothingNew
    <3>1. PICK S : S = InPlay \cup {new}
      OBVIOUS
    <3>2. \A m \in Click : override'[m].graph \in S
      BY <2>4, <2>6, <3>1, PlayedIs
    <3>3. InPlay' \subseteq S
      BY <1>2, <3>1, <3>2, PlayedIs, PlayedNext
    <3> QED
      BY <2>5, <3>1, <3>3, AlikeSelf, PlayedIs DEF NothingNew
  <2>8. ModelTypes' /\ tally'.scans = tally.scans
    BY <1>2, <2>6 DEF ModelInv, ModelTypes
  <2>9. ASSUME NEW g \in InPlay' PROVE SeenThere(p, g)
    <3>1. PICK h \in InPlay : Alike(g, h)
      BY <2>7 DEF NothingNew
    <3>2. SeenThere(o, h)
      BY <1>1 DEF ModelInv
    <3> QED
      BY <1>2, <2>4, <3>1, <3>2 DEF SeenThere, Alike
  <2>10. ClickFits(p, tally.scans, Sampling)
    BY <1>2, <1>3, <1>5, <2>4, <2>5 DEF ClickFits, HasEdge, Alike
  <2>11. OverrideHitsSeenEdge'
    BY <1>2 DEF ModelInv, OverrideHitsSeenEdge
  <2> QED
    BY <1>2, <2>3, <2>7, <2>8, <2>9, <2>10, <2>11, OneMoves
<1> QED
  BY <1>4, <1>5

LEMMA OverrideWriteStep == ASSUME ModelInv, NEW k \in Click, OverrideWrite(k) PROVE ModelInv'
<1>1. PICK o : o = override[k]
  OBVIOUS
<1>2. /\ o.phase = "read" /\ cache' = o.graph /\ loads' = Announced /\ UNCHANGED <<canvas, scan, tally>>
      /\ override' = [override EXCEPT ![k].phase = "written"]
      /\ touched' = {t \in touched : t.id # o.id} \cup {Touch(o)}
  BY <1>1 DEF OverrideWrite
<1>3. ClickFits(o, tally.scans, Sampling) /\ DOMAIN o = OverrideFields
  BY <1>1 DEF ModelInv, ClickFits
<1>4. PICK p : p = [o EXCEPT !.phase = "written"]
  OBVIOUS
<1>5. override' = [override EXCEPT ![k] = p]
  BY <1>1, <1>2, <1>4
<1>6. DOMAIN p = OverrideFields /\ p.phase = "written" /\ p.graph = o.graph /\ p.id = o.id /\ p.seen = o.seen /\ p.flag = o.flag
  BY <1>3, <1>4 DEF OverrideFields
<1>7. DOMAIN override' = Click /\ override'[k] = p /\ \A m \in Click \ {k} : override'[m] = override[m]
  BY <1>5, OneOverride
<1>8. InPlay' \subseteq InPlay
  <2>1. \A l \in DOMAIN loads' : loads'[l].graph \in InPlay
    BY <1>2, AnnouncedGraphs
  <2>2. \A m \in Click : override'[m].graph \in InPlay
    BY <1>1, <1>6, <1>7, PlayedIs
  <2> QED
    BY <1>1, <1>2, <2>1, <2>2, PlayedIs, PlayedNext
<1>9. ModelTypes' /\ tally'.scans = tally.scans
  BY <1>2, <1>7 DEF ModelInv, ModelTypes
<1>10. \A g \in InPlay : SeenThere(o, g)
  BY <1>1 DEF ModelInv
<1>11. ASSUME NEW g \in InPlay' PROVE SeenThere(p, g)
  <2>1. SeenThere(o, g)
    BY <1>8, <1>10
  <2> QED
    BY <1>2, <1>6, <2>1 DEF SeenThere
<1>12. ClickFits(p, tally.scans, Sampling)
  BY <1>2, <1>3, <1>6 DEF ClickFits
<1>13. OverrideHitsSeenEdge'
  <2>1. o.graph.edges[o.id[2]] = o.seen
    <3>1. SeenThere(o, o.graph)
      BY <1>1, <1>10, PlayedIs
    <3> QED
      BY <1>2, <1>3, <3>1 DEF SeenThere, ClickFits
  <2>2. PICK t : t = Touch(o)
    OBVIOUS
  <2>3. t.seen = t.edge
    <3>1. t.seen = o.seen /\ t.edge = o.graph.edges[o.id[2]]
      BY <2>2 DEF Touch
    <3> QED
      BY <2>1, <3>1
  <2>4. \A u \in touched' : u \in touched \/ u = t
    BY <1>2, <2>2
  <2> QED
    BY <2>3, <2>4 DEF ModelInv, OverrideHitsSeenEdge
<1> QED
  BY <1>2, <1>5, <1>8, <1>9, <1>11, <1>12, <1>13, SubsetNothingNew, OneMoves

LEMMA ModelInductive == ModelInv /\ [ModelNext]_modelVars => ModelInv'
<1> SUFFICES ASSUME ModelInv, [ModelNext]_modelVars PROVE ModelInv'
  OBVIOUS
<1>1. CASE UNCHANGED modelVars
  <2>1. UNCHANGED <<cache, canvas, scan, loads, override, tally, touched>>
    BY <1>1 DEF modelVars
  <2>2. InPlay' \subseteq InPlay
    BY <2>1, PlayedIs, PlayedNext
  <2> QED
    BY <2>1, <2>2, TypesHere, SameOverrides, QuietStep
<1>2. CASE ModelNext
  BY <1>2, RunScanStep, ScanFailsStep, ScanDoneStep, SaveScanStep, ScanAnswerStep, LoadStep, CountFits, ClickStep,
     OverrideReadStep, OverrideWriteStep, OverrideEndsStep DEF ModelNext
<1> QED
  BY <1>1, <1>2

(* However scans, cache files that are lost or not written, reloads and clicks     *)
(* overlap: an override that apply_edge_override() acknowledged changed the        *)
(* relationship the user clicked on the canvas.                                    *)
THEOREM OverridesAlwaysHit == ModelSpec => []OverrideHitsSeenEdge
<1>1. ModelInit => ModelInv
  BY ModelStart
<1>2. ModelInv /\ [ModelNext]_modelVars => ModelInv'
  BY ModelInductive
<1>3. ModelInv => OverrideHitsSeenEdge
  BY DEF ModelInv
<1> QED
  BY <1>1, <1>2, <1>3, PTL DEF ModelSpec
==============================================================================
