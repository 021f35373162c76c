----------------------------- MODULE DaemonProofs -----------------------------
(***************************************************************************)
(* Theorems about the publisher daemon, for any number of events, requests *)
(* and crashes: its types, its oplog ranges, and then its epochs.          *)
(***************************************************************************)
EXTENDS AuditDaemon, TLAPS

-----------------------------------------------------------------------------
(* The epoch list *)

(* What every call that may close an epoch does to the list: nothing to    *)
(* the epochs closed before, the open one keeps its range and its mark,    *)
(* and at most one new epoch is opened.                                    *)
Grows(old, new) ==
  /\ new \in Seq(Epoch)
  /\ Len(new) = Len(old) \/ Len(new) = Len(old) + 1
  /\ \A i \in 1..(Len(old) - 1) : new[i] = old[i]
  /\ new[Len(old)].oplog = old[Len(old)].oplog
  /\ new[Len(old)].committed = old[Len(old)].committed
  /\ Len(new) = Len(old) => new[Len(old)].end = old[Len(old)].end
  /\ Len(new) = Len(old) + 1 =>
       /\ new[Len(new)].oplog = NoRange /\ new[Len(new)].committed = FALSE
       /\ new[Len(new)].end = None

LEMMA NewEpochType ==
  ASSUME NEW s \in Nat
  PROVE  NewEpoch(s) \in Epoch
BY DEF NewEpoch, Epoch, None, NoRange

LEMMA NonEmpty ==
  ASSUME NEW S, NEW s \in Seq(S), s # <<>>
  PROVE  Len(s) \in Nat \ {0} /\ s[Len(s)] \in S /\ \A i \in 1..Len(s) : s[i] \in S
OBVIOUS

(* Counting changes the open epoch's count only. *)
LEMMA CountedGrows ==
  ASSUME NEW es \in Seq(Epoch), es # <<>>, NEW c \in Nat
  PROVE  /\ Grows(es, [es EXCEPT ![Len(es)].count = c])
         /\ Len([es EXCEPT ![Len(es)].count = c]) = Len(es)
<1> DEFINE e == [es[Len(es)] EXCEPT !.count = c]
           new == [es EXCEPT ![Len(es)] = e]
<1>1. Len(es) \in Nat \ {0} /\ es[Len(es)] \in Epoch
  BY NonEmpty
<1>2. /\ e \in Epoch /\ e.oplog = es[Len(es)].oplog
      /\ e.committed = es[Len(es)].committed /\ e.end = es[Len(es)].end
  BY <1>1 DEF Epoch
<1>3. new \in Seq(Epoch) /\ Len(new) = Len(es) /\ new[Len(es)] = e
      /\ \A i \in 1..(Len(es) - 1) : new[i] = es[i]
  <2> HIDE DEF e
  <2> QED BY <1>1, <1>2
<1>4. [es EXCEPT ![Len(es)].count = c] = new
  OBVIOUS
<1>5. Grows(es, new) /\ Len(new) = Len(es)
  <2> HIDE DEF e, new
  <2> QED BY <1>1, <1>2, <1>3 DEF Grows
<1> QED BY <1>4, <1>5

LEMMA CloseGrows ==
  ASSUME NEW es \in Seq(Epoch), es # <<>>, NEW end \in Nat, NEW l \in Nat
  PROVE  Grows(es, CloseAt(es, end, l)) /\ Len(CloseAt(es, end, l)) = Len(es) + 1
<1> DEFINE e == [es[Len(es)] EXCEPT !.end = end, !.root = FrozenRoot(end, l)]
           mid == [es EXCEPT ![Len(es)] = e]
           n == NewEpoch(end + 1)
<1>1. Len(es) \in Nat \ {0} /\ es[Len(es)] \in Epoch
  BY NonEmpty
<1>2. e \in Epoch /\ e.oplog = es[Len(es)].oplog /\ e.committed = es[Len(es)].committed
  BY <1>1 DEF Epoch, FrozenRoot, RootAfter
<1>3. mid \in Seq(Epoch) /\ Len(mid) = Len(es) /\ mid[Len(es)] = e
      /\ \A i \in 1..(Len(es) - 1) : mid[i] = es[i]
  <2> HIDE DEF e
  <2> QED BY <1>1, <1>2
<1>4. n \in Epoch /\ n.oplog = NoRange /\ n.committed = FALSE /\ n.end = None
  <2>1. end + 1 \in Nat
    OBVIOUS
  <2> QED BY <2>1, NewEpochType DEF NewEpoch
<1>5. CloseAt(es, end, l) = Append(mid, n)
  BY DEF CloseAt
<1> HIDE DEF e, mid, n
<1>6. /\ Append(mid, n) \in Seq(Epoch) /\ Len(Append(mid, n)) = Len(es) + 1
      /\ Append(mid, n)[Len(es) + 1] = n
      /\ \A i \in 1..Len(es) : Append(mid, n)[i] = mid[i]
  BY <1>1, <1>3, <1>4
<1> QED BY <1>1, <1>2, <1>3, <1>4, <1>5, <1>6 DEF Grows

LEMMA GrowsTrans ==
  ASSUME NEW a \in Seq(Epoch), a # <<>>, NEW b, NEW c,
         Grows(a, b), Len(b) = Len(a), Grows(b, c)
  PROVE  Grows(a, c)
BY NonEmpty DEF Grows

LEMMA RecordGrows ==
  ASSUME NEW es \in Seq(Epoch), es # <<>>, NEW i \in Nat, NEW l \in Nat
  PROVE  Grows(es, RecordEvent(es, i, l))
<1> DEFINE c == es[Len(es)].count + 1
           counted == [es EXCEPT ![Len(es)].count = c]
<1>1. c \in Nat
  <2>1. es[Len(es)] \in Epoch
    BY NonEmpty
  <2> QED BY <2>1 DEF Epoch
<1>2. Grows(es, counted) /\ Len(counted) = Len(es)
  <2> HIDE DEF c
  <2> QED BY <1>1, CountedGrows
<1>3. counted \in Seq(Epoch) /\ counted # <<>>
  BY <1>2, NonEmpty DEF Grows
<1>4. RecordEvent(es, i, l) = CloseAt(counted, i, l) \/ RecordEvent(es, i, l) = counted
  BY DEF RecordEvent
<1> HIDE DEF counted
<1>5. Grows(counted, CloseAt(counted, i, l))
  BY <1>3, CloseGrows
<1> QED BY <1>2, <1>4, <1>5, GrowsTrans

LEMMA CloseCurrentGrows ==
  ASSUME NEW es \in Seq(Epoch), es # <<>>, NEW l \in Nat
  PROVE  Grows(es, CloseCurrent(es, l))
<1> DEFINE end == es[Len(es)].start + es[Len(es)].count - 1
<1>1. es[Len(es)].count > 0 => end \in Nat
  <2>1. es[Len(es)] \in Epoch
    BY NonEmpty
  <2> QED BY <2>1 DEF Epoch
<1>2. Grows(es, es)
  BY NonEmpty DEF Grows
<1>3. CASE es[Len(es)].count > 0 /\ end < l
  BY <1>1, <1>3, CloseGrows DEF CloseCurrent
<1>4. CASE ~(es[Len(es)].count > 0 /\ end < l)
  BY <1>2, <1>4 DEF CloseCurrent
<1> QED BY <1>3, <1>4

LEMMA SyncGrows ==
  ASSUME NEW es \in Seq(Epoch), es # <<>>, NEW l \in Nat
  PROVE  Grows(es, SyncOpen(es, l))
<1> DEFINE start == es[Len(es)].start
           count == IF l > start THEN l - start ELSE 0
           synced == [es EXCEPT ![Len(es)].count = count]
<1>1. start \in Nat /\ count \in Nat /\ (Reached(count) => start + count - 1 \in Nat)
  <2>1. es[Len(es)] \in Epoch
    BY NonEmpty
  <2> QED BY <2>1, ThresholdAssumption DEF Epoch, Reached
<1>2. SyncOpen(es, l) = IF Reached(count) THEN CloseAt(synced, start + count - 1, l)
                        ELSE synced
  BY DEF SyncOpen
<1> HIDE DEF start, count
<1>3. Grows(es, synced) /\ Len(synced) = Len(es)
  BY <1>1, CountedGrows
<1>4. synced \in Seq(Epoch) /\ synced # <<>>
  BY <1>3, NonEmpty DEF Grows
<1> HIDE DEF synced
<1>5. Reached(count) => Grows(synced, CloseAt(synced, start + count - 1, l))
  BY <1>1, <1>4, CloseGrows
<1> QED BY <1>2, <1>3, <1>5, GrowsTrans

(* attach_oplog_hash() gives one epoch its range, and changes neither its  *)
(* root nor its mark.                                                      *)
LEMMA AttachType ==
  ASSUME NEW es \in Seq(Epoch), NEW n \in Nat, n + 1 <= Len(es),
         NEW from \in Nat, NEW to \in Nat
  PROVE  AttachOplogHash(es, n, from, to) \in Seq(Epoch)
<1> DEFINE e == [es[n + 1] EXCEPT !.oplog = [from |-> from, to |-> to]]
<1>1. n + 1 \in 1..Len(es) /\ es[n + 1] \in Epoch
  OBVIOUS
<1>2. e \in Epoch
  BY <1>1 DEF Epoch
<1>3. AttachOplogHash(es, n, from, to) = [es EXCEPT ![n + 1] = e]
  BY DEF AttachOplogHash
<1> HIDE DEF e
<1> QED BY <1>1, <1>2, <1>3

(* Two epochs with the same events. *)
SameRange(e, f) ==
  f.start = e.start /\ f.end = e.end /\ f.root = e.root /\ f.count = e.count

LEMMA AttachKeeps ==
  ASSUME NEW es \in Seq(Epoch), NEW n \in Nat, n + 1 <= Len(es),
         NEW from \in Nat, NEW to \in Nat,
         NEW new, new = AttachOplogHash(es, n, from, to)
  PROVE  /\ Len(new) = Len(es)
         /\ \A i \in 1..Len(es) : i # n + 1 => new[i] = es[i]
         /\ SameRange(es[n + 1], new[n + 1])
         /\ new[n + 1].root = es[n + 1].root
         /\ new[n + 1].committed = es[n + 1].committed
<1> DEFINE e == [es[n + 1] EXCEPT !.oplog = [from |-> from, to |-> to]]
<1>1. Len(es) \in Nat /\ n + 1 \in 1..Len(es) /\ es[n + 1] \in Epoch
  OBVIOUS
<1>2. /\ e.root = es[n + 1].root /\ e.committed = es[n + 1].committed
      /\ SameRange(es[n + 1], e)
  BY <1>1 DEF Epoch, SameRange
<1>3. new = [es EXCEPT ![n + 1] = e]
  BY DEF AttachOplogHash
<1> HIDE DEF e
<1> QED BY <1>1, <1>2, <1>3

LEMMA AttachRange ==
  ASSUME NEW es \in Seq(Epoch), NEW n \in Nat, n + 1 <= Len(es),
         NEW from \in Nat, NEW to \in Nat,
         NEW new, new = AttachOplogHash(es, n, from, to)
  PROVE  new[n + 1].oplog = [from |-> from, to |-> to]
<1> DEFINE r == [from |-> from, to |-> to]
           e == [es[n + 1] EXCEPT !.oplog = r]
<1>1. n + 1 \in 1..Len(es) /\ es[n + 1] \in Epoch
  OBVIOUS
<1>2. e.oplog = r
  <2> HIDE DEF r
  <2> QED BY <1>1 DEF Epoch
<1>3. new = [es EXCEPT ![n + 1] = e]
  BY DEF AttachOplogHash
<1>4. new[n + 1] = e
  <2> HIDE DEF e
  <2> QED BY <1>1, <1>3
<1> QED BY <1>2, <1>4

(* mark_committed() marks one epoch. *)
LEMMA MarkChanges ==
  ASSUME NEW es \in Seq(Epoch), NEW n \in Nat, n + 1 <= Len(es),
         NEW tx \in {"none", "empty", "hash"}
  PROVE  LET new == MarkCommitted(es, n, tx)
         IN  /\ new \in Seq(Epoch) /\ Len(new) = Len(es)
             /\ \A i \in 1..Len(es) : i # n + 1 => new[i] = es[i]
             /\ new[n + 1].oplog = es[n + 1].oplog
             /\ new[n + 1].root = es[n + 1].root
             /\ SameRange(es[n + 1], new[n + 1])
<1> DEFINE hash == IF tx = "empty" /\ es[n + 1].tx = "hash" THEN es[n + 1].tx ELSE tx
           e == [es[n + 1] EXCEPT !.committed = TRUE, !.tx = hash]
           new == [es EXCEPT ![n + 1] = e]
<1>1. Len(es) \in Nat /\ n + 1 \in 1..Len(es) /\ es[n + 1] \in Epoch
  OBVIOUS
<1>2. hash \in {"none", "empty", "hash"}
  BY <1>1 DEF Epoch
<1>3. /\ e \in Epoch /\ e.oplog = es[n + 1].oplog /\ e.root = es[n + 1].root
      /\ SameRange(es[n + 1], e)
  <2> HIDE DEF hash
  <2> QED BY <1>1, <1>2 DEF Epoch, SameRange
<1>4. /\ new \in Seq(Epoch) /\ Len(new) = Len(es) /\ new[n + 1] = e
      /\ \A i \in 1..Len(es) : i # n + 1 => new[i] = es[i]
  <2> HIDE DEF e
  <2> QED BY <1>1, <1>3
<1>5. MarkCommitted(es, n, tx) = new
  <2> HIDE DEF hash
  <2>1. MarkCommitted(es, n, tx) = [es EXCEPT ![n + 1].committed = TRUE, ![n + 1].tx = hash]
    BY <1>1 DEF MarkCommitted, hash
  <2> QED BY <1>1, <2>1
<1> HIDE DEF e, new
<1> QED BY <1>3, <1>4, <1>5

-----------------------------------------------------------------------------
(* Processes *)

Pc == {"idle", "boot", "sync", "feed", "snapshot", "write", "read_start",
       "read_majority", "attach", "publish", "submit", "lookup", "mark"}
Stage == {"none", "sync", "close", "attach", "mark"}

LEMMA FreshType == Fresh \in Seq(Epoch) /\ Fresh # <<>> /\ NoFile \in SavedState
<1>1. NewEpoch(0) \in Epoch
  BY NewEpochType
<1>2. Fresh \in Seq(Epoch) /\ Fresh # <<>>
  BY <1>1 DEF Fresh
<1> QED BY <1>2 DEF NoFile, SavedState

LEMMA LocalType ==
  ASSUME NEW pc \in Pc, NEW n \in Nat, NEW s \in Stage
  PROVE  /\ Local(pc) \in LocalState
         /\ [Local(pc) EXCEPT !.epoch = n] \in LocalState
         /\ [Local(pc) EXCEPT !.stage = s] \in LocalState
         /\ [Local(pc) EXCEPT !.stage = s, !.epoch = n] \in LocalState
<1>1. NewEpoch(0) \in Epoch
  BY NewEpochType
<1>2. [epochs |-> Fresh, next |-> 0] \in SavedState
  BY FreshType DEF SavedState
<1> QED BY <1>1, <1>2 DEF Local, LocalState, Pc, Stage

LEMMA ViewType ==
  ASSUME NEW l \in LocalState, NEW n \in Nat, NEW e \in Epoch, NEW b \in BOOLEAN
  PROVE  /\ [l EXCEPT !.epoch = n, !.view = e, !.cid = b] \in LocalState
         /\ [l EXCEPT !.pc = "submit", !.view = e, !.cid = b] \in LocalState
BY DEF LocalState

LEMMA ContinueType ==
  ASSUME TypeOK, NEW p \in Process, NEW pc \in Pc
  PROVE  Continue(p, pc) \in LocalState
<1>1. proc[p].epoch \in Nat
  BY DEF TypeOK, LocalState
<1> QED BY <1>1, LocalType DEF Continue, Stage

LEMMA UpdateType ==
  ASSUME TypeOK, NEW p \in Process, NEW l \in LocalState
  PROVE  [proc EXCEPT ![p] = l] \in [Process -> LocalState]
BY DEF TypeOK

LEMMA SaveClosedType ==
  ASSUME TypeOK, NEW p \in Process, SaveClosed(p)
  PROVE  proc' \in [Process -> LocalState]
<1>1. Len(epochs) - 1 \in Nat
  BY NonEmpty DEF TypeOK
<1>2. [Local("snapshot") EXCEPT !.stage = "close", !.epoch = Len(epochs) - 1] \in LocalState
  BY <1>1, LocalType DEF Pc, Stage
<1> QED BY <1>2, UpdateType DEF SaveClosed

LEMMA TypeInit == Init => TypeOK
<1> SUFFICES ASSUME Init PROVE TypeOK
  OBVIOUS
<1>1. Fresh \in Seq(Epoch) /\ Fresh # <<>> /\ NoFile \in SavedState
  BY FreshType
<1>2. \A p \in Process : Local(IF p = "auto" THEN "boot" ELSE "idle") \in LocalState
  BY LocalType DEF Pc, Stage
<1>3. proc \in [Process -> LocalState]
  BY <1>2 DEF Init
<1>4. epochs \in Seq(Epoch) /\ epochs # <<>> /\ file \in SavedState
  BY <1>1 DEF Init
<1>5. overlap \in BOOLEAN /\ lost \in BOOLEAN
  BY Zenon DEF Init
<1>6. chain \in Seq(Anchor) /\ cids \subseteq Nat
  BY DEF Init
<1>7. loop \in [at : Nat, upto : Nat]
  BY DEF Init
<1> QED BY <1>3, <1>4, <1>5, <1>6, <1>7 DEF Init, TypeOK

LEMMA AcceptType ==
  ASSUME TypeOK, NEW p \in Process, Accept(p)
  PROVE  chain' \in Seq(Anchor) /\ lost' \in BOOLEAN
<1>1. /\ proc[p].view \in Epoch /\ proc[p].epoch \in Nat /\ proc[p].cid \in BOOLEAN
  BY DEF TypeOK, LocalState
<1>2. [root |-> proc[p].view.root, epoch |-> proc[p].epoch,
       oplog |-> proc[p].view.oplog, cid |-> proc[p].cid] \in Anchor
  BY <1>1 DEF Epoch, Anchor
<1>3. chain' \in Seq(Anchor)
  BY <1>2 DEF Accept, TypeOK
<1> QED BY <1>3 DEF Accept, TypeOK

(* A process in local state l works on the epoch l.epoch. *)
Working(l) ==
  \/ l.pc \in {"read_start", "read_majority", "attach", "publish", "submit", "lookup",
               "mark"}
  \/ l.pc \in {"snapshot", "write"} /\ l.stage # "sync"

(* Which is closed. *)
WorksOnClosed ==
  \A p \in Process : Working(proc[p]) => proc[p].epoch + 1 < Len(epochs)

(* The steps that every process may take. *)
LEMMA ProcessTypeStep ==
  ASSUME TypeOK, WorksOnClosed, NEW p \in Process, ProcessStep(p)
  PROVE  TypeOK'
<1> USE DEF world, manager, history
<1>0. proc[p] \in LocalState /\ proc[p].epoch \in Nat /\ proc[p].save \in SavedState
  BY DEF TypeOK, LocalState
<1>1. CASE Snapshot(p)
  <2>1. [epochs |-> epochs, next |-> nextOplog] \in SavedState
    BY DEF TypeOK, SavedState
  <2> DEFINE l == [proc[p] EXCEPT !.pc = "write", !.old = FALSE,
                                  !.save = [epochs |-> epochs, next |-> nextOplog]]
  <2>2. l \in LocalState
    BY <1>0, <2>1 DEF LocalState
  <2>3. proc' = [proc EXCEPT ![p] = l]
    BY <1>1 DEF Snapshot
  <2> HIDE DEF l
  <2> QED BY <1>1, <2>2, <2>3 DEF Snapshot, TypeOK
<1>2. CASE Write(p)
  <2> DEFINE next == CASE proc[p].stage = "sync" -> "feed"
                       [] proc[p].stage = "close" -> "read_start"
                       [] proc[p].stage = "attach" -> AfterAttach(p)
                       [] OTHER -> Done(p)
  <2>1. next \in Pc
    BY DEF AfterAttach, Done, Pc
  <2>2. Continue(p, next) \in LocalState
    <3> HIDE DEF next
    <3> QED BY <2>1, ContinueType
  <2>3. \A q \in Process : [proc[q] EXCEPT !.old = TRUE] \in LocalState
    <3> TAKE q \in Process
    <3>1. proc[q] \in LocalState
      BY DEF TypeOK
    <3> QED BY <3>1 DEF LocalState
  <2>4. proc' = [q \in Process |->
                  IF q = p THEN Continue(p, next)
                  ELSE IF proc[q].pc = "write" THEN [proc[q] EXCEPT !.old = TRUE]
                  ELSE proc[q]]
    BY <1>2 DEF Write
  <2> HIDE DEF next
  <2>5. proc' \in [Process -> LocalState]
    BY <2>2, <2>3, <2>4 DEF TypeOK
  <2>6. lost' = (lost \/ proc[p].old)
    BY <1>2 DEF Write
  <2> QED BY <1>0, <1>2, <2>5, <2>6 DEF Write, TypeOK
<1>3. CASE WriteFails(p)
  <2> DEFINE next == CASE proc[p].stage = "attach" -> AfterAttach(p)
                       [] OTHER -> Done(p)
  <2>1. next \in Pc
    BY DEF AfterAttach, Done, Pc
  <2>2. Continue(p, next) \in LocalState
    <3> HIDE DEF next
    <3> QED BY <2>1, ContinueType
  <2>3. proc' = [proc EXCEPT ![p] = Continue(p, next)]
    BY <1>3 DEF WriteFails
  <2> HIDE DEF next
  <2>4. proc' \in [Process -> LocalState]
    BY <2>2, <2>3, UpdateType
  <2> QED BY <1>3, <2>4, FreshType DEF WriteFails, TypeOK
<1>4. CASE ReadStart(p)
  <2> DEFINE l == [proc[p] EXCEPT !.pc = "read_majority", !.from = nextOplog]
  <2>1. l \in LocalState
    BY <1>0 DEF LocalState, TypeOK
  <2> QED BY <1>4, <2>1 DEF ReadStart, TypeOK
<1>5. CASE ReadMajority(p)
  <2> DEFINE l == [proc[p] EXCEPT !.pc = "attach", !.to = majority]
  <2>1. l \in LocalState
    BY <1>0 DEF LocalState, TypeOK
  <2> QED BY <1>5, <2>1 DEF ReadMajority, TypeOK
<1>6. CASE Attach(p)
  <2>1. /\ proc[p].from \in Nat /\ proc[p].to \in Nat
        /\ epochs \in Seq(Epoch) /\ proc[p].epoch + 1 <= Len(epochs)
    <3>1. Working(proc[p])
      BY <1>6 DEF Attach, Working
    <3>2. proc[p].epoch + 1 < Len(epochs)
      BY <3>1 DEF WorksOnClosed
    <3>3. proc[p].from \in Nat /\ proc[p].to \in Nat
      BY <1>0 DEF LocalState
    <3> QED BY <1>0, <3>2, <3>3 DEF TypeOK
  <2>2. epochs' \in Seq(Epoch) /\ Len(epochs') = Len(epochs)
    <3>1. epochs' = AttachOplogHash(epochs, proc[p].epoch, proc[p].from, proc[p].to)
      BY <1>6 DEF Attach
    <3>2. epochs' \in Seq(Epoch)
      BY <1>0, <2>1, <3>1, AttachType
    <3>3. Len(epochs') = Len(epochs)
      BY <1>0, <2>1, <3>1, AttachKeeps
    <3> QED BY <3>2, <3>3
  <2>3. epochs' # <<>>
    BY <2>2, NonEmpty DEF TypeOK
  <2>4. [Local("snapshot") EXCEPT !.stage = "attach", !.epoch = proc[p].epoch] \in LocalState
    BY <1>0, LocalType DEF Pc, Stage
  <2>5. proc' \in [Process -> LocalState]
    BY <1>6, <2>4, UpdateType DEF Attach
  <2> QED BY <1>6, <2>1, <2>2, <2>3, <2>5 DEF Attach, TypeOK
<1>7. CASE AttachFails(p)
  <2>1. Continue(p, AfterAttach(p)) \in LocalState
    BY ContinueType DEF AfterAttach, Pc
  <2> QED BY <1>7, <2>1 DEF AttachFails, TypeOK
<1>8. CASE Submit(p)
  <2> DEFINE l == [Continue(p, "mark") EXCEPT !.tx = "hash"]
  <2>1. l \in LocalState
    <3>1. Continue(p, "mark") \in LocalState
      BY ContinueType DEF Pc
    <3> QED BY <3>1 DEF LocalState
  <2>2. chain' \in Seq(Anchor) /\ lost' \in BOOLEAN
    BY <1>8, AcceptType DEF Submit
  <2> QED BY <1>8, <2>1, <2>2 DEF Submit, TypeOK
<1>9. CASE SubmitUnanswered(p)
  <2>1. Local(Done(p)) \in LocalState
    BY LocalType DEF Done, Pc, Stage
  <2>2. chain' \in Seq(Anchor) /\ lost' \in BOOLEAN
    BY <1>9, AcceptType DEF SubmitUnanswered
  <2> QED BY <1>9, <2>1, <2>2 DEF SubmitUnanswered, Goto, TypeOK
<1>10. CASE SubmitFails(p)
  <2>1. Local(Done(p)) \in LocalState
    BY LocalType DEF Done, Pc, Stage
  <2> QED BY <1>10, <2>1 DEF SubmitFails, Goto, TypeOK
<1>11. CASE SubmitDuplicate(p)
  <2> DEFINE l == [proc[p] EXCEPT !.pc = "lookup"]
  <2>1. l \in LocalState
    BY <1>0 DEF LocalState
  <2> QED BY <1>11, <2>1 DEF SubmitDuplicate, TypeOK
<1>12. CASE Mark(p)
  <2>1. /\ proc[p].tx \in {"none", "empty", "hash"}
        /\ epochs \in Seq(Epoch) /\ proc[p].epoch + 1 <= Len(epochs)
    <3>1. Working(proc[p])
      BY <1>12 DEF Mark, Working
    <3>2. proc[p].epoch + 1 < Len(epochs)
      BY <3>1 DEF WorksOnClosed
    <3>3. proc[p].tx \in {"none", "empty", "hash"}
      BY <1>0 DEF LocalState
    <3> QED BY <1>0, <3>2, <3>3 DEF TypeOK
  <2>2. epochs' \in Seq(Epoch) /\ Len(epochs') = Len(epochs)
    <3>1. epochs' = MarkCommitted(epochs, proc[p].epoch, proc[p].tx)
      BY <1>12 DEF Mark
    <3> QED BY <1>0, <2>1, <3>1, MarkChanges
  <2>3. epochs' # <<>>
    BY <2>2, NonEmpty DEF TypeOK
  <2>4. [Local("snapshot") EXCEPT !.stage = "mark", !.epoch = proc[p].epoch] \in LocalState
    BY <1>0, LocalType DEF Pc, Stage
  <2>5. proc' \in [Process -> LocalState]
    BY <1>12, <2>4, UpdateType DEF Mark
  <2> QED BY <1>12, <2>2, <2>3, <2>5 DEF Mark, TypeOK
<1> QED BY <1>1, <1>2, <1>3, <1>4, <1>5, <1>6, <1>7, <1>8, <1>9, <1>10, <1>11, <1>12
        DEF ProcessStep, SaveSteps, AttachSteps, CommitSteps

(* The steps of the loop, of requests and of the surroundings. *)
LEMMA TypeStep ==
  ASSUME TypeOK, WorksOnClosed, [Next]_vars
  PROVE  TypeOK'
<1> USE DEF world, manager, history
<1>0. "auto" \in Process /\ \A q \in Request : q \in Process
  BY DEF Process
<1>1. CASE Record
  BY <1>1 DEF Record, TypeOK
<1>2. CASE AdvanceMajority
  BY <1>2 DEF AdvanceMajority, TypeOK
<1>3. CASE Boot
  <2>1. Local("sync") \in LocalState
    BY LocalType DEF Pc, Stage
  <2> QED BY <1>0, <1>3, <2>1 DEF Boot, Goto, TypeOK
<1>4. CASE Sync
  <2>1. Grows(epochs, epochs')
    BY <1>4, SyncGrows DEF Sync, TypeOK
  <2>2. epochs' \in Seq(Epoch) /\ epochs' # <<>>
    BY <2>1, NonEmpty DEF Grows, TypeOK
  <2>3. [Local("snapshot") EXCEPT !.stage = "sync"] \in LocalState
    BY LocalType DEF Pc, Stage
  <2>4. proc' \in [Process -> LocalState]
    BY <1>0, <1>4, <2>3, SaveClosedType, UpdateType DEF Sync
  <2> QED BY <1>4, <2>2, <2>4 DEF Sync, TypeOK
<1>5. CASE Tick
  BY <1>5 DEF Tick, TypeOK
<1>6. CASE Feed
  <2>1. loop.at \in Nat /\ loop' \in [at : Nat, upto : Nat]
    BY <1>6 DEF Feed, TypeOK
  <2>2. Grows(epochs, epochs')
    BY <1>6, <2>1, RecordGrows DEF Feed, TypeOK
  <2>3. epochs' \in Seq(Epoch) /\ epochs' # <<>>
    BY <2>2, NonEmpty DEF Grows, TypeOK
  <2>4. proc' \in [Process -> LocalState]
    BY <1>0, <1>6, SaveClosedType DEF Feed, TypeOK
  <2> QED BY <1>6, <2>1, <2>3, <2>4 DEF Feed, TypeOK
<1>7. CASE PublishBatch
  <2> DEFINE n == proc["auto"].epoch
  <2>1. n \in Nat /\ n + 1 \in 1..Len(epochs) /\ epochs[n + 1] \in Epoch
    <3>1. Working(proc["auto"])
      BY <1>7 DEF PublishBatch, Working
    <3>2. n + 1 < Len(epochs)
      BY <1>0, <3>1 DEF WorksOnClosed
    <3>3. n \in Nat /\ epochs \in Seq(Epoch)
      BY <1>0 DEF TypeOK, LocalState
    <3> QED BY <3>2, <3>3
  <2>2. cids' \subseteq Nat
    BY <1>7, <2>1 DEF PublishBatch, TypeOK
  <2>3. [proc["auto"] EXCEPT !.pc = "submit", !.view = epochs[n + 1], !.cid = (n \in cids')]
          \in LocalState
    <3>1. proc["auto"] \in LocalState /\ (n \in cids') \in BOOLEAN
      BY <1>0 DEF TypeOK
    <3> QED BY <2>1, <3>1, ViewType
  <2>4. proc' \in [Process -> LocalState]
    BY <1>0, <1>7, <2>3, UpdateType DEF PublishBatch
  <2> QED BY <1>7, <2>2, <2>4 DEF PublishBatch, TypeOK
<1>8. ASSUME NEW p \in Process, ProcessStep(p)
      PROVE  TypeOK'
  BY <1>8, ProcessTypeStep
<1>9. ASSUME NEW q \in Request, Lookup(q)
      PROVE  TypeOK'
  <2>1. [Continue(q, "mark") EXCEPT !.tx = "empty"] \in LocalState
    <3>1. Continue(q, "mark") \in LocalState
      BY <1>0, ContinueType DEF Pc
    <3> QED BY <3>1 DEF LocalState
  <2>2. Local("idle") \in LocalState
    BY LocalType DEF Pc, Stage
  <2> QED BY <1>0, <1>9, <2>1, <2>2 DEF Lookup, Goto, TypeOK
<1>10. ASSUME NEW q \in Request, CloseEpoch(q)
       PROVE  TypeOK'
  <2>1. Grows(epochs, epochs')
    BY <1>10, CloseCurrentGrows DEF CloseEpoch, TypeOK
  <2>2. epochs' \in Seq(Epoch) /\ epochs' # <<>>
    BY <2>1, NonEmpty DEF Grows, TypeOK
  <2>3. proc' \in [Process -> LocalState]
    BY <1>0, <1>10, SaveClosedType DEF CloseEpoch
  <2> QED BY <1>10, <2>2, <2>3 DEF CloseEpoch, NewRequest, TypeOK
<1>11. ASSUME NEW q \in Request, NEW n \in 0..MaxLeaves, CommitEpoch(q, n)
       PROVE  TypeOK'
  <2>1. n \in Nat /\ epochs[n + 1] \in Epoch
    BY <1>11, DaemonAssumption DEF CommitEpoch, TypeOK
  <2>2. [Local("submit") EXCEPT !.epoch = n, !.view = epochs[n + 1], !.cid = (n \in cids)]
          \in LocalState
    <3>1. Local("submit") \in LocalState
      BY LocalType DEF Pc, Stage
    <3>2. (n \in cids) \in BOOLEAN
      OBVIOUS
    <3> QED BY <2>1, <3>1, <3>2, ViewType
  <2>3. proc' \in [Process -> LocalState]
    BY <1>0, <1>11, <2>2, UpdateType DEF CommitEpoch
  <2> QED BY <1>11, <2>3 DEF CommitEpoch, NewRequest, TypeOK
<1>12. ASSUME NEW q \in Request, NEW n \in 0..MaxLeaves, PublishIpfs(q, n)
       PROVE  TypeOK'
  BY <1>12, DaemonAssumption DEF PublishIpfs, NewRequest, TypeOK
<1>13. CASE Crash
  <2>1. Local("idle") \in LocalState
    BY LocalType DEF Pc, Stage
  <2>2. proc' \in [Process -> LocalState]
    BY <1>13, <2>1 DEF Crash
  <2>3. lost' \in BOOLEAN
    BY <1>13, Zenon DEF Crash, TypeOK
  <2>4. epochs' \in Seq(Epoch) /\ epochs' # <<>> /\ file' \in SavedState
    BY <1>13, FreshType DEF Crash, TypeOK
  <2> QED BY <1>13, <2>2, <2>3, <2>4 DEF Crash, TypeOK
<1>14. CASE Restart
  <2>1. Local("boot") \in LocalState
    BY LocalType DEF Pc, Stage
  <2> QED BY <1>0, <1>14, <2>1 DEF Restart, Goto, TypeOK, SavedState
<1>15. CASE UNCHANGED vars
  BY <1>15 DEF vars, TypeOK
<1> QED BY <1>0, <1>1, <1>2, <1>3, <1>4, <1>5, <1>6, <1>7, <1>8, <1>9, <1>10, <1>11, <1>12,
           <1>13, <1>14, <1>15 DEF Next, AutoStep

-----------------------------------------------------------------------------
(* The inductive invariant for the coverage of the oplog *)

(* A process in local state l has closed l.epoch and has yet to attach a   *)
(* range to it.                                                            *)
Closing(l) ==
  \/ l.pc \in {"read_start", "read_majority", "attach"}
  \/ l.pc \in {"snapshot", "write"} /\ l.stage = "close"

(* A list of epochs and the start of its next range leave no gap, and the  *)
(* last epoch is open and has no range and no mark yet.                    *)
Sound(list, next) ==
  /\ IsOpen(list[Len(list)])
  /\ list[Len(list)].oplog = NoRange
  /\ list[Len(list)].committed = FALSE
  /\ Covered(list, next)

SavesSound ==
  \A p \in Process : proc[p].pc = "write" => Sound(proc[p].save.epochs, proc[p].save.next)

(* Each epoch is given its range once, by the process that closed it ...   *)
ClosingOnce ==
  \A p \in Process : Closing(proc[p]) =>
    /\ epochs[proc[p].epoch + 1].oplog = NoRange
    /\ \A q \in Process \ {p} : Closing(proc[q]) => proc[q].epoch # proc[p].epoch

(* ... and starts where the ranges before it leave no gap.                 *)
StartsCovered ==
  \A p \in Process :
    proc[p].pc \in {"read_majority", "attach"} => Covered(epochs, proc[p].from)

CoverInv ==
  /\ TypeOK
  /\ WorksOnClosed
  /\ Sound(epochs, nextOplog)
  /\ Sound(file.epochs, file.next)
  /\ SavesSound
  /\ ClosingOnce
  /\ StartsCovered

-----------------------------------------------------------------------------
(* What preserves it *)

LEMMA GrowsSound ==
  ASSUME NEW es \in Seq(Epoch), es # <<>>, NEW new, Grows(es, new),
         es[Len(es)].oplog = NoRange, es[Len(es)].committed = FALSE, IsOpen(es[Len(es)])
  PROVE  /\ new[Len(new)].oplog = NoRange /\ new[Len(new)].committed = FALSE
         /\ IsOpen(new[Len(new)])
         /\ \A k \in Nat : Covered(es, k) => Covered(new, k)
         /\ \A i \in 1..(Len(es) - 1) : new[i] = es[i]
         /\ Len(es) <= Len(new)
         /\ new[Len(es)].oplog = NoRange /\ new[Len(es)].committed = FALSE
<1>1. Len(es) \in Nat \ {0} /\ Len(new) \in Nat
  BY NonEmpty DEF Grows
<1>2. /\ new[Len(new)].oplog = NoRange /\ new[Len(new)].committed = FALSE
      /\ IsOpen(new[Len(new)])
      /\ \A i \in 1..(Len(es) - 1) : new[i] = es[i]
      /\ Len(es) <= Len(new)
      /\ new[Len(es)].oplog = NoRange /\ new[Len(es)].committed = FALSE
  BY <1>1 DEF Grows, IsOpen
<1>3. ASSUME NEW k \in Nat, Covered(es, k), NEW t \in 0..(k - 1)
      PROVE  \E i \in 1..Len(new) : new[i].oplog.from <= t /\ t < new[i].oplog.to
  <2>1. PICK i \in 1..Len(es) : es[i].oplog.from <= t /\ t < es[i].oplog.to
    BY <1>3 DEF Covered
  <2>2. i # Len(es)
    BY <2>1 DEF NoRange, None
  <2>3. i \in 1..Len(new) /\ new[i] = es[i]
    BY <1>1, <1>2, <2>2
  <2> QED BY <2>1, <2>3
<1> QED BY <1>2, <1>3 DEF Covered

(* Two local states that differ in nothing an invariant looks at. *)
Same(l, m) ==
  /\ l.pc = m.pc /\ l.epoch = m.epoch /\ l.stage = m.stage
  /\ l.from = m.from /\ l.save = m.save /\ l.view = m.view

(* A step of process p: what has to be shown of p and of the lists for the *)
(* invariant to hold of all processes.                                     *)
LEMMA CoverStep ==
  ASSUME CoverInv, TypeOK', NEW p \in Process,
         \A q \in Process \ {p} : Same(proc'[q], proc[q]),
         Sound(epochs', nextOplog'),
         Sound(file'.epochs, file'.next),
         Len(epochs) <= Len(epochs'),
         \A k \in Nat : Covered(epochs, k) => Covered(epochs', k),
         \A i \in 1..(Len(epochs) - 1) :
           \/ epochs'[i].oplog = epochs[i].oplog
           \/ Closing(proc[p]) /\ i = proc[p].epoch + 1,
         Working(proc'[p]) => proc'[p].epoch + 1 < Len(epochs'),
         proc'[p].pc = "write" => Sound(proc'[p].save.epochs, proc'[p].save.next),
         proc'[p].pc \in {"read_majority", "attach"} => Covered(epochs', proc'[p].from),
         Closing(proc'[p]) =>
           /\ epochs'[proc'[p].epoch + 1].oplog = NoRange
           /\ \/ proc'[p].epoch = Len(epochs) - 1
              \/ Closing(proc[p]) /\ proc'[p].epoch = proc[p].epoch
  PROVE  CoverInv'
<1>1. /\ Len(epochs) \in Nat \ {0} /\ Len(epochs') \in Nat
      /\ \A q \in Process : proc[q].epoch \in Nat /\ proc'[q].epoch \in Nat
      /\ \A q \in Process : proc[q].from \in Nat
  BY NonEmpty DEF CoverInv, TypeOK, LocalState
<1>2. \A q \in Process \ {p} :
        /\ Working(proc'[q]) <=> Working(proc[q])
        /\ Closing(proc'[q]) <=> Closing(proc[q])
        /\ proc'[q].epoch = proc[q].epoch
  BY DEF Same, Working, Closing
<1>3. \A q \in Process : Closing(proc[q]) => Working(proc[q])
  BY DEF Closing, Working
<1>4. WorksOnClosed'
  BY <1>1, <1>2 DEF CoverInv, WorksOnClosed
<1>5. SavesSound'
  BY DEF CoverInv, SavesSound, Same
<1>6. StartsCovered'
  <2> SUFFICES ASSUME NEW q \in Process, proc'[q].pc \in {"read_majority", "attach"}
               PROVE  Covered(epochs', proc'[q].from)
    BY DEF StartsCovered
  <2>1. CASE q # p
    <3>1. proc[q].pc \in {"read_majority", "attach"} /\ proc'[q].from = proc[q].from
      BY <2>1 DEF Same
    <3>2. Covered(epochs, proc[q].from)
      BY <3>1 DEF CoverInv, StartsCovered
    <3> QED BY <1>1, <3>1, <3>2
  <2> QED BY <2>1
<1>7. ClosingOnce'
  <2>1. ASSUME NEW q \in Process \ {p}, Closing(proc[q])
        PROVE  /\ epochs'[proc[q].epoch + 1].oplog = NoRange
               /\ Closing(proc'[p]) => proc[q].epoch # proc'[p].epoch
    <3>1. proc[q].epoch + 1 < Len(epochs) /\ epochs[proc[q].epoch + 1].oplog = NoRange
      BY <1>3, <2>1 DEF CoverInv, WorksOnClosed, ClosingOnce
    <3>2. Closing(proc[p]) => proc[q].epoch # proc[p].epoch
      BY <2>1 DEF CoverInv, ClosingOnce
    <3>3. proc[q].epoch + 1 \in 1..(Len(epochs) - 1)
      BY <1>1, <3>1
    <3>4. \/ epochs'[proc[q].epoch + 1].oplog = epochs[proc[q].epoch + 1].oplog
          \/ Closing(proc[p]) /\ proc[q].epoch + 1 = proc[p].epoch + 1
      BY <3>3
    <3>5. epochs'[proc[q].epoch + 1].oplog = NoRange
      BY <1>1, <3>1, <3>2, <3>4
    <3>6. Closing(proc'[p]) => proc[q].epoch # proc'[p].epoch
      BY <1>1, <3>1, <3>2
    <3> QED BY <3>5, <3>6
  <2> SUFFICES ASSUME NEW q \in Process, Closing(proc'[q])
               PROVE  /\ epochs'[proc'[q].epoch + 1].oplog = NoRange
                      /\ \A r \in Process \ {q} : Closing(proc'[r]) =>
                           proc'[r].epoch # proc'[q].epoch
    BY DEF ClosingOnce
  <2>2. CASE q = p
    BY <1>2, <2>1, <2>2
  <2>3. CASE q # p
    <3>1. Closing(proc[q]) /\ proc'[q].epoch = proc[q].epoch
      BY <1>2, <2>3
    <3>2. ASSUME NEW r \in Process \ {q}, Closing(proc'[r])
          PROVE  proc'[r].epoch # proc'[q].epoch
      <4>1. CASE r = p
        BY <2>1, <2>3, <3>1, <3>2, <4>1
      <4>2. CASE r # p
        <5>1. Closing(proc[r]) /\ proc'[r].epoch = proc[r].epoch
          BY <1>2, <3>2, <4>2
        <5> QED BY <3>1, <5>1 DEF CoverInv, ClosingOnce
      <4> QED BY <4>1, <4>2
    <3> QED BY <2>1, <2>3, <3>1, <3>2
  <2> QED BY <2>2, <2>3
<1> QED BY <1>4, <1>5, <1>6, <1>7 DEF CoverInv

(* A step of p that changes neither the epochs nor the file. *)
LEMMA QuietCover ==
  ASSUME CoverInv, TypeOK', NEW p \in Process, NEW l,
         proc' = [proc EXCEPT ![p] = l],
         UNCHANGED <<epochs, nextOplog, file>>,
         Working(l) => l.epoch + 1 < Len(epochs),
         l.pc = "write" => Sound(l.save.epochs, l.save.next),
         l.pc \in {"read_majority", "attach"} => Covered(epochs, l.from),
         Closing(l) => Closing(proc[p]) /\ l.epoch = proc[p].epoch
  PROVE  CoverInv'
<1>1. proc'[p] = l /\ \A q \in Process \ {p} : proc'[q] = proc[q]
  BY DEF CoverInv, TypeOK
<1>2. \A q \in Process \ {p} : Same(proc'[q], proc[q])
  BY <1>1 DEF Same
<1>3. Closing(l) => epochs[l.epoch + 1].oplog = NoRange
  BY DEF CoverInv, ClosingOnce
<1>4. Sound(epochs', nextOplog') /\ Sound(file'.epochs, file'.next)
  BY DEF CoverInv
<1>5. Len(epochs) <= Len(epochs')
  BY NonEmpty DEF CoverInv, TypeOK
<1> QED BY <1>1, <1>2, <1>3, <1>4, <1>5, CoverStep

(* A call that may have closed an epoch for p. *)
LEMMA CloseCover ==
  ASSUME CoverInv, TypeOK', NEW p \in Process, Grows(epochs, epochs'),
         UNCHANGED <<nextOplog, file>>,
         \/ Len(epochs') > Len(epochs) /\ SaveClosed(p)
         \/ UNCHANGED proc /\ proc[p].pc = "feed"
         \/ proc' = [proc EXCEPT ![p] = [Local("snapshot") EXCEPT !.stage = "sync"]]
  PROVE  CoverInv'
<1>1. /\ Sound(epochs', nextOplog')
      /\ \A k \in Nat : Covered(epochs, k) => Covered(epochs', k)
      /\ \A i \in 1..(Len(epochs) - 1) : epochs'[i] = epochs[i]
      /\ Len(epochs) <= Len(epochs')
      /\ epochs'[Len(epochs)].oplog = NoRange
  BY GrowsSound DEF CoverInv, TypeOK, Sound
<1>2. Len(epochs) \in Nat \ {0} /\ Len(epochs') \in Nat
  BY NonEmpty DEF CoverInv, TypeOK
<1>3. \A q \in Process \ {p} : Same(proc'[q], proc[q])
  BY DEF Same, SaveClosed, CoverInv, TypeOK
<1>4. Sound(file'.epochs, file'.next)
  BY DEF CoverInv
<1>5. CASE Len(epochs') > Len(epochs) /\ SaveClosed(p)
  <2>1. /\ proc'[p].pc = "snapshot" /\ proc'[p].stage = "close"
        /\ proc'[p].epoch = Len(epochs) - 1
    BY <1>5 DEF SaveClosed, Local, CoverInv, TypeOK
  <2>2. proc'[p].epoch + 1 = Len(epochs)
    BY <1>2, <2>1
  <2> QED BY <1>1, <1>2, <1>3, <1>4, <1>5, <2>1, <2>2, CoverStep
<1>6. CASE UNCHANGED proc /\ proc[p].pc = "feed"
  <2>1. ~Working(proc'[p]) /\ ~Closing(proc'[p])
    BY <1>6 DEF Working, Closing
  <2> QED BY <1>1, <1>3, <1>4, <1>6, <2>1, CoverStep
<1>7. CASE proc' = [proc EXCEPT ![p] = [Local("snapshot") EXCEPT !.stage = "sync"]]
  <2>1. proc'[p].pc = "snapshot" /\ proc'[p].stage = "sync"
    BY <1>7 DEF Local, CoverInv, TypeOK
  <2>2. ~Working(proc'[p]) /\ ~Closing(proc'[p])
    BY <2>1 DEF Working, Closing
  <2> QED BY <1>1, <1>3, <1>4, <2>1, <2>2, CoverStep
<1> QED BY <1>5, <1>6, <1>7

(* What the local states that processes go to are about. *)
LEMMA LocalFacts ==
  ASSUME NEW pc \in Pc
  PROVE  /\ Local(pc).pc = pc /\ Local(pc).stage = "none" /\ Local(pc).epoch = 0
         /\ \A n : [Local(pc) EXCEPT !.epoch = n].pc = pc
         /\ \A n : [Local(pc) EXCEPT !.epoch = n].epoch = n
         /\ \A n : [Local(pc) EXCEPT !.epoch = n].stage = "none"
BY DEF Local

LEMMA ContinueFacts ==
  ASSUME TypeOK, NEW p \in Process, NEW pc \in Pc
  PROVE  /\ Continue(p, pc).pc = pc
         /\ pc \notin {"feed", "idle"} => Continue(p, pc).epoch = proc[p].epoch
BY LocalFacts DEF Continue

LEMMA MarkFacts ==
  ASSUME TypeOK, NEW p \in Process
  PROVE  \A x : /\ [Continue(p, "mark") EXCEPT !.tx = x].pc = "mark"
                /\ [Continue(p, "mark") EXCEPT !.tx = x].epoch = proc[p].epoch
<1>1. Continue(p, "mark") \in LocalState
  BY ContinueType DEF Pc
<1>2. Continue(p, "mark").pc = "mark" /\ Continue(p, "mark").epoch = proc[p].epoch
  BY ContinueFacts DEF Pc
<1> QED BY <1>1, <1>2 DEF LocalState

LEMMA NoFileSound == Sound(NoFile.epochs, NoFile.next)
BY DEF Sound, NoFile, Fresh, NewEpoch, Covered, IsOpen

(* A saving process in the middle of its work on epoch n. *)
LEMMA SavingFacts ==
  ASSUME NEW s \in Stage, NEW n
  PROVE  /\ [Local("snapshot") EXCEPT !.stage = s, !.epoch = n].pc = "snapshot"
         /\ [Local("snapshot") EXCEPT !.stage = s, !.epoch = n].stage = s
         /\ [Local("snapshot") EXCEPT !.stage = s, !.epoch = n].epoch = n
BY DEF Local

(* The range that is attached begins where everything before is covered,   *)
(* and replaces none.                                                      *)
LEMMA AttachCover ==
  ASSUME CoverInv, TypeOK', NEW p \in Process, Attach(p)
  PROVE  CoverInv'
<1> DEFINE n == proc[p].epoch
           f == proc[p].from
           g == proc[p].to
<1>1. /\ TypeOK /\ n \in Nat /\ f \in Nat /\ g \in Nat
      /\ epochs \in Seq(Epoch) /\ epochs' \in Seq(Epoch) /\ epochs # <<>>
  BY DEF CoverInv, TypeOK, LocalState
<1>2. Working(proc[p]) /\ Closing(proc[p]) /\ proc[p].pc = "attach"
  BY DEF Attach, Working, Closing
<1>3. /\ n + 1 < Len(epochs) /\ epochs[n + 1].oplog = NoRange /\ Covered(epochs, f)
  BY <1>2 DEF CoverInv, WorksOnClosed, ClosingOnce, StartsCovered
<1>4. /\ epochs' = AttachOplogHash(epochs, n, f, g) /\ nextOplog' = g /\ file' = file
      /\ proc' = [proc EXCEPT ![p] = [Local("snapshot") EXCEPT !.stage = "attach",
                                                               !.epoch = n]]
  BY DEF Attach
<1>5. /\ Len(epochs') = Len(epochs)
      /\ \A i \in 1..Len(epochs) : i # n + 1 => epochs'[i] = epochs[i]
      /\ epochs'[n + 1].oplog = [from |-> f, to |-> g]
  <2> HIDE DEF n, f, g
  <2>1. Len(epochs) \in Nat /\ n + 1 <= Len(epochs)
    BY <1>1, <1>3
  <2>2. /\ Len(epochs') = Len(epochs)
        /\ \A i \in 1..Len(epochs) : i # n + 1 => epochs'[i] = epochs[i]
    BY <1>1, <1>4, <2>1, AttachKeeps
  <2>3. epochs'[n + 1].oplog = [from |-> f, to |-> g]
    BY <1>1, <1>4, <2>1, AttachRange
  <2> QED BY <2>2, <2>3
<1> HIDE DEF n, f, g
<1>6. \A k \in Nat : Covered(epochs, k) => Covered(epochs', k)
  <2> SUFFICES ASSUME NEW k \in Nat, Covered(epochs, k), NEW t \in 0..(k - 1)
               PROVE  \E i \in 1..Len(epochs') :
                        epochs'[i].oplog.from <= t /\ t < epochs'[i].oplog.to
    BY DEF Covered
  <2>1. PICK i \in 1..Len(epochs) : epochs[i].oplog.from <= t /\ t < epochs[i].oplog.to
    BY DEF Covered
  <2>2. i # n + 1
    BY <1>3, <2>1 DEF NoRange, None
  <2> QED BY <1>5, <2>1, <2>2
<1>7. Covered(epochs', g)
  <2> SUFFICES ASSUME NEW t \in 0..(g - 1)
               PROVE  \E i \in 1..Len(epochs') :
                        epochs'[i].oplog.from <= t /\ t < epochs'[i].oplog.to
    BY DEF Covered
  <2>1. CASE t < f
    <3>1. t \in 0..(f - 1)
      BY <1>1, <2>1
    <3>2. Covered(epochs', f)
      BY <1>1, <1>3, <1>6
    <3> QED BY <3>1, <3>2 DEF Covered
  <2>2. CASE ~(t < f)
    <3>1. n + 1 \in 1..Len(epochs')
      BY <1>1, <1>3, <1>5
    <3>2. epochs'[n + 1].oplog.from <= t /\ t < epochs'[n + 1].oplog.to
      BY <1>1, <1>5, <2>2
    <3> QED BY <3>1, <3>2
  <2> QED BY <2>1, <2>2
<1>8. Sound(epochs', nextOplog')
  <2>1. epochs'[Len(epochs')] = epochs[Len(epochs)]
    BY <1>1, <1>3, <1>5, NonEmpty
  <2> QED BY <1>4, <1>7, <2>1 DEF CoverInv, Sound
<1>9. /\ proc'[p].pc = "snapshot" /\ proc'[p].stage = "attach" /\ proc'[p].epoch = n
      /\ \A q \in Process \ {p} : Same(proc'[q], proc[q])
  <2>1. proc'[p] = [Local("snapshot") EXCEPT !.stage = "attach", !.epoch = n]
        /\ \A q \in Process \ {p} : proc'[q] = proc[q]
    BY <1>1, <1>4 DEF TypeOK
  <2> QED BY <2>1, SavingFacts DEF Same, Stage
<1>10. ~Closing(proc'[p])
  BY <1>9 DEF Closing
<1>11. \A i \in 1..(Len(epochs) - 1) :
         \/ epochs'[i].oplog = epochs[i].oplog
         \/ Closing(proc[p]) /\ i = proc[p].epoch + 1
  BY <1>1, <1>2, <1>5 DEF n
<1>12. Sound(file'.epochs, file'.next) /\ Len(epochs) <= Len(epochs')
  BY <1>1, <1>4, <1>5, NonEmpty DEF CoverInv
<1> QED BY <1>3, <1>5, <1>6, <1>8, <1>9, <1>10, <1>11, <1>12, CoverStep

LEMMA MarkCover ==
  ASSUME CoverInv, TypeOK', NEW p \in Process, Mark(p)
  PROVE  CoverInv'
<1> DEFINE n == proc[p].epoch
           x == proc[p].tx
<1>1. /\ TypeOK /\ n \in Nat /\ x \in {"none", "empty", "hash"}
      /\ epochs \in Seq(Epoch) /\ epochs' \in Seq(Epoch) /\ epochs # <<>>
  BY DEF CoverInv, TypeOK, LocalState
<1>2. n + 1 < Len(epochs)
  BY DEF Mark, Working, CoverInv, WorksOnClosed
<1>3. /\ epochs' = MarkCommitted(epochs, n, x)
      /\ UNCHANGED <<nextOplog, file>>
      /\ proc' = [proc EXCEPT ![p] = [Local("snapshot") EXCEPT !.stage = "mark",
                                                               !.epoch = n]]
  BY DEF Mark, history, world
<1>4. /\ Len(epochs') = Len(epochs)
      /\ \A i \in 1..Len(epochs) : i # n + 1 => epochs'[i] = epochs[i]
      /\ epochs'[n + 1].oplog = epochs[n + 1].oplog
  <2> HIDE DEF n, x
  <2>1. Len(epochs) \in Nat /\ n + 1 <= Len(epochs)
    BY <1>1, <1>2
  <2>2. \A m \in Nat, y \in {"none", "empty", "hash"} :
          m + 1 <= Len(epochs) =>
            /\ Len(MarkCommitted(epochs, m, y)) = Len(epochs)
            /\ \A i \in 1..Len(epochs) : i # m + 1 =>
                 MarkCommitted(epochs, m, y)[i] = epochs[i]
            /\ MarkCommitted(epochs, m, y)[m + 1].oplog = epochs[m + 1].oplog
    BY <1>1, MarkChanges
  <2> QED BY <1>1, <1>3, <2>1, <2>2
<1> HIDE DEF n
<1>5. \A i \in 1..Len(epochs) : epochs'[i].oplog = epochs[i].oplog
  BY <1>4
<1>6. \A k \in Nat : Covered(epochs, k) => Covered(epochs', k)
  BY <1>4, <1>5 DEF Covered
<1>7. Sound(epochs', nextOplog')
  <2>1. epochs'[Len(epochs')] = epochs[Len(epochs)]
    BY <1>1, <1>2, <1>4, NonEmpty
  <2>2. Covered(epochs', nextOplog')
    BY <1>1, <1>3, <1>6 DEF CoverInv, Sound, TypeOK
  <2> QED BY <2>1, <2>2 DEF CoverInv, Sound
<1>8. /\ proc'[p].pc = "snapshot" /\ proc'[p].stage = "mark" /\ proc'[p].epoch = n
      /\ \A q \in Process \ {p} : Same(proc'[q], proc[q])
  <2>1. proc'[p] = [Local("snapshot") EXCEPT !.stage = "mark", !.epoch = n]
        /\ \A q \in Process \ {p} : proc'[q] = proc[q]
    BY <1>1, <1>3 DEF TypeOK
  <2> QED BY <2>1, SavingFacts DEF Same, Stage
<1>9. ~Closing(proc'[p])
  BY <1>8 DEF Closing
<1>10. Sound(file'.epochs, file'.next) /\ Len(epochs) <= Len(epochs')
  BY <1>1, <1>3, <1>4, NonEmpty DEF CoverInv
<1>11. /\ Len(epochs) \in Nat
       /\ \A i \in 1..(Len(epochs) - 1) : epochs'[i].oplog = epochs[i].oplog
  BY <1>1, <1>5
<1> QED BY <1>2, <1>4, <1>6, <1>7, <1>8, <1>9, <1>10, <1>11, CoverStep

-----------------------------------------------------------------------------
(* Every step preserves it *)

LEMMA ProcessCover ==
  ASSUME CoverInv, TypeOK', NEW p \in Process, ProcessStep(p)
  PROVE  CoverInv'
<1> USE DEF world, manager, history
<1>0. TypeOK /\ proc[p] \in LocalState /\ proc[p].epoch \in Nat
  BY DEF CoverInv, TypeOK, LocalState
<1>w. Working(proc[p]) => proc[p].epoch + 1 < Len(epochs)
  BY DEF CoverInv, WorksOnClosed
<1>1. CASE Snapshot(p)
  <2> DEFINE l == [proc[p] EXCEPT !.pc = "write", !.old = FALSE,
                                  !.save = [epochs |-> epochs, next |-> nextOplog]]
  <2>1. proc' = [proc EXCEPT ![p] = l] /\ UNCHANGED <<epochs, nextOplog, file>>
    BY <1>1 DEF Snapshot
  <2>2. /\ l.pc = "write" /\ l.stage = proc[p].stage /\ l.epoch = proc[p].epoch
        /\ l.save.epochs = epochs /\ l.save.next = nextOplog
    BY <1>0 DEF LocalState
  <2> HIDE DEF l
  <2>3. /\ Working(l) => Working(proc[p])
        /\ Closing(l) => Closing(proc[p])
    BY <1>1, <2>2 DEF Snapshot, Working, Closing
  <2>4. Sound(l.save.epochs, l.save.next)
    BY <2>2 DEF CoverInv
  <2> QED BY <1>w, <2>1, <2>2, <2>3, <2>4, QuietCover
<1>2. CASE Write(p)
  <2> DEFINE next == CASE proc[p].stage = "sync" -> "feed"
                       [] proc[p].stage = "close" -> "read_start"
                       [] proc[p].stage = "attach" -> AfterAttach(p)
                       [] OTHER -> Done(p)
  <2>1. /\ next \in {"feed", "idle", "publish", "read_start"}
        /\ next = "read_start" => proc[p].stage = "close"
        /\ next = "publish" => proc[p].stage = "attach"
    BY DEF AfterAttach, Done
  <2>2. /\ proc[p].pc = "write" /\ file' = proc[p].save
        /\ proc' = [q \in Process |->
                     IF q = p THEN Continue(p, next)
                     ELSE IF proc[q].pc = "write" THEN [proc[q] EXCEPT !.old = TRUE]
                     ELSE proc[q]]
        /\ UNCHANGED <<epochs, nextOplog>>
    BY <1>2 DEF Write
  <2> HIDE DEF next
  <2>3. proc'[p].pc = next
        /\ (next \notin {"feed", "idle"} => proc'[p].epoch = proc[p].epoch)
    BY <1>0, <2>1, <2>2, ContinueFacts DEF Pc
  <2>4. \A q \in Process \ {p} : Same(proc'[q], proc[q])
    <3> TAKE q \in Process \ {p}
    <3>1. proc[q] \in LocalState
      BY <1>0 DEF TypeOK
    <3>2. proc'[q] = [proc[q] EXCEPT !.old = TRUE] \/ proc'[q] = proc[q]
      BY <2>2
    <3> QED BY <3>1, <3>2 DEF Same, LocalState
  <2>5. Sound(file'.epochs, file'.next)
    BY <2>2 DEF CoverInv, SavesSound
  <2>6. /\ Closing(proc'[p]) => Closing(proc[p]) /\ proc'[p].epoch = proc[p].epoch
        /\ Working(proc'[p]) => Working(proc[p]) /\ proc'[p].epoch = proc[p].epoch
    BY <2>1, <2>2, <2>3 DEF Closing, Working
  <2>7. Closing(proc[p]) => epochs[proc[p].epoch + 1].oplog = NoRange
    BY DEF CoverInv, ClosingOnce
  <2>8. Sound(epochs', nextOplog') /\ Len(epochs) <= Len(epochs')
    BY <1>0, <2>2, NonEmpty DEF CoverInv, TypeOK
  <2> QED BY <1>w, <2>1, <2>2, <2>3, <2>4, <2>5, <2>6, <2>7, <2>8, CoverStep
<1>3. CASE WriteFails(p)
  <2> DEFINE next == CASE proc[p].stage = "attach" -> AfterAttach(p)
                       [] OTHER -> Done(p)
  <2>1. /\ next \in {"feed", "idle", "publish"}
        /\ next = "publish" => proc[p].stage = "attach"
    BY DEF AfterAttach, Done
  <2>2. /\ proc[p].pc = "write" /\ file' \in {file, NoFile}
        /\ proc' = [proc EXCEPT ![p] = Continue(p, next)]
        /\ UNCHANGED <<epochs, nextOplog>>
    BY <1>3 DEF WriteFails
  <2> HIDE DEF next
  <2>3. proc'[p].pc = next
        /\ (next \notin {"feed", "idle"} => proc'[p].epoch = proc[p].epoch)
    BY <1>0, <2>1, <2>2, ContinueFacts DEF Pc, TypeOK
  <2>4. \A q \in Process \ {p} : Same(proc'[q], proc[q])
    BY <1>0, <2>2 DEF Same, TypeOK
  <2>5. Sound(file'.epochs, file'.next)
    BY <2>2, NoFileSound DEF CoverInv
  <2>6. /\ ~Closing(proc'[p])
        /\ Working(proc'[p]) => Working(proc[p]) /\ proc'[p].epoch = proc[p].epoch
    BY <2>1, <2>2, <2>3 DEF Closing, Working
  <2>8. Sound(epochs', nextOplog') /\ Len(epochs) <= Len(epochs')
    BY <1>0, <2>2, NonEmpty DEF CoverInv, TypeOK
  <2> QED BY <1>w, <2>1, <2>2, <2>3, <2>4, <2>5, <2>6, <2>8, CoverStep
<1>4. CASE ReadStart(p)
  <2> DEFINE l == [proc[p] EXCEPT !.pc = "read_majority", !.from = nextOplog]
  <2>1. /\ proc[p].pc = "read_start" /\ proc' = [proc EXCEPT ![p] = l]
        /\ UNCHANGED <<epochs, nextOplog, file>>
    BY <1>4 DEF ReadStart
  <2>2. l.pc = "read_majority" /\ l.epoch = proc[p].epoch /\ l.from = nextOplog
    BY <1>0 DEF LocalState
  <2> HIDE DEF l
  <2>3. Working(proc[p]) /\ Closing(proc[p])
    BY <2>1 DEF Working, Closing
  <2>4. Covered(epochs, l.from)
    BY <2>2 DEF CoverInv, Sound
  <2> QED BY <1>w, <2>1, <2>2, <2>3, <2>4, QuietCover
<1>5. CASE ReadMajority(p)
  <2> DEFINE l == [proc[p] EXCEPT !.pc = "attach", !.to = majority]
  <2>1. /\ proc[p].pc = "read_majority" /\ proc' = [proc EXCEPT ![p] = l]
        /\ UNCHANGED <<epochs, nextOplog, file>>
    BY <1>5 DEF ReadMajority
  <2>2. l.pc = "attach" /\ l.epoch = proc[p].epoch /\ l.from = proc[p].from
    BY <1>0 DEF LocalState
  <2> HIDE DEF l
  <2>3. Working(proc[p]) /\ Closing(proc[p])
    BY <2>1 DEF Working, Closing
  <2>4. Covered(epochs, l.from)
    BY <2>1, <2>2 DEF CoverInv, StartsCovered
  <2> QED BY <1>w, <2>1, <2>2, <2>3, <2>4, QuietCover
<1>6. CASE Attach(p)
  BY <1>6, AttachCover
<1>7. CASE AttachFails(p)
  <2> DEFINE l == Continue(p, AfterAttach(p))
  <2>1. /\ proc[p].pc \in {"read_majority", "attach"} /\ proc' = [proc EXCEPT ![p] = l]
        /\ UNCHANGED <<epochs, nextOplog, file>>
    BY <1>7 DEF AttachFails
  <2>2. l.pc \in {"publish", "idle"} /\ (l.pc = "publish" => l.epoch = proc[p].epoch)
    BY <1>0, ContinueFacts DEF AfterAttach, Pc
  <2> HIDE DEF l
  <2>3. Working(proc[p]) /\ ~Closing(l) /\ (Working(l) => l.pc = "publish")
    BY <2>1, <2>2 DEF Working, Closing
  <2> QED BY <1>w, <2>1, <2>2, <2>3, QuietCover
<1>8. CASE Submit(p)
  <2> DEFINE l == [Continue(p, "mark") EXCEPT !.tx = "hash"]
  <2>1. /\ proc[p].pc = "submit" /\ proc' = [proc EXCEPT ![p] = l]
        /\ UNCHANGED <<epochs, nextOplog, file>>
    BY <1>8 DEF Submit
  <2>2. l.pc = "mark" /\ l.epoch = proc[p].epoch
    BY <1>0, MarkFacts
  <2> HIDE DEF l
  <2>3. Working(proc[p]) /\ ~Closing(l)
    BY <2>1, <2>2 DEF Working, Closing
  <2> QED BY <1>w, <2>1, <2>2, <2>3, QuietCover
<1>9. CASE SubmitUnanswered(p) \/ SubmitFails(p)
  <2> DEFINE l == Local(Done(p))
  <2>1. proc' = [proc EXCEPT ![p] = l] /\ UNCHANGED <<epochs, nextOplog, file>>
    BY <1>9 DEF SubmitUnanswered, SubmitFails, Goto
  <2>2. l.pc \in {"feed", "idle"}
    BY LocalFacts DEF Done, Pc
  <2> HIDE DEF l
  <2>3. ~Working(l) /\ ~Closing(l)
    BY <2>2 DEF Working, Closing
  <2> QED BY <2>1, <2>2, <2>3, QuietCover
<1>11. CASE SubmitDuplicate(p)
  <2> DEFINE l == [proc[p] EXCEPT !.pc = "lookup"]
  <2>1. /\ proc[p].pc = "submit" /\ proc' = [proc EXCEPT ![p] = l]
        /\ UNCHANGED <<epochs, nextOplog, file>>
    BY <1>11 DEF SubmitDuplicate
  <2>2. l.pc = "lookup" /\ l.epoch = proc[p].epoch
    BY <1>0 DEF LocalState
  <2> HIDE DEF l
  <2>3. Working(proc[p]) /\ ~Closing(l)
    BY <2>1, <2>2 DEF Working, Closing
  <2> QED BY <1>w, <2>1, <2>2, <2>3, QuietCover
<1>12. CASE Mark(p)
  BY <1>12, MarkCover
<1> QED BY <1>1, <1>2, <1>3, <1>4, <1>5, <1>6, <1>7, <1>8, <1>9, <1>11, <1>12
        DEF ProcessStep, SaveSteps, AttachSteps, CommitSteps

(* Nothing runs while the daemon is down. *)
IdleWhenDown == mode = "down" => \A p \in Process : proc[p].pc = "idle"

LEMMA IdleStep ==
  ASSUME TypeOK, IdleWhenDown, [Next]_vars
  PROVE  IdleWhenDown'
<1> USE DEF world, manager, history
<1>0. "auto" \in Process /\ \A q \in Request : q \in Process
  BY DEF Process
<1>1. ASSUME NEW p \in Process, proc[p].pc # "idle", UNCHANGED mode
      PROVE  IdleWhenDown'
  BY <1>1 DEF IdleWhenDown
<1>2. ASSUME NEW p \in Process, ProcessStep(p)
      PROVE  proc[p].pc # "idle" /\ UNCHANGED mode
  BY <1>2 DEF ProcessStep, SaveSteps, AttachSteps, CommitSteps, Snapshot, Write, WriteFails,
              ReadStart, ReadMajority, Attach, AttachFails, Submit, SubmitUnanswered,
              SubmitFails, SubmitDuplicate, Mark
<1>3. CASE Boot \/ Sync \/ Tick \/ Feed \/ PublishBatch
  BY <1>0, <1>1, <1>3 DEF Boot, Sync, Tick, Feed, PublishBatch
<1>4. ASSUME NEW q \in Request, Lookup(q)
      PROVE  IdleWhenDown'
  BY <1>0, <1>1, <1>4 DEF Lookup
<1>5. ASSUME NEW q \in Request,
             CloseEpoch(q) \/ \E n \in 0..MaxLeaves : CommitEpoch(q, n) \/ PublishIpfs(q, n)
      PROVE  IdleWhenDown'
  BY <1>5 DEF CloseEpoch, CommitEpoch, PublishIpfs, NewRequest, IdleWhenDown
<1>6. CASE Record \/ AdvanceMajority \/ Restart \/ UNCHANGED vars
  BY <1>6 DEF Record, AdvanceMajority, Restart, vars, IdleWhenDown
<1>7. CASE Crash
  <2>1. \A p \in Process : proc'[p].pc = "idle"
    BY <1>7, LocalFacts DEF Crash, Pc
  <2> QED BY <2>1 DEF IdleWhenDown
<1>8. \/ Boot \/ Sync \/ Tick \/ Feed \/ PublishBatch
      \/ Record \/ AdvanceMajority \/ Restart \/ UNCHANGED vars
      \/ Crash
      \/ \E p \in Process : ProcessStep(p)
      \/ \E q \in Request : Lookup(q)
      \/ \E q \in Request : \/ CloseEpoch(q)
                           \/ \E n \in 0..MaxLeaves : CommitEpoch(q, n) \/ PublishIpfs(q, n)
  BY <1>0 DEF Next, AutoStep
<1> QED BY <1>1, <1>2, <1>3, <1>4, <1>5, <1>6, <1>7, <1>8

LEMMA CoverInvStep ==
  ASSUME CoverInv, IdleWhenDown, [Next]_vars
  PROVE  CoverInv'
<1> USE DEF world, manager, history
<1>0. /\ TypeOK /\ TypeOK' /\ "auto" \in Process /\ \A q \in Request : q \in Process
  BY TypeStep DEF CoverInv, Process
<1>1. CASE \/ Record \/ AdvanceMajority \/ Tick
           \/ \E q \in Request, n \in 0..MaxLeaves : PublishIpfs(q, n)
  <2>1. UNCHANGED <<epochs, nextOplog, file, proc>>
    BY <1>1 DEF Record, AdvanceMajority, Tick, PublishIpfs
  <2> QED BY <1>0, <2>1 DEF CoverInv, WorksOnClosed, SavesSound, ClosingOnce, StartsCovered
<1>2. CASE Boot
  <2>1. /\ proc' = [proc EXCEPT !["auto"] = Local("sync")]
        /\ UNCHANGED <<epochs, nextOplog, file>>
    BY <1>2 DEF Boot, Goto
  <2>2. Local("sync").pc = "sync"
    BY LocalFacts DEF Pc
  <2>3. ~Working(Local("sync")) /\ ~Closing(Local("sync"))
    BY <2>2 DEF Working, Closing
  <2> QED BY <1>0, <2>1, <2>2, <2>3, QuietCover
<1>3. CASE Sync
  <2>1. Grows(epochs, epochs')
    BY <1>0, <1>3, SyncGrows DEF Sync, TypeOK
  <2>2. UNCHANGED <<nextOplog, file>>
    BY <1>3 DEF Sync
  <2>3. \/ Len(epochs') > Len(epochs) /\ SaveClosed("auto")
        \/ proc' = [proc EXCEPT !["auto"] = [Local("snapshot") EXCEPT !.stage = "sync"]]
    BY <1>3 DEF Sync
  <2> QED BY <1>0, <2>1, <2>2, <2>3, CloseCover
<1>4. CASE Feed
  <2>1. Grows(epochs, epochs')
    BY <1>0, <1>4, RecordGrows DEF Feed, TypeOK
  <2>2. UNCHANGED <<nextOplog, file>>
    BY <1>4 DEF Feed
  <2>3. \/ Len(epochs') > Len(epochs) /\ SaveClosed("auto")
        \/ UNCHANGED proc /\ proc["auto"].pc = "feed"
    BY <1>4 DEF Feed
  <2> QED BY <1>0, <2>1, <2>2, <2>3, CloseCover
<1>5. CASE PublishBatch
  <2> DEFINE n == proc["auto"].epoch
             b == (n \in cids')
             l == [proc["auto"] EXCEPT !.pc = "submit", !.view = epochs[n + 1], !.cid = b]
  <2>1. /\ proc["auto"].pc = "publish" /\ proc' = [proc EXCEPT !["auto"] = l]
        /\ UNCHANGED <<epochs, nextOplog, file>>
    BY <1>5 DEF PublishBatch
  <2>2. l.pc = "submit" /\ l.epoch = n
    <3>1. proc["auto"] \in LocalState
      BY <1>0 DEF TypeOK
    <3> HIDE DEF b
    <3> QED BY <3>1 DEF LocalState
  <2>3. n + 1 < Len(epochs)
    BY <1>0, <2>1 DEF Working, CoverInv, WorksOnClosed
  <2> HIDE DEF l, n
  <2>4. ~Closing(l)
    BY <2>2 DEF Closing
  <2> QED BY <1>0, <2>1, <2>2, <2>3, <2>4, QuietCover
<1>6. ASSUME NEW p \in Process, ProcessStep(p)
      PROVE  CoverInv'
  BY <1>0, <1>6, ProcessCover
<1>7. ASSUME NEW q \in Request, Lookup(q)
      PROVE  CoverInv'
  <2>1. PICK l \in {[Continue(q, "mark") EXCEPT !.tx = "empty"], Local("idle")} :
          proc' = [proc EXCEPT ![q] = l]
    BY <1>7 DEF Lookup, Goto
  <2>2. proc[q].pc = "lookup" /\ UNCHANGED <<epochs, nextOplog, file>>
    BY <1>7 DEF Lookup
  <2>3. l.pc \in {"mark", "idle"} /\ (l.pc = "mark" => l.epoch = proc[q].epoch)
    <3>1. q \in Process /\ TypeOK
      BY <1>0 DEF CoverInv
    <3>2. /\ [Continue(q, "mark") EXCEPT !.tx = "empty"].pc = "mark"
          /\ [Continue(q, "mark") EXCEPT !.tx = "empty"].epoch = proc[q].epoch
      BY <3>1, MarkFacts
    <3>3. Local("idle").pc = "idle"
      BY LocalFacts DEF Pc
    <3> QED BY <3>2, <3>3
  <2>4. proc[q].epoch + 1 < Len(epochs)
    BY <1>0, <2>2 DEF Working, CoverInv, WorksOnClosed
  <2>5. ~Closing(l) /\ (Working(l) => l.pc = "mark")
    BY <2>3 DEF Closing, Working
  <2> QED BY <1>0, <2>1, <2>2, <2>3, <2>4, <2>5, QuietCover
<1>8. ASSUME NEW q \in Request, CloseEpoch(q)
      PROVE  CoverInv'
  <2>1. Grows(epochs, epochs')
    BY <1>0, <1>8, CloseCurrentGrows DEF CloseEpoch, TypeOK
  <2>2. UNCHANGED <<nextOplog, file>> /\ Len(epochs') > Len(epochs) /\ SaveClosed(q)
    BY <1>8 DEF CloseEpoch
  <2> QED BY <1>0, <2>1, <2>2, CloseCover
<1>9. ASSUME NEW q \in Request, NEW n \in 0..MaxLeaves, CommitEpoch(q, n)
      PROVE  CoverInv'
  <2> DEFINE l == [Local("submit") EXCEPT !.epoch = n, !.view = epochs[n + 1],
                                          !.cid = (n \in cids)]
  <2>1. /\ proc' = [proc EXCEPT ![q] = l] /\ UNCHANGED <<epochs, nextOplog, file>>
        /\ n + 1 \in DOMAIN epochs /\ ~IsOpen(epochs[n + 1])
    BY <1>9 DEF CommitEpoch
  <2>2. l.pc = "submit" /\ l.epoch = n
    BY DEF Local
  <2>3. n + 1 < Len(epochs)
    <3>1. n + 1 # Len(epochs)
      BY <2>1 DEF CoverInv, Sound
    <3>2. epochs \in Seq(Epoch)
      BY <1>0 DEF TypeOK
    <3> QED BY <2>1, <3>1, <3>2
  <2> HIDE DEF l
  <2>4. ~Closing(l)
    BY <2>2 DEF Closing
  <2> QED BY <1>0, <2>1, <2>2, <2>3, <2>4, QuietCover
<1>10. CASE Crash
  <2>1. /\ epochs' = Fresh /\ nextOplog' = 0 /\ file' \in {file, NoFile}
        /\ proc' = [p \in Process |-> Local("idle")]
    BY <1>10 DEF Crash
  <2>2. \A p \in Process : proc'[p].pc = "idle" /\ ~Working(proc'[p]) /\ ~Closing(proc'[p])
    BY <2>1, LocalFacts DEF Pc, Working, Closing
  <2>3. Sound(epochs', nextOplog') /\ Sound(file'.epochs, file'.next)
    BY <2>1, NoFileSound DEF CoverInv, NoFile
  <2> QED BY <1>0, <2>2, <2>3
          DEF CoverInv, WorksOnClosed, SavesSound, ClosingOnce, StartsCovered
<1>11. CASE Restart
  <2>1. /\ mode = "down" /\ epochs' = file.epochs /\ nextOplog' = file.next
        /\ proc' = [proc EXCEPT !["auto"] = Local("boot")] /\ file' = file
    BY <1>11 DEF Restart, Goto
  <2>2. \A p \in Process : proc'[p].pc \in {"idle", "boot"}
    <3>1. Local("boot").pc = "boot"
      BY LocalFacts DEF Pc
    <3> QED BY <1>0, <2>1, <3>1 DEF IdleWhenDown, TypeOK
  <2>3. \A p \in Process : ~Working(proc'[p]) /\ ~Closing(proc'[p])
    BY <2>2 DEF Working, Closing
  <2>4. Sound(epochs', nextOplog') /\ Sound(file'.epochs, file'.next)
    BY <2>1 DEF CoverInv
  <2> QED BY <1>0, <2>2, <2>3, <2>4
          DEF CoverInv, WorksOnClosed, SavesSound, ClosingOnce, StartsCovered
<1>12. CASE UNCHANGED vars
  <2>1. UNCHANGED <<epochs, nextOplog, file, proc>>
    BY <1>12 DEF vars
  <2> QED BY <1>0, <2>1 DEF CoverInv, WorksOnClosed, SavesSound, ClosingOnce, StartsCovered
<1> QED BY <1>0, <1>1, <1>2, <1>3, <1>4, <1>5, <1>6, <1>7, <1>8, <1>9, <1>10, <1>11, <1>12
        DEF Next, AutoStep

LEMMA CoverInit == Init => CoverInv /\ IdleWhenDown
<1> SUFFICES ASSUME Init PROVE CoverInv /\ IdleWhenDown
  OBVIOUS
<1>1. TypeOK
  BY TypeInit
<1>2. \A p \in Process : proc[p].pc \in {"boot", "idle"}
  BY LocalFacts DEF Init, Pc
<1>3. \A p \in Process : ~Working(proc[p]) /\ ~Closing(proc[p])
  BY <1>2 DEF Working, Closing
<1>4. Sound(epochs, nextOplog) /\ Sound(file.epochs, file.next)
  BY NoFileSound DEF Init, NoFile
<1> QED BY <1>1, <1>2, <1>3, <1>4
        DEF Init, CoverInv, IdleWhenDown, WorksOnClosed, SavesSound, ClosingOnce, StartsCovered

LEMMA CoverAlways == Spec => [](CoverInv /\ IdleWhenDown)
<1>1. CoverInv /\ IdleWhenDown /\ [Next]_vars => (CoverInv /\ IdleWhenDown)'
  BY CoverInvStep, IdleStep DEF CoverInv
<1> QED BY <1>1, CoverInit, PTL DEF Spec

(* Whatever the loop, the requests, the disk, the chain and crashes do,    *)
(* the manager's state and its file stay well typed; in particular there   *)
(* is always a last epoch, the one every handler works on (epochs.last()). *)
THEOREM TypeCorrect == Spec => []TypeOK
<1>1. CoverInv => TypeOK
  BY DEF CoverInv
<1> QED BY <1>1, CoverAlways, PTL

(* The oplog ranges of the epochs leave no gap before the start of the     *)
(* next range, in memory and in epochs.json, for any number of processes   *)
(* that attach ranges at once and of crashes between their steps.          *)
THEOREM OplogAlwaysCovered == Spec => []OplogCovered
<1>1. CoverInv => OplogCovered
  BY DEF CoverInv, Sound, OplogCovered
<1> QED BY <1>1, CoverAlways, PTL

-----------------------------------------------------------------------------
(* Epochs: one marked committed is on the chain, they cut the log into     *)
(* consecutive ranges, and what the chain holds for an epoch is what a     *)
(* restarted daemon has for it.  What follows rests on CoverInv: a process *)
(* works on a closed epoch, and the open one has no mark.                  *)
-----------------------------------------------------------------------------
(* Marks *)

Holds(anchors, root) == \E i \in 1..Len(anchors) : anchors[i].root = root

Marked(list, anchors) ==
  \A i \in 1..Len(list) : list[i].committed => Holds(anchors, list[i].root)

(* A process that holds a copy of its epoch submits the root the epoch is  *)
(* frozen with; one that is about to mark it knows that root is held.      *)
MarkReady(l, list, anchors) ==
  /\ l.pc = "write" => Marked(l.save.epochs, anchors)
  /\ l.pc \in {"submit", "lookup"} => l.view.root = list[l.epoch + 1].root
  /\ l.pc = "mark" => Holds(anchors, list[l.epoch + 1].root)

MarksInv ==
  /\ Marked(epochs, chain)
  /\ Marked(file.epochs, chain)
  /\ \A p \in Process : MarkReady(proc[p], epochs, chain)

LEMMA MarkedKept ==
  ASSUME NEW a, NEW b, \A r : Holds(a, r) => Holds(b, r), NEW list, Marked(list, a)
  PROVE  Marked(list, b)
BY DEF Marked

LEMMA NoFileMarked ==
  ASSUME NEW a
  PROVE  Marked(Fresh, a) /\ Marked(NoFile.epochs, a)
BY DEF Marked, Fresh, NoFile, NewEpoch

(* The contract's list only grows. *)
LEMMA AppendHolds ==
  ASSUME NEW a \in Seq(Anchor), NEW x \in Anchor
  PROVE  /\ \A r : Holds(a, r) => Holds(Append(a, x), r)
         /\ Holds(Append(a, x), x.root)
<1> DEFINE b == Append(a, x)
<1>1. /\ Len(a) \in Nat /\ Len(b) = Len(a) + 1 /\ b[Len(a) + 1] = x
      /\ \A i \in 1..Len(a) : b[i] = a[i]
  OBVIOUS
<1> HIDE DEF b
<1>2. Len(a) + 1 \in 1..Len(b) /\ \A i \in 1..Len(a) : i \in 1..Len(b)
  BY <1>1
<1>3. \A r : Holds(a, r) => Holds(b, r)
  BY <1>1, <1>2 DEF Holds
<1>4. Holds(b, x.root)
  BY <1>1, <1>2 DEF Holds
<1> QED BY <1>3, <1>4 DEF b

(* A step of process p: what has to be shown of p and of the lists. *)
LEMMA MarksStep ==
  ASSUME CoverInv, MarksInv, NEW p \in Process,
         \A q \in Process \ {p} : Same(proc'[q], proc[q]),
         \A r : Holds(chain, r) => Holds(chain', r),
         \A i \in 1..(Len(epochs) - 1) : epochs'[i].root = epochs[i].root,
         Marked(epochs', chain'),
         Marked(file'.epochs, chain'),
         MarkReady(proc'[p], epochs', chain')
  PROVE  MarksInv'
<1>1. ASSUME NEW q \in Process \ {p}
      PROVE  MarkReady(proc'[q], epochs', chain')
  <2>1. Same(proc'[q], proc[q]) /\ MarkReady(proc[q], epochs, chain)
    BY DEF MarksInv
  <2>2. CASE proc[q].pc = "write"
    <3>1. Marked(proc[q].save.epochs, chain)
      BY <2>1, <2>2 DEF MarkReady
    <3>2. Marked(proc[q].save.epochs, chain')
      BY <3>1, MarkedKept
    <3> QED BY <2>1, <2>2, <3>2 DEF Same, MarkReady
  <2>3. CASE proc[q].pc \in {"submit", "lookup", "mark"}
    <3>1. proc[q].epoch + 1 < Len(epochs)
      BY <2>3 DEF CoverInv, WorksOnClosed, Working
    <3>2. proc[q].epoch \in Nat /\ Len(epochs) \in Nat
      BY DEF CoverInv, TypeOK, LocalState
    <3>3. epochs'[proc[q].epoch + 1].root = epochs[proc[q].epoch + 1].root
      BY <3>1, <3>2
    <3> QED BY <2>1, <2>3, <3>3 DEF Same, MarkReady
  <2>4. CASE proc[q].pc \notin {"write", "submit", "lookup", "mark"}
    BY <2>1, <2>4 DEF Same, MarkReady
  <2> QED BY <2>2, <2>3, <2>4
<1> QED BY <1>1 DEF MarksInv

(* A step of p that leaves the epochs and the file alone. *)
LEMMA QuietMarks ==
  ASSUME CoverInv, MarksInv, NEW p \in Process, NEW l,
         proc' = [proc EXCEPT ![p] = l],
         UNCHANGED <<epochs, file>>,
         \A r : Holds(chain, r) => Holds(chain', r),
         MarkReady(l, epochs, chain')
  PROVE  MarksInv'
<1>1. proc'[p] = l /\ \A q \in Process \ {p} : Same(proc'[q], proc[q])
  BY DEF CoverInv, TypeOK, Same
<1>2. Marked(epochs', chain') /\ Marked(file'.epochs, chain')
  BY MarkedKept DEF MarksInv
<1>3. MarkReady(proc'[p], epochs', chain')
  BY <1>1
<1> QED BY <1>1, <1>2, <1>3, MarksStep

(* A call that may have closed an epoch for p. *)
LEMMA CloseMarks ==
  ASSUME CoverInv, MarksInv, NEW p \in Process, Grows(epochs, epochs'),
         UNCHANGED <<file, chain>>,
         \/ SaveClosed(p)
         \/ UNCHANGED proc
         \/ proc' = [proc EXCEPT ![p] = [Local("snapshot") EXCEPT !.stage = "sync"]],
         proc'[p].pc \in {"snapshot", "feed"}
  PROVE  MarksInv'
<1>1. /\ \A i \in 1..(Len(epochs) - 1) : epochs'[i] = epochs[i]
      /\ epochs'[Len(epochs)].committed = FALSE
      /\ epochs'[Len(epochs')].committed = FALSE
  BY GrowsSound DEF CoverInv, TypeOK, Sound
<1>2. /\ Len(epochs) \in Nat \ {0}
      /\ Len(epochs') = Len(epochs) \/ Len(epochs') = Len(epochs) + 1
  BY NonEmpty DEF CoverInv, TypeOK, Grows
<1>3. Marked(epochs', chain')
  <2> SUFFICES ASSUME NEW i \in 1..Len(epochs'), epochs'[i].committed
               PROVE  Holds(chain', epochs'[i].root)
    BY DEF Marked
  <2>1. i \in 1..(Len(epochs) - 1)
    BY <1>1, <1>2
  <2>2. i \in 1..Len(epochs)
    BY <1>2, <2>1
  <2> QED BY <1>1, <2>1, <2>2 DEF MarksInv, Marked
<1>4. \A q \in Process \ {p} : Same(proc'[q], proc[q])
  BY DEF Same, SaveClosed, CoverInv, TypeOK
<1>5. Marked(file'.epochs, chain')
  BY DEF MarksInv
<1>6. MarkReady(proc'[p], epochs', chain')
  BY DEF MarkReady
<1> QED BY <1>1, <1>3, <1>4, <1>5, <1>6, MarksStep

(* A process that is not writing and not between reading and marking its   *)
(* epoch promises nothing.                                                 *)
LEMMA ReadyElsewhere ==
  ASSUME NEW l, l.pc \notin {"write", "submit", "lookup", "mark"}, NEW list, NEW a
  PROVE  MarkReady(l, list, a)
BY DEF MarkReady

(* What is appended to the chain is the root of the epoch worked on. *)
LEMMA AcceptHolds ==
  ASSUME CoverInv, MarksInv, NEW p \in Process, proc[p].pc = "submit", Accept(p)
  PROVE  /\ \A r : Holds(chain, r) => Holds(chain', r)
         /\ Holds(chain', epochs[proc[p].epoch + 1].root)
<1> DEFINE x == [root |-> proc[p].view.root, epoch |-> proc[p].epoch,
                 oplog |-> proc[p].view.oplog, cid |-> proc[p].cid]
<1>1. /\ proc[p].view \in Epoch /\ proc[p].epoch \in Nat /\ proc[p].cid \in BOOLEAN
      /\ chain \in Seq(Anchor)
  BY DEF CoverInv, TypeOK, LocalState
<1>2. x \in Anchor
  BY <1>1 DEF Epoch, Anchor
<1>3. chain' = Append(chain, x) /\ x.root = proc[p].view.root
  BY DEF Accept
<1>4. proc[p].view.root = epochs[proc[p].epoch + 1].root
  BY DEF MarksInv, MarkReady
<1> HIDE DEF x
<1>5. /\ \A r : Holds(chain, r) => Holds(Append(chain, x), r)
      /\ Holds(Append(chain, x), x.root)
  BY <1>1, <1>2, AppendHolds
<1> QED BY <1>3, <1>4, <1>5

LEMMA AttachMarks ==
  ASSUME CoverInv, MarksInv, NEW p \in Process, Attach(p)
  PROVE  MarksInv'
<1> USE DEF world, history
<1> DEFINE n == proc[p].epoch
           f == proc[p].from
           g == proc[p].to
<1>1. /\ TypeOK /\ n \in Nat /\ f \in Nat /\ g \in Nat /\ epochs \in Seq(Epoch)
  BY DEF CoverInv, TypeOK, LocalState
<1>2. n + 1 < Len(epochs)
  BY DEF Attach, Working, CoverInv, WorksOnClosed
<1>3. /\ epochs' = AttachOplogHash(epochs, n, f, g) /\ UNCHANGED <<file, chain>>
      /\ proc' = [proc EXCEPT ![p] = [Local("snapshot") EXCEPT !.stage = "attach",
                                                               !.epoch = n]]
  BY DEF Attach
<1> HIDE DEF n, f, g
<1>4. Len(epochs) \in Nat /\ n + 1 <= Len(epochs)
  BY <1>1, <1>2
<1>5. /\ Len(epochs') = Len(epochs)
      /\ \A i \in 1..Len(epochs) : i # n + 1 => epochs'[i] = epochs[i]
      /\ epochs'[n + 1].root = epochs[n + 1].root
      /\ epochs'[n + 1].committed = epochs[n + 1].committed
  BY <1>1, <1>3, <1>4, AttachKeeps
<1>6. \A i \in 1..Len(epochs) :
        epochs'[i].root = epochs[i].root /\ epochs'[i].committed = epochs[i].committed
  BY <1>5
<1>7. Marked(epochs', chain') /\ Marked(file'.epochs, chain')
  BY <1>3, <1>5, <1>6 DEF MarksInv, Marked
<1>8. proc'[p].pc = "snapshot" /\ \A q \in Process \ {p} : Same(proc'[q], proc[q])
  <2>1. proc'[p] = [Local("snapshot") EXCEPT !.stage = "attach", !.epoch = n]
        /\ \A q \in Process \ {p} : proc'[q] = proc[q]
    BY <1>1, <1>3 DEF TypeOK
  <2> QED BY <2>1, SavingFacts DEF Same, Stage
<1>9. MarkReady(proc'[p], epochs', chain')
  BY <1>8 DEF MarkReady
<1>10. \A i \in 1..(Len(epochs) - 1) : epochs'[i].root = epochs[i].root
  BY <1>4, <1>6
<1> QED BY <1>3, <1>7, <1>8, <1>9, <1>10, MarksStep

LEMMA MarkMarks ==
  ASSUME CoverInv, MarksInv, NEW p \in Process, Mark(p)
  PROVE  MarksInv'
<1> USE DEF world, history
<1> DEFINE n == proc[p].epoch
           x == proc[p].tx
<1>1. /\ TypeOK /\ n \in Nat /\ x \in {"none", "empty", "hash"} /\ epochs \in Seq(Epoch)
  BY DEF CoverInv, TypeOK, LocalState
<1>2. n + 1 < Len(epochs) /\ Holds(chain, epochs[n + 1].root)
  BY DEF Mark, Working, CoverInv, WorksOnClosed, MarksInv, MarkReady
<1>3. /\ epochs' = MarkCommitted(epochs, n, x) /\ UNCHANGED <<file, chain>>
      /\ proc' = [proc EXCEPT ![p] = [Local("snapshot") EXCEPT !.stage = "mark",
                                                               !.epoch = n]]
  BY DEF Mark
<1> HIDE DEF n, x
<1>4. Len(epochs) \in Nat /\ n + 1 <= Len(epochs)
  BY <1>1, <1>2
<1>5. /\ Len(epochs') = Len(epochs)
      /\ \A i \in 1..Len(epochs) : i # n + 1 => epochs'[i] = epochs[i]
      /\ epochs'[n + 1].root = epochs[n + 1].root
  BY <1>1, <1>3, <1>4, MarkChanges
<1>6. Marked(epochs', chain') /\ Marked(file'.epochs, chain')
  BY <1>2, <1>3, <1>5 DEF MarksInv, Marked
<1>7. proc'[p].pc = "snapshot" /\ \A q \in Process \ {p} : Same(proc'[q], proc[q])
  <2>1. proc'[p] = [Local("snapshot") EXCEPT !.stage = "mark", !.epoch = n]
        /\ \A q \in Process \ {p} : proc'[q] = proc[q]
    BY <1>1, <1>3 DEF TypeOK
  <2> QED BY <2>1, SavingFacts DEF Same, Stage
<1>8. MarkReady(proc'[p], epochs', chain')
  BY <1>7 DEF MarkReady
<1>9. \A i \in 1..(Len(epochs) - 1) : epochs'[i].root = epochs[i].root
  BY <1>4, <1>5
<1> QED BY <1>3, <1>6, <1>7, <1>8, <1>9, MarksStep

LEMMA ProcessMarks ==
  ASSUME CoverInv, MarksInv, NEW p \in Process, ProcessStep(p)
  PROVE  MarksInv'
<1> USE DEF world, manager, history
<1>0. TypeOK /\ proc[p] \in LocalState
  BY DEF CoverInv, TypeOK
<1>r. MarkReady(proc[p], epochs, chain)
  BY DEF MarksInv
<1>1. CASE Snapshot(p)
  <2> DEFINE l == [proc[p] EXCEPT !.pc = "write", !.old = FALSE,
                                  !.save = [epochs |-> epochs, next |-> nextOplog]]
  <2>1. proc' = [proc EXCEPT ![p] = l] /\ UNCHANGED <<epochs, file, chain>>
    BY <1>1 DEF Snapshot
  <2>2. l.pc = "write" /\ l.save.epochs = epochs
    BY <1>0 DEF LocalState
  <2> HIDE DEF l
  <2>3. MarkReady(l, epochs, chain)
    BY <2>2 DEF MarkReady, MarksInv
  <2> QED BY <2>1, <2>3, QuietMarks
<1>2. CASE Write(p)
  <2> DEFINE next == CASE proc[p].stage = "sync" -> "feed"
                       [] proc[p].stage = "close" -> "read_start"
                       [] proc[p].stage = "attach" -> AfterAttach(p)
                       [] OTHER -> Done(p)
  <2>1. next \in {"feed", "idle", "publish", "read_start"}
    BY DEF AfterAttach, Done
  <2>2. /\ proc[p].pc = "write" /\ file' = proc[p].save
        /\ proc' = [q \in Process |->
                     IF q = p THEN Continue(p, next)
                     ELSE IF proc[q].pc = "write" THEN [proc[q] EXCEPT !.old = TRUE]
                     ELSE proc[q]]
        /\ UNCHANGED <<epochs, chain>>
    BY <1>2 DEF Write
  <2> HIDE DEF next
  <2>3. proc'[p].pc = next
    BY <1>0, <2>1, <2>2, ContinueFacts DEF Pc
  <2>4. \A q \in Process \ {p} : Same(proc'[q], proc[q])
    <3> TAKE q \in Process \ {p}
    <3>1. proc[q] \in LocalState
      BY <1>0 DEF TypeOK
    <3>2. proc'[q] = [proc[q] EXCEPT !.old = TRUE] \/ proc'[q] = proc[q]
      BY <2>2
    <3> QED BY <3>1, <3>2 DEF Same, LocalState
  <2>5. Marked(epochs', chain') /\ Marked(file'.epochs, chain')
    BY <1>r, <2>2 DEF MarksInv, MarkReady
  <2>6. MarkReady(proc'[p], epochs', chain')
    BY <2>1, <2>3, ReadyElsewhere
  <2> QED BY <2>2, <2>4, <2>5, <2>6, MarksStep
<1>3. CASE WriteFails(p)
  <2> DEFINE next == CASE proc[p].stage = "attach" -> AfterAttach(p)
                       [] OTHER -> Done(p)
  <2>1. next \in {"feed", "idle", "publish"}
    BY DEF AfterAttach, Done
  <2>2. /\ file' \in {file, NoFile} /\ UNCHANGED <<epochs, chain>>
        /\ proc' = [proc EXCEPT ![p] = Continue(p, next)]
    BY <1>3 DEF WriteFails
  <2> HIDE DEF next
  <2>3. proc'[p].pc = next
    BY <1>0, <2>1, <2>2, ContinueFacts DEF Pc, TypeOK
  <2>4. \A q \in Process \ {p} : Same(proc'[q], proc[q])
    BY <1>0, <2>2 DEF Same, TypeOK
  <2>5. Marked(epochs', chain') /\ Marked(file'.epochs, chain')
    BY <2>2, NoFileMarked DEF MarksInv
  <2>6. MarkReady(proc'[p], epochs', chain')
    BY <2>1, <2>3, ReadyElsewhere
  <2> QED BY <2>2, <2>4, <2>5, <2>6, MarksStep
<1>4. CASE ReadStart(p) \/ ReadMajority(p) \/ AttachFails(p) \/ SubmitFails(p)
  <2>1. PICK l \in {[proc[p] EXCEPT !.pc = "read_majority", !.from = nextOplog],
                    [proc[p] EXCEPT !.pc = "attach", !.to = majority],
                    Continue(p, AfterAttach(p)), Local(Done(p))} :
          proc' = [proc EXCEPT ![p] = l] /\ UNCHANGED <<epochs, file, chain>>
    BY <1>4 DEF ReadStart, ReadMajority, AttachFails, SubmitFails, Goto
  <2>2. /\ [proc[p] EXCEPT !.pc = "read_majority", !.from = nextOplog].pc = "read_majority"
        /\ [proc[p] EXCEPT !.pc = "attach", !.to = majority].pc = "attach"
    BY <1>0 DEF LocalState
  <2>3. Continue(p, AfterAttach(p)).pc \in {"publish", "idle"}
    BY <1>0, ContinueFacts DEF AfterAttach, Pc
  <2>4. Local(Done(p)).pc \in {"feed", "idle"}
    BY LocalFacts DEF Done, Pc
  <2>5. l.pc \in {"read_majority", "attach", "publish", "feed", "idle"}
    BY <2>2, <2>3, <2>4
  <2>6. MarkReady(l, epochs, chain)
    BY <2>5, ReadyElsewhere
  <2> QED BY <2>1, <2>6, QuietMarks
<1>5. CASE Attach(p)
  BY <1>5, AttachMarks
<1>6. CASE Submit(p)
  <2> DEFINE l == [Continue(p, "mark") EXCEPT !.tx = "hash"]
  <2>1. /\ proc[p].pc = "submit" /\ proc' = [proc EXCEPT ![p] = l] /\ Accept(p)
        /\ UNCHANGED <<epochs, file>>
    BY <1>6 DEF Submit
  <2>2. l.pc = "mark" /\ l.epoch = proc[p].epoch
    BY <1>0, MarkFacts
  <2> HIDE DEF l
  <2>3. /\ \A r : Holds(chain, r) => Holds(chain', r)
        /\ Holds(chain', epochs[proc[p].epoch + 1].root)
    BY <2>1, AcceptHolds
  <2>4. MarkReady(l, epochs, chain')
    BY <2>2, <2>3 DEF MarkReady
  <2> QED BY <2>1, <2>3, <2>4, QuietMarks
<1>7. CASE SubmitUnanswered(p)
  <2> DEFINE l == Local(Done(p))
  <2>1. /\ proc[p].pc = "submit" /\ proc' = [proc EXCEPT ![p] = l] /\ Accept(p)
        /\ UNCHANGED <<epochs, file>>
    BY <1>7 DEF SubmitUnanswered, Goto
  <2>2. l.pc \in {"feed", "idle"}
    BY LocalFacts DEF Done, Pc
  <2> HIDE DEF l
  <2>3. \A r : Holds(chain, r) => Holds(chain', r)
    BY <2>1, AcceptHolds
  <2>4. MarkReady(l, epochs, chain')
    BY <2>2, ReadyElsewhere
  <2> QED BY <2>1, <2>3, <2>4, QuietMarks
<1>8. CASE SubmitDuplicate(p)
  <2> DEFINE l == [proc[p] EXCEPT !.pc = "lookup"]
  <2>1. /\ proc[p].pc = "submit" /\ proc' = [proc EXCEPT ![p] = l]
        /\ UNCHANGED <<epochs, file, chain>>
    BY <1>8 DEF SubmitDuplicate
  <2>2. l.pc = "lookup" /\ l.epoch = proc[p].epoch /\ l.view = proc[p].view
    BY <1>0 DEF LocalState
  <2> HIDE DEF l
  <2>3. MarkReady(l, epochs, chain)
    BY <1>r, <2>1, <2>2 DEF MarkReady
  <2> QED BY <2>1, <2>3, QuietMarks
<1>9. CASE Mark(p)
  BY <1>9, MarkMarks
<1> QED BY <1>1, <1>2, <1>3, <1>4, <1>5, <1>6, <1>7, <1>8, <1>9
        DEF ProcessStep, SaveSteps, AttachSteps, CommitSteps

LEMMA MarksInvStep ==
  ASSUME CoverInv, IdleWhenDown, MarksInv, [Next]_vars
  PROVE  MarksInv'
<1> USE DEF world, manager, history
<1>0. TypeOK /\ "auto" \in Process /\ \A q \in Request : q \in Process
  BY DEF CoverInv, Process
<1>1. CASE \/ Record \/ AdvanceMajority \/ Tick \/ UNCHANGED vars
           \/ \E q \in Request, n \in 0..MaxLeaves : PublishIpfs(q, n)
  <2>1. UNCHANGED <<epochs, file, chain, proc>>
    BY <1>1 DEF Record, AdvanceMajority, Tick, PublishIpfs, vars
  <2> QED BY <2>1 DEF MarksInv
<1>2. CASE Boot
  <2>1. /\ proc' = [proc EXCEPT !["auto"] = Local("sync")]
        /\ UNCHANGED <<epochs, file, chain>>
    BY <1>2 DEF Boot, Goto
  <2>2. Local("sync").pc = "sync"
    BY LocalFacts DEF Pc
  <2>3. MarkReady(Local("sync"), epochs, chain)
    BY <2>2, ReadyElsewhere
  <2> QED BY <1>0, <2>1, <2>3, QuietMarks
<1>3. CASE Sync
  <2>1. Grows(epochs, epochs') /\ UNCHANGED <<file, chain>>
    BY <1>0, <1>3, SyncGrows DEF Sync, TypeOK
  <2>2. \/ SaveClosed("auto")
        \/ proc' = [proc EXCEPT !["auto"] = [Local("snapshot") EXCEPT !.stage = "sync"]]
    BY <1>3 DEF Sync
  <2>3. proc'["auto"].pc = "snapshot"
    BY <1>0, <2>2 DEF SaveClosed, Local, TypeOK
  <2> QED BY <1>0, <2>1, <2>2, <2>3, CloseMarks
<1>4. CASE Feed
  <2>1. Grows(epochs, epochs') /\ UNCHANGED <<file, chain>>
    BY <1>0, <1>4, RecordGrows DEF Feed, TypeOK
  <2>2. SaveClosed("auto") \/ UNCHANGED proc
    BY <1>4 DEF Feed
  <2>3. proc'["auto"].pc \in {"snapshot", "feed"}
    BY <1>0, <1>4, <2>2 DEF Feed, SaveClosed, Local, TypeOK
  <2> QED BY <1>0, <2>1, <2>2, <2>3, CloseMarks
<1>5. CASE PublishBatch
  <2> DEFINE n == proc["auto"].epoch
             b == (n \in cids')
             l == [proc["auto"] EXCEPT !.pc = "submit", !.view = epochs[n + 1], !.cid = b]
  <2>1. proc' = [proc EXCEPT !["auto"] = l] /\ UNCHANGED <<epochs, file, chain>>
    BY <1>5 DEF PublishBatch
  <2>2. l.pc = "submit" /\ l.epoch = n /\ l.view = epochs[n + 1]
    <3>1. proc["auto"] \in LocalState
      BY <1>0 DEF TypeOK
    <3> HIDE DEF b
    <3> QED BY <3>1 DEF LocalState
  <2> HIDE DEF l, n
  <2>3. MarkReady(l, epochs, chain)
    BY <2>2 DEF MarkReady
  <2> QED BY <1>0, <2>1, <2>3, QuietMarks
<1>6. ASSUME NEW p \in Process, ProcessStep(p)
      PROVE  MarksInv'
  BY <1>6, ProcessMarks
<1>7. ASSUME NEW q \in Request, Lookup(q)
      PROVE  MarksInv'
  <2> DEFINE m == [Continue(q, "mark") EXCEPT !.tx = "empty"]
  <2>1. proc[q].pc = "lookup" /\ UNCHANGED <<epochs, file, chain>>
    BY <1>7 DEF Lookup
  <2>2. m.pc = "mark" /\ m.epoch = proc[q].epoch
    BY <1>0, MarkFacts
  <2>3. \/ proc' = [proc EXCEPT ![q] = m] /\ Holds(chain, proc[q].view.root)
        \/ proc' = [proc EXCEPT ![q] = Local("idle")]
    BY <1>7 DEF Lookup, Goto, Holds
  <2> HIDE DEF m
  <2>4. proc[q].view.root = epochs[proc[q].epoch + 1].root
    BY <1>0, <2>1 DEF MarksInv, MarkReady
  <2>5. Holds(chain, proc[q].view.root) => MarkReady(m, epochs, chain)
    BY <2>2, <2>4 DEF MarkReady
  <2>6. Local("idle").pc = "idle"
    BY LocalFacts DEF Pc
  <2>7. MarkReady(Local("idle"), epochs, chain)
    BY <2>6, ReadyElsewhere
  <2>8. CASE proc' = [proc EXCEPT ![q] = m] /\ Holds(chain, proc[q].view.root)
    BY <1>0, <2>1, <2>5, <2>8, QuietMarks
  <2>9. CASE proc' = [proc EXCEPT ![q] = Local("idle")]
    BY <1>0, <2>1, <2>7, <2>9, QuietMarks
  <2> QED BY <2>3, <2>8, <2>9
<1>8. ASSUME NEW q \in Request, CloseEpoch(q)
      PROVE  MarksInv'
  <2>1. Grows(epochs, epochs') /\ UNCHANGED <<file, chain>> /\ SaveClosed(q)
    BY <1>0, <1>8, CloseCurrentGrows DEF CloseEpoch, TypeOK
  <2>2. proc'[q].pc = "snapshot"
    BY <1>0, <2>1 DEF SaveClosed, Local, TypeOK
  <2> QED BY <1>0, <2>1, <2>2, CloseMarks
<1>9. ASSUME NEW q \in Request, NEW n \in 0..MaxLeaves, CommitEpoch(q, n)
      PROVE  MarksInv'
  <2> DEFINE b == (n \in cids)
             l == [Local("submit") EXCEPT !.epoch = n, !.view = epochs[n + 1], !.cid = b]
  <2>1. proc' = [proc EXCEPT ![q] = l] /\ UNCHANGED <<epochs, file, chain>>
    BY <1>9 DEF CommitEpoch
  <2>2. l.pc = "submit" /\ l.epoch = n /\ l.view = epochs[n + 1]
    <3> HIDE DEF b
    <3> QED BY DEF Local
  <2> HIDE DEF l
  <2>3. MarkReady(l, epochs, chain)
    BY <2>2 DEF MarkReady
  <2> QED BY <1>0, <2>1, <2>3, QuietMarks
<1>10. CASE Crash
  <2>1. /\ epochs' = Fresh /\ file' \in {file, NoFile} /\ UNCHANGED chain
        /\ proc' = [p \in Process |-> Local("idle")]
    BY <1>10 DEF Crash
  <2>2. \A p \in Process : proc'[p].pc = "idle"
    BY <2>1, LocalFacts DEF Pc
  <2>3. \A p \in Process : MarkReady(proc'[p], epochs', chain')
    BY <2>2 DEF MarkReady
  <2>4. Marked(epochs', chain') /\ Marked(file'.epochs, chain')
    BY <2>1, NoFileMarked DEF MarksInv
  <2> QED BY <2>3, <2>4 DEF MarksInv
<1>11. CASE Restart
  <2>1. /\ mode = "down" /\ epochs' = file.epochs /\ UNCHANGED <<file, chain>>
        /\ proc' = [proc EXCEPT !["auto"] = Local("boot")]
    BY <1>11 DEF Restart, Goto
  <2>2. \A p \in Process : proc'[p].pc \in {"idle", "boot"}
    <3>1. Local("boot").pc = "boot"
      BY LocalFacts DEF Pc
    <3> QED BY <1>0, <2>1, <3>1 DEF IdleWhenDown, TypeOK
  <2>3. \A p \in Process : MarkReady(proc'[p], epochs', chain')
    BY <2>2 DEF MarkReady
  <2>4. Marked(epochs', chain') /\ Marked(file'.epochs, chain')
    BY <2>1 DEF MarksInv
  <2> QED BY <2>3, <2>4 DEF MarksInv
<1> QED BY <1>0, <1>1, <1>2, <1>3, <1>4, <1>5, <1>6, <1>7, <1>8, <1>9, <1>10, <1>11
        DEF Next, AutoStep

LEMMA MarksInit == Init => MarksInv
<1> SUFFICES ASSUME Init PROVE MarksInv
  OBVIOUS
<1>1. \A p \in Process : proc[p].pc \in {"boot", "idle"}
  BY LocalFacts DEF Init, Pc
<1>2. \A p \in Process : MarkReady(proc[p], epochs, chain)
  BY <1>1 DEF MarkReady
<1>3. Marked(epochs, chain) /\ Marked(file.epochs, chain)
  BY NoFileMarked DEF Init
<1> QED BY <1>2, <1>3 DEF MarksInv

(* An epoch the daemon reports as committed, in memory or in epochs.json,  *)
(* has its root in the contract: mark_committed() is reached only from an  *)
(* accepted submission of the frozen root or from a lookup that found it,  *)
(* and no crash, lost answer or concurrent request comes between.          *)
THEOREM CommittedAlwaysOnChain == Spec => []CommittedOnChain
<1>1. MarksInv => CommittedOnChain
  BY DEF MarksInv, Marked, Holds, CommittedOnChain, OnChain
<1>2. MarksInv /\ CoverInv /\ IdleWhenDown /\ [Next]_vars => MarksInv'
  BY MarksInvStep
<1> QED BY <1>1, <1>2, MarksInit, CoverAlways, PTL DEF Spec

-----------------------------------------------------------------------------
(* The epochs partition the log *)

(* Partition for a log of n events. *)
Cut(list, n) ==
  /\ list[1].start = 0
  /\ IsOpen(list[Len(list)])
  /\ list[Len(list)].start + list[Len(list)].count <= n
  /\ \A i \in 1..(Len(list) - 1) :
       /\ ~IsOpen(list[i])
       /\ list[i].start <= list[i].end /\ list[i].end < n
       /\ list[i].root = RootAfter(list[i].end)
       /\ list[i].count = list[i].end - list[i].start + 1
       /\ list[i + 1].start = list[i].end + 1

(* The index of the event the open epoch counts next. *)
Counted(list) == list[Len(list)].start + list[Len(list)].count

SameRanges(old, new) ==
  Len(new) = Len(old) /\ \A i \in 1..Len(old) : SameRange(old[i], new[i])

(* The loop is past its start. *)
Started(l) == l.pc \notin {"boot", "sync", "idle"}

(* Every list cuts the log, those on their way to the file too, and the    *)
(* open epoch has counted exactly the events the loop has fed.             *)
PartInv ==
  ~overlap =>
    /\ Cut(epochs, leaves)
    /\ Cut(file.epochs, leaves)
    /\ \A p \in Process : proc[p].pc = "write" => Cut(proc[p].save.epochs, leaves)
    /\ loop.at <= loop.upto /\ loop.upto <= leaves
    /\ proc["auto"].pc = "sync" => loop.at = loop.upto
    /\ Started(proc["auto"]) => Counted(epochs) = loop.at

-----------------------------------------------------------------------------
(* The chain and the file *)

(* b has the closed epochs of a, with their roots, and perhaps more. *)
Extends(a, b) ==
  Len(a) <= Len(b) /\ \A i \in 1..(Len(a) - 1) : b[i].root = a[i].root

(* The loop has saved the epoch it works on as closed. *)
SavedFirst(l) ==
  \/ l.pc \in {"read_start", "read_majority", "attach", "publish", "submit"}
  \/ l.pc \in {"snapshot", "write"} /\ l.stage = "attach"

Anchored(list, anchors) ==
  \A i \in 1..Len(anchors) :
    /\ anchors[i].epoch + 1 < Len(list)
    /\ list[anchors[i].epoch + 1].root = anchors[i].root

(* Snapshots that are not out of date lie between the file and the list in *)
(* memory, and what is anchored is in the file.                            *)
AnchorInv ==
  ~lost =>
    /\ Anchored(file.epochs, chain)
    /\ mode = "up" => Extends(file.epochs, epochs)
    /\ \A p \in Process : proc[p].pc = "write" /\ ~proc[p].old =>
         Extends(file.epochs, proc[p].save.epochs) /\ Extends(proc[p].save.epochs, epochs)
    /\ SavedFirst(proc["auto"]) => proc["auto"].epoch + 1 < Len(file.epochs)
    /\ proc["auto"].pc = "write" /\ proc["auto"].stage = "close" =>
         proc["auto"].epoch + 1 < Len(proc["auto"].save.epochs)

-----------------------------------------------------------------------------
(* What the epoch manager's calls do to the partition *)

LEMMA CutLater ==
  ASSUME NEW es \in Seq(Epoch), NEW n \in Nat, NEW m \in Nat, n <= m, Cut(es, n),
         es # <<>>
  PROVE  Cut(es, m)
<1>1. es[Len(es)] \in Epoch /\ \A i \in 1..(Len(es) - 1) : es[i] \in Epoch
  BY NonEmpty
<1>2. es[Len(es)].start + es[Len(es)].count <= m
  BY <1>1 DEF Cut, Epoch
<1>3. ASSUME NEW i \in 1..(Len(es) - 1)
      PROVE  es[i].end < m
  <2>1. es[i].end \in Nat
    BY <1>1 DEF Cut, IsOpen, Epoch
  <2> QED BY <2>1 DEF Cut
<1> QED BY <1>2, <1>3 DEF Cut

LEMMA CutSame ==
  ASSUME NEW es \in Seq(Epoch), es # <<>>, NEW new, SameRanges(es, new),
         NEW n, Cut(es, n)
  PROVE  Cut(new, n) /\ Counted(new) = Counted(es)
<1>1. Len(es) \in Nat \ {0} /\ Len(new) = Len(es)
  BY NonEmpty DEF SameRanges
<1>2. /\ 1 \in 1..Len(es) /\ Len(es) \in 1..Len(es)
      /\ \A i \in 1..(Len(es) - 1) : i \in 1..Len(es) /\ i + 1 \in 1..Len(es)
  BY <1>1
<1>3. \A i \in 1..Len(es) :
        /\ new[i].start = es[i].start /\ new[i].end = es[i].end
        /\ new[i].root = es[i].root /\ new[i].count = es[i].count
  BY DEF SameRanges, SameRange
<1> QED BY <1>1, <1>2, <1>3 DEF Cut, Counted, IsOpen

LEMMA FreshCut ==
  ASSUME NEW n \in Nat
  PROVE  Cut(Fresh, n) /\ Cut(NoFile.epochs, n)
<1>1. Len(Fresh) = 1 /\ Fresh[1] = NewEpoch(0)
  BY DEF Fresh
<1>2. NewEpoch(0).start = 0 /\ NewEpoch(0).count = 0 /\ NewEpoch(0).end = None
  BY DEF NewEpoch
<1>3. 1..(Len(Fresh) - 1) = {}
  BY <1>1
<1>4. Cut(Fresh, n)
  BY <1>1, <1>2, <1>3 DEF Cut, IsOpen
<1> QED BY <1>4 DEF NoFile

(* The open epoch is given a count the log bears out. *)
LEMMA CountedCut ==
  ASSUME NEW es \in Seq(Epoch), es # <<>>, NEW c \in Nat, NEW n \in Nat,
         Cut(es, n), es[Len(es)].start + c <= n,
         NEW new, new = [es EXCEPT ![Len(es)].count = c]
  PROVE  /\ Cut(new, n) /\ new \in Seq(Epoch) /\ Len(new) = Len(es)
         /\ new[Len(es)].start = es[Len(es)].start /\ new[Len(es)].count = c
<1> DEFINE e == [es[Len(es)] EXCEPT !.count = c]
<1>1. Len(es) \in Nat \ {0} /\ es[Len(es)] \in Epoch
  BY NonEmpty
<1>2. /\ e \in Epoch /\ e.start = es[Len(es)].start /\ e.count = c
      /\ e.end = es[Len(es)].end
  BY <1>1 DEF Epoch
<1>3. new = [es EXCEPT ![Len(es)] = e]
  OBVIOUS
<1>4. /\ new \in Seq(Epoch) /\ Len(new) = Len(es) /\ new[Len(es)] = e
      /\ \A i \in 1..(Len(es) - 1) : new[i] = es[i]
  <2> HIDE DEF e
  <2> QED BY <1>1, <1>2, <1>3
<1> HIDE DEF e
<1>5. \A i \in 1..Len(es) : new[i].start = es[i].start
  BY <1>1, <1>2, <1>4
<1>6. /\ 1 \in 1..Len(es)
      /\ \A i \in 1..(Len(es) - 1) : i \in 1..Len(es) /\ i + 1 \in 1..Len(es)
  BY <1>1
<1>7. Cut(new, n)
  BY <1>1, <1>2, <1>4, <1>5, <1>6 DEF Cut, IsOpen
<1> QED BY <1>2, <1>4, <1>7

(* A non-empty epoch is closed at the last event it has counted. *)
LEMMA CloseCut ==
  ASSUME NEW es \in Seq(Epoch), es # <<>>, NEW n \in Nat, Cut(es, n),
         es[Len(es)].count > 0,
         NEW end, end = es[Len(es)].start + es[Len(es)].count - 1
  PROVE  /\ Cut(CloseAt(es, end, n), n)
         /\ Counted(CloseAt(es, end, n)) = Counted(es)
<1> DEFINE o == es[Len(es)]
           e == [o EXCEPT !.end = end, !.root = FrozenRoot(end, n)]
           mid == [es EXCEPT ![Len(es)] = e]
           next == NewEpoch(end + 1)
           new == CloseAt(es, end, n)
<1>1. Len(es) \in Nat \ {0} /\ o \in Epoch
  BY NonEmpty
<1>2. o.start \in Nat /\ o.count \in Nat /\ end \in Nat /\ end < n
  <2>1. o.start \in Nat /\ o.count \in Nat
    BY <1>1 DEF Epoch
  <2>2. o.start + o.count <= n
    BY DEF Cut
  <2> QED BY <2>1, <2>2
<1>3. /\ e \in Epoch /\ e.start = o.start /\ e.count = o.count /\ e.end = end
      /\ e.root = RootAfter(end)
  <2> HIDE DEF o
  <2> QED BY <1>1, <1>2 DEF Epoch, FrozenRoot, RootAfter
<1>4. /\ mid \in Seq(Epoch) /\ Len(mid) = Len(es) /\ mid[Len(es)] = e
      /\ \A i \in 1..(Len(es) - 1) : mid[i] = es[i]
  <2> HIDE DEF e
  <2> QED BY <1>1, <1>3
<1>5. next \in Epoch /\ next.start = end + 1 /\ next.count = 0 /\ next.end = None
  <2>1. end + 1 \in Nat
    BY <1>2
  <2> QED BY <2>1, NewEpochType DEF NewEpoch
<1>6. new = Append(mid, next)
  BY DEF CloseAt
<1> HIDE DEF e, mid, next, new
<1>7. /\ Len(new) = Len(es) + 1 /\ new[Len(es) + 1] = next /\ new[Len(es)] = e
      /\ \A i \in 1..(Len(es) - 1) : new[i] = es[i]
  BY <1>1, <1>4, <1>5, <1>6
<1>8. \A i \in 1..Len(es) : new[i].start = es[i].start
  BY <1>1, <1>3, <1>7
<1>9. new[Len(new)].start + new[Len(new)].count = Counted(es)
  BY <1>1, <1>2, <1>5, <1>7 DEF Counted
<1>10. new[1].start = 0 /\ IsOpen(new[Len(new)]) /\ Counted(es) <= n
  BY <1>1, <1>5, <1>7, <1>8 DEF Cut, IsOpen, Counted
<1>11. ASSUME NEW i \in 1..(Len(new) - 1)
       PROVE  /\ ~IsOpen(new[i])
              /\ new[i].start <= new[i].end /\ new[i].end < n
              /\ new[i].root = RootAfter(new[i].end)
              /\ new[i].count = new[i].end - new[i].start + 1
              /\ new[i + 1].start = new[i].end + 1
  <2>1. CASE i = Len(es)
    <3>1. new[i] = e /\ new[i + 1] = next
      BY <1>7, <2>1
    <3>2. o.start <= end /\ o.count = end - o.start + 1 /\ end # None
      <4>1. end = o.start + o.count - 1 /\ o.count > 0
        OBVIOUS
      <4> HIDE DEF o
      <4> QED BY <1>2, <4>1 DEF None
    <3> QED BY <1>2, <1>3, <1>5, <3>1, <3>2 DEF IsOpen
  <2>2. CASE i # Len(es)
    <3>1. i \in 1..(Len(es) - 1) /\ i + 1 \in 1..Len(es)
      BY <1>1, <1>7, <2>2
    <3> QED BY <1>7, <1>8, <3>1 DEF Cut, IsOpen
  <2> QED BY <2>1, <2>2
<1>12. Cut(new, n) /\ Counted(new) = Counted(es)
  BY <1>9, <1>10, <1>11 DEF Cut, Counted
<1> QED BY <1>12 DEF new

(* record_event() of the event after the last one counted. *)
LEMMA RecordCut ==
  ASSUME NEW es \in Seq(Epoch), es # <<>>, NEW n \in Nat, Cut(es, n), Counted(es) < n,
         NEW i, i = Counted(es)
  PROVE  Cut(RecordEvent(es, i, n), n) /\ Counted(RecordEvent(es, i, n)) = i + 1
<1> DEFINE c == es[Len(es)].count + 1
           counted == [es EXCEPT ![Len(es)].count = c]
<1>0. Len(es) \in Nat \ {0} /\ es[Len(es)] \in Epoch
  BY NonEmpty
<1>1. /\ c \in Nat /\ c > 0 /\ es[Len(es)].start \in Nat
      /\ es[Len(es)].start + c <= n /\ i = es[Len(es)].start + c - 1
  <2>1. es[Len(es)].start \in Nat /\ es[Len(es)].count \in Nat
    BY <1>0 DEF Epoch
  <2> QED BY <2>1 DEF Counted
<1>2. RecordEvent(es, i, n) = CloseAt(counted, i, n) \/ RecordEvent(es, i, n) = counted
  BY DEF RecordEvent
<1> HIDE DEF c
<1>3. /\ Cut(counted, n) /\ counted \in Seq(Epoch) /\ Len(counted) = Len(es)
      /\ counted[Len(es)].start = es[Len(es)].start /\ counted[Len(es)].count = c
  BY <1>1, CountedCut
<1> HIDE DEF counted
<1>4. counted # <<>> /\ Counted(counted) = i + 1
  BY <1>0, <1>1, <1>3 DEF Counted
<1>5. Cut(CloseAt(counted, i, n), n) /\ Counted(CloseAt(counted, i, n)) = i + 1
  BY <1>1, <1>3, <1>4, CloseCut
<1> QED BY <1>2, <1>3, <1>4, <1>5

LEMMA CurrentCut ==
  ASSUME NEW es \in Seq(Epoch), es # <<>>, NEW n \in Nat, Cut(es, n)
  PROVE  Cut(CloseCurrent(es, n), n) /\ Counted(CloseCurrent(es, n)) = Counted(es)
<1> DEFINE end == es[Len(es)].start + es[Len(es)].count - 1
<1>1. CASE es[Len(es)].count > 0 /\ end < n
  <2>1. CloseCurrent(es, n) = CloseAt(es, end, n)
    BY <1>1 DEF CloseCurrent
  <2> QED BY <1>1, <2>1, CloseCut
<1>2. CASE ~(es[Len(es)].count > 0 /\ end < n)
  BY <1>2 DEF CloseCurrent
<1> QED BY <1>1, <1>2

(* sync_open_epoch_with_audit_log() counts the rest of the log. *)
LEMMA SyncCut ==
  ASSUME NEW es \in Seq(Epoch), es # <<>>, NEW n \in Nat, Cut(es, n)
  PROVE  Cut(SyncOpen(es, n), n) /\ Counted(SyncOpen(es, n)) = n
<1> DEFINE start == es[Len(es)].start
           count == IF n > start THEN n - start ELSE 0
           synced == [es EXCEPT ![Len(es)].count = count]
<1>0. Len(es) \in Nat \ {0} /\ es[Len(es)] \in Epoch
  BY NonEmpty
<1>1. start \in Nat /\ count \in Nat /\ start + count = n
  <2>1. start \in Nat /\ es[Len(es)].count \in Nat
    BY <1>0 DEF Epoch
  <2>2. start + es[Len(es)].count <= n
    BY DEF Cut
  <2> HIDE DEF start
  <2> QED BY <2>1, <2>2
<1>2. Reached(count) => count > 0
  BY <1>1, ThresholdAssumption DEF Reached
<1>3. SyncOpen(es, n) = IF Reached(count) THEN CloseAt(synced, start + count - 1, n)
                        ELSE synced
  BY DEF SyncOpen
<1> HIDE DEF count
<1>4. /\ Cut(synced, n) /\ synced \in Seq(Epoch) /\ Len(synced) = Len(es)
      /\ synced[Len(es)].start = start /\ synced[Len(es)].count = count
  <2>1. es[Len(es)].start + count <= n
    BY <1>1
  <2> QED BY <1>1, <2>1, CountedCut
<1> HIDE DEF synced, start
<1>5. synced # <<>> /\ Counted(synced) = n
  BY <1>0, <1>1, <1>4 DEF Counted
<1>6. CASE Reached(count)
  <2>1. /\ Cut(CloseAt(synced, start + count - 1, n), n)
        /\ Counted(CloseAt(synced, start + count - 1, n)) = n
    BY <1>2, <1>4, <1>5, <1>6, CloseCut
  <2> QED BY <1>3, <1>6, <2>1
<1>7. CASE ~Reached(count)
  BY <1>3, <1>4, <1>5, <1>7
<1> QED BY <1>6, <1>7

-----------------------------------------------------------------------------
(* Steps that save nothing and close no epoch *)

Calm(p) ==
  /\ SameRanges(epochs, epochs')
  /\ UNCHANGED <<mode, leaves, file, loop, overlap>>
  /\ \A q \in Process \ {p} : proc'[q] = proc[q]
  /\ proc'[p].pc # "write"
  /\ p = "auto" =>
       /\ Started(proc[p]) /\ Started(proc'[p])
       /\ SavedFirst(proc'[p]) => SavedFirst(proc[p]) /\ proc'[p].epoch = proc[p].epoch
  /\ UNCHANGED <<chain, lost>> \/ (proc[p].pc = "submit" /\ Accept(p))

LEMMA SameRangesRefl ==
  ASSUME NEW es
  PROVE  SameRanges(es, es)
BY DEF SameRanges, SameRange

LEMMA CalmAttach ==
  ASSUME CoverInv, NEW p \in Process, AttachSteps(p)
  PROVE  Calm(p)
<1> USE DEF world, manager, history
<1>0. TypeOK /\ proc[p] \in LocalState /\ proc[p].epoch \in Nat
  BY DEF CoverInv, TypeOK, LocalState
<1>1. CASE ReadStart(p)
  <2> DEFINE l == [proc[p] EXCEPT !.pc = "read_majority", !.from = nextOplog]
  <2>1. proc' = [proc EXCEPT ![p] = l] /\ proc[p].pc = "read_start"
    BY <1>1 DEF ReadStart
  <2>2. l.pc = "read_majority" /\ l.epoch = proc[p].epoch
    BY <1>0 DEF LocalState
  <2> HIDE DEF l
  <2>3. proc'[p] = l /\ \A q \in Process \ {p} : proc'[q] = proc[q]
    BY <1>0, <2>1 DEF TypeOK
  <2> QED BY <1>1, <2>1, <2>2, <2>3, SameRangesRefl DEF ReadStart, Calm, Started, SavedFirst
<1>2. CASE ReadMajority(p)
  <2> DEFINE l == [proc[p] EXCEPT !.pc = "attach", !.to = majority]
  <2>1. proc' = [proc EXCEPT ![p] = l] /\ proc[p].pc = "read_majority"
    BY <1>2 DEF ReadMajority
  <2>2. l.pc = "attach" /\ l.epoch = proc[p].epoch
    BY <1>0 DEF LocalState
  <2> HIDE DEF l
  <2>3. proc'[p] = l /\ \A q \in Process \ {p} : proc'[q] = proc[q]
    BY <1>0, <2>1 DEF TypeOK
  <2> QED BY <1>2, <2>1, <2>2, <2>3, SameRangesRefl
          DEF ReadMajority, Calm, Started, SavedFirst
<1>3. CASE Attach(p)
  <2> DEFINE n == proc[p].epoch
             f == proc[p].from
             g == proc[p].to
  <2>1. /\ proc[p].pc = "attach" /\ epochs' = AttachOplogHash(epochs, n, f, g)
        /\ proc' = [proc EXCEPT ![p] = [Local("snapshot") EXCEPT !.stage = "attach",
                                                                 !.epoch = n]]
        /\ UNCHANGED <<mode, leaves, file, loop, overlap, chain, lost>>
    BY <1>3 DEF Attach
  <2>2. n + 1 < Len(epochs)
    BY <2>1 DEF CoverInv, WorksOnClosed, Working
  <2>3. n \in Nat /\ f \in Nat /\ g \in Nat /\ epochs \in Seq(Epoch) /\ n + 1 <= Len(epochs)
    BY <1>0, <2>2 DEF TypeOK, LocalState
  <2>4. /\ proc'[p].pc = "snapshot" /\ proc'[p].epoch = n
        /\ \A q \in Process \ {p} : proc'[q] = proc[q]
    <3>1. /\ proc'[p] = [Local("snapshot") EXCEPT !.stage = "attach", !.epoch = n]
          /\ \A q \in Process \ {p} : proc'[q] = proc[q]
      BY <1>0, <2>1 DEF TypeOK
    <3> QED BY <3>1, SavingFacts DEF Stage
  <2>5. SameRanges(epochs, epochs')
    <3> HIDE DEF n, f, g
    <3>1. /\ Len(epochs') = Len(epochs)
          /\ \A i \in 1..Len(epochs) : i # n + 1 => epochs'[i] = epochs[i]
          /\ SameRange(epochs[n + 1], epochs'[n + 1])
      BY <2>1, <2>3, AttachKeeps
    <3> QED BY <3>1 DEF SameRanges, SameRange
  <2> QED BY <2>1, <2>4, <2>5 DEF Calm, Started, SavedFirst
<1>4. CASE AttachFails(p)
  <2> DEFINE l == Continue(p, AfterAttach(p))
  <2>1. proc' = [proc EXCEPT ![p] = l] /\ proc[p].pc \in {"read_majority", "attach"}
    BY <1>4 DEF AttachFails
  <2>2. /\ p = "auto" => l.pc = "publish" /\ l.epoch = proc[p].epoch
        /\ p # "auto" => l.pc = "idle"
    BY <1>0, ContinueFacts DEF AfterAttach, Pc
  <2> HIDE DEF l
  <2>3. proc'[p] = l /\ \A q \in Process \ {p} : proc'[q] = proc[q]
    BY <1>0, <2>1 DEF TypeOK
  <2> QED BY <1>4, <2>1, <2>2, <2>3, SameRangesRefl DEF AttachFails, Calm, Started, SavedFirst
<1> QED BY <1>1, <1>2, <1>3, <1>4 DEF AttachSteps

LEMMA CalmCommit ==
  ASSUME CoverInv, NEW p \in Process, CommitSteps(p)
  PROVE  Calm(p)
<1> USE DEF world, manager, history
<1>0. TypeOK /\ proc[p] \in LocalState /\ proc[p].epoch \in Nat
  BY DEF CoverInv, TypeOK, LocalState
<1>1. CASE Submit(p) \/ SubmitUnanswered(p) \/ SubmitFails(p) \/ SubmitDuplicate(p)
  <2>1. PICK l \in {[Continue(p, "mark") EXCEPT !.tx = "hash"], Local(Done(p)),
                    [proc[p] EXCEPT !.pc = "lookup"]} :
          proc' = [proc EXCEPT ![p] = l] /\ UNCHANGED <<mode, leaves, epochs, file, loop, overlap>>
    BY <1>1 DEF Submit, SubmitUnanswered, SubmitFails, SubmitDuplicate, Goto
  <2>2. proc[p].pc = "submit" /\ (UNCHANGED <<chain, lost>> \/ Accept(p))
    BY <1>1 DEF Submit, SubmitUnanswered, SubmitFails, SubmitDuplicate
  <2>3. [proc[p] EXCEPT !.pc = "lookup"].pc = "lookup"
    BY <1>0 DEF LocalState
  <2>4. [Continue(p, "mark") EXCEPT !.tx = "hash"].pc = "mark"
    BY <1>0, MarkFacts
  <2>5. Local(Done(p)).pc \in {"feed", "idle"} /\ (p = "auto" => Local(Done(p)).pc = "feed")
    BY LocalFacts DEF Done, Pc
  <2>6. l.pc \in {"mark", "feed", "idle", "lookup"} /\ (p = "auto" => l.pc # "idle")
    BY <2>3, <2>4, <2>5
  <2>7. proc'[p] = l /\ \A q \in Process \ {p} : proc'[q] = proc[q]
    BY <1>0, <2>1 DEF TypeOK
  <2>8. SameRanges(epochs, epochs')
    BY <2>1, SameRangesRefl
  <2>9. Started(proc[p]) /\ (p = "auto" => Started(proc'[p])) /\ ~SavedFirst(proc'[p])
    BY <2>2, <2>6, <2>7 DEF Started, SavedFirst
  <2> QED BY <2>1, <2>2, <2>6, <2>7, <2>8, <2>9 DEF Calm
<1>2. CASE Mark(p)
  <2> DEFINE n == proc[p].epoch
             x == proc[p].tx
  <2>1. /\ proc[p].pc = "mark" /\ epochs' = MarkCommitted(epochs, n, x)
        /\ proc' = [proc EXCEPT ![p] = [Local("snapshot") EXCEPT !.stage = "mark",
                                                                 !.epoch = n]]
        /\ UNCHANGED <<mode, leaves, file, loop, overlap, chain, lost>>
    BY <1>2 DEF Mark
  <2>2. n + 1 < Len(epochs)
    BY <2>1 DEF CoverInv, WorksOnClosed, Working
  <2>3. /\ n \in Nat /\ x \in {"none", "empty", "hash"} /\ epochs \in Seq(Epoch)
        /\ n + 1 <= Len(epochs)
    BY <1>0, <2>2 DEF TypeOK, LocalState
  <2>4. /\ proc'[p].pc = "snapshot" /\ proc'[p].stage = "mark"
        /\ \A q \in Process \ {p} : proc'[q] = proc[q]
    <3>1. /\ proc'[p] = [Local("snapshot") EXCEPT !.stage = "mark", !.epoch = n]
          /\ \A q \in Process \ {p} : proc'[q] = proc[q]
      BY <1>0, <2>1 DEF TypeOK
    <3> QED BY <3>1, SavingFacts DEF Stage
  <2>5. SameRanges(epochs, epochs')
    <3> HIDE DEF n, x
    <3>1. /\ Len(epochs') = Len(epochs)
          /\ \A i \in 1..Len(epochs) : i # n + 1 => epochs'[i] = epochs[i]
          /\ SameRange(epochs[n + 1], epochs'[n + 1])
      BY <2>1, <2>3, MarkChanges
    <3> QED BY <3>1 DEF SameRanges, SameRange
  <2> QED BY <2>1, <2>4, <2>5 DEF Calm, Started, SavedFirst
<1> QED BY <1>1, <1>2 DEF CommitSteps

LEMMA CalmLookup ==
  ASSUME CoverInv, NEW q \in Request, Lookup(q)
  PROVE  Calm(q)
<1> USE DEF world, manager, history
<1>0. TypeOK /\ q \in Process /\ q # "auto"
  BY DaemonAssumption DEF CoverInv, Process
<1>1. PICK l \in {[Continue(q, "mark") EXCEPT !.tx = "empty"], Local("idle")} :
        /\ proc' = [proc EXCEPT ![q] = l]
        /\ UNCHANGED <<mode, leaves, epochs, file, loop, overlap, chain, lost>>
  BY DEF Lookup, Goto
<1>2. l.pc \in {"mark", "idle"}
  <2>1. [Continue(q, "mark") EXCEPT !.tx = "empty"].pc = "mark"
    BY <1>0, MarkFacts
  <2>2. Local("idle").pc = "idle"
    BY LocalFacts DEF Pc
  <2> QED BY <2>1, <2>2
<1>3. proc'[q] = l /\ \A p \in Process \ {q} : proc'[p] = proc[p]
  BY <1>0, <1>1 DEF TypeOK
<1> QED BY <1>0, <1>1, <1>2, <1>3, SameRangesRefl DEF Calm

LEMMA CalmRequest ==
  ASSUME CoverInv, NEW q \in Request, NEW n, CommitEpoch(q, n)
  PROVE  Calm(q)
<1> USE DEF world, manager, history
<1>0. TypeOK /\ q \in Process /\ q # "auto"
  BY DaemonAssumption DEF CoverInv, Process
<1> DEFINE b == (n \in cids)
           l == [Local("submit") EXCEPT !.epoch = n, !.view = epochs[n + 1], !.cid = b]
<1>1. /\ proc' = [proc EXCEPT ![q] = l]
      /\ UNCHANGED <<mode, leaves, epochs, file, loop, overlap, chain, lost>>
  BY DEF CommitEpoch
<1>2. l.pc = "submit"
  <2> HIDE DEF b
  <2> QED BY DEF Local
<1> HIDE DEF l
<1>3. proc'[q] = l /\ \A p \in Process \ {q} : proc'[p] = proc[p]
  BY <1>0, <1>1 DEF TypeOK
<1> QED BY <1>0, <1>1, <1>2, <1>3, SameRangesRefl DEF Calm

LEMMA CalmPublish ==
  ASSUME CoverInv, PublishBatch
  PROVE  Calm("auto")
<1> USE DEF world, manager, history
<1>0. TypeOK /\ "auto" \in Process /\ proc["auto"] \in LocalState
  BY DEF CoverInv, Process, TypeOK
<1> DEFINE n == proc["auto"].epoch
           b == (n \in cids')
           l == [proc["auto"] EXCEPT !.pc = "submit", !.view = epochs[n + 1], !.cid = b]
<1>1. /\ proc["auto"].pc = "publish" /\ proc' = [proc EXCEPT !["auto"] = l]
      /\ UNCHANGED <<mode, leaves, epochs, file, loop, overlap, chain, lost>>
  BY DEF PublishBatch
<1>2. l.pc = "submit" /\ l.epoch = n
  <2> HIDE DEF b
  <2> QED BY <1>0 DEF LocalState
<1> HIDE DEF l
<1>3. proc'["auto"] = l /\ \A p \in Process \ {"auto"} : proc'[p] = proc[p]
  BY <1>0, <1>1 DEF TypeOK
<1> QED BY <1>0, <1>1, <1>2, <1>3, SameRangesRefl DEF Calm, Started, SavedFirst

-----------------------------------------------------------------------------
(* The partition is kept *)

LEMMA CalmPart ==
  ASSUME CoverInv, PartInv, NEW p \in Process, Calm(p)
  PROVE  PartInv'
<1> SUFFICES ASSUME ~overlap'
             PROVE  /\ Cut(epochs', leaves')
                    /\ Cut(file'.epochs, leaves')
                    /\ \A q \in Process :
                         proc'[q].pc = "write" => Cut(proc'[q].save.epochs, leaves')
                    /\ loop'.at <= loop'.upto /\ loop'.upto <= leaves'
                    /\ proc'["auto"].pc = "sync" => loop'.at = loop'.upto
                    /\ Started(proc'["auto"]) => Counted(epochs') = loop'.at
  BY DEF PartInv, Started
<1>1. ~overlap /\ UNCHANGED <<leaves, file, loop>>
  BY DEF Calm
<1>2. epochs \in Seq(Epoch) /\ epochs # <<>> /\ "auto" \in Process
  BY DEF CoverInv, TypeOK, Process
<1>3. Cut(epochs', leaves') /\ Counted(epochs') = Counted(epochs)
  BY <1>1, <1>2, CutSame DEF PartInv, Calm
<1>4. \A q \in Process : proc'[q].pc = "write" => Cut(proc'[q].save.epochs, leaves')
  BY <1>1 DEF PartInv, Calm
<1>5. proc'["auto"] = proc["auto"] \/ (Started(proc["auto"]) /\ Started(proc'["auto"]))
  BY <1>2 DEF Calm
<1> QED BY <1>1, <1>3, <1>4, <1>5 DEF PartInv, Started

LEMMA SavePart ==
  ASSUME CoverInv, PartInv, NEW p \in Process, SaveSteps(p)
  PROVE  PartInv'
<1> USE DEF world, manager, history
<1> SUFFICES ASSUME ~overlap'
             PROVE  /\ Cut(epochs', leaves')
                    /\ Cut(file'.epochs, leaves')
                    /\ \A q \in Process :
                         proc'[q].pc = "write" => Cut(proc'[q].save.epochs, leaves')
                    /\ loop'.at <= loop'.upto /\ loop'.upto <= leaves'
                    /\ proc'["auto"].pc = "sync" => loop'.at = loop'.upto
                    /\ Started(proc'["auto"]) => Counted(epochs') = loop'.at
  BY DEF PartInv, Started
<1>1. ~overlap /\ UNCHANGED <<leaves, epochs, loop>>
  BY DEF SaveSteps, Snapshot, Write, WriteFails
<1>2. TypeOK /\ "auto" \in Process /\ proc[p] \in LocalState /\ leaves \in Nat
  BY DEF CoverInv, TypeOK, Process
<1>3. /\ Started(proc[p]) /\ (p = "auto" => Started(proc'[p]))
      /\ \A q \in Process \ {p} : Same(proc'[q], proc[q])
      /\ proc'[p].pc = "write" => proc'[p].save.epochs = epochs
      /\ file' \in {file, proc[p].save, NoFile}
      /\ file' = proc[p].save => proc[p].pc = "write" \/ file' = file
  <2>1. CASE Snapshot(p)
    <3> DEFINE l == [proc[p] EXCEPT !.pc = "write", !.old = FALSE,
                                    !.save = [epochs |-> epochs, next |-> nextOplog]]
    <3>1. proc' = [proc EXCEPT ![p] = l] /\ proc[p].pc = "snapshot" /\ file' = file
      BY <2>1 DEF Snapshot
    <3>2. l.pc = "write" /\ l.save.epochs = epochs
      BY <1>2 DEF LocalState
    <3> HIDE DEF l
    <3>3. proc'[p] = l /\ \A q \in Process \ {p} : proc'[q] = proc[q]
      BY <1>2, <3>1 DEF TypeOK
    <3> QED BY <3>1, <3>2, <3>3 DEF Started, Same
  <2>2. CASE Write(p)
    <3> DEFINE next == CASE proc[p].stage = "sync" -> "feed"
                         [] proc[p].stage = "close" -> "read_start"
                         [] proc[p].stage = "attach" -> AfterAttach(p)
                         [] OTHER -> Done(p)
    <3>1. /\ next \in {"feed", "idle", "publish", "read_start"}
          /\ p = "auto" => next # "idle"
      BY DEF AfterAttach, Done
    <3>2. /\ proc[p].pc = "write" /\ file' = proc[p].save
          /\ proc' = [q \in Process |->
                       IF q = p THEN Continue(p, next)
                       ELSE IF proc[q].pc = "write" THEN [proc[q] EXCEPT !.old = TRUE]
                       ELSE proc[q]]
      BY <2>2 DEF Write
    <3> HIDE DEF next
    <3>3. proc'[p].pc = next
      BY <1>2, <3>1, <3>2, ContinueFacts DEF Pc
    <3>4. \A q \in Process \ {p} : Same(proc'[q], proc[q])
      <4> TAKE q \in Process \ {p}
      <4>1. proc[q] \in LocalState
        BY <1>2 DEF TypeOK
      <4>2. proc'[q] = [proc[q] EXCEPT !.old = TRUE] \/ proc'[q] = proc[q]
        BY <3>2
      <4> QED BY <4>1, <4>2 DEF Same, LocalState
    <3> QED BY <3>1, <3>2, <3>3, <3>4 DEF Started
  <2>3. CASE WriteFails(p)
    <3> DEFINE next == CASE proc[p].stage = "attach" -> AfterAttach(p)
                         [] OTHER -> Done(p)
    <3>1. next \in {"feed", "idle", "publish"} /\ (p = "auto" => next # "idle")
      BY DEF AfterAttach, Done
    <3>2. /\ proc[p].pc = "write" /\ file' \in {file, NoFile}
          /\ proc' = [proc EXCEPT ![p] = Continue(p, next)]
      BY <2>3 DEF WriteFails
    <3> HIDE DEF next
    <3>3. proc'[p].pc = next
      BY <1>2, <3>1, <3>2, ContinueFacts DEF Pc, TypeOK
    <3>4. \A q \in Process \ {p} : Same(proc'[q], proc[q])
      BY <1>2, <3>2 DEF Same, TypeOK
    <3> QED BY <3>1, <3>2, <3>3, <3>4 DEF Started
  <2> QED BY <2>1, <2>2, <2>3 DEF SaveSteps
<1>4. Cut(file'.epochs, leaves')
  BY <1>1, <1>2, <1>3, FreshCut DEF PartInv
<1>5. \A q \in Process : proc'[q].pc = "write" => Cut(proc'[q].save.epochs, leaves')
  <2> SUFFICES ASSUME NEW q \in Process, proc'[q].pc = "write"
               PROVE  Cut(proc'[q].save.epochs, leaves')
    OBVIOUS
  <2>1. CASE q = p
    BY <1>1, <1>3, <2>1 DEF PartInv
  <2>2. CASE q # p
    BY <1>1, <1>3, <2>2 DEF PartInv, Same
  <2> QED BY <2>1, <2>2
<1>6. \/ proc'["auto"].pc = proc["auto"].pc
      \/ Started(proc["auto"]) /\ Started(proc'["auto"])
  BY <1>2, <1>3 DEF Same
<1> QED BY <1>1, <1>4, <1>5, <1>6 DEF PartInv, Started

(* A call that may have closed an epoch: what is left of it is to be saved. *)
LEMMA ClosePart ==
  ASSUME CoverInv, PartInv, NEW p \in Process, ~overlap,
         Cut(epochs', leaves), UNCHANGED <<leaves, file>>,
         \/ SaveClosed(p)
         \/ UNCHANGED proc
         \/ proc' = [proc EXCEPT ![p] = [Local("snapshot") EXCEPT !.stage = "sync"]]
  PROVE  /\ Cut(epochs', leaves')
         /\ Cut(file'.epochs, leaves')
         /\ \A q \in Process : proc'[q].pc = "write" => Cut(proc'[q].save.epochs, leaves')
<1>1. TypeOK
  BY DEF CoverInv
<1>2. proc'[p] = proc[p] \/ proc'[p].pc = "snapshot"
  BY <1>1 DEF SaveClosed, Local, TypeOK
<1>3. \A q \in Process \ {p} : proc'[q] = proc[q]
  BY <1>1 DEF SaveClosed, TypeOK
<1>4. \A q \in Process : proc'[q].pc = "write" => Cut(proc'[q].save.epochs, leaves')
  BY <1>2, <1>3 DEF PartInv
<1> QED BY <1>4 DEF PartInv

LEMMA PartInvStep ==
  ASSUME CoverInv, IdleWhenDown, PartInv, [Next]_vars
  PROVE  PartInv'
<1> USE DEF world, manager, history
<1>0. /\ TypeOK /\ "auto" \in Process /\ \A q \in Request : q \in Process
      /\ leaves \in Nat /\ epochs \in Seq(Epoch) /\ epochs # <<>>
      /\ loop \in [at : Nat, upto : Nat] /\ "auto" \notin Request
  BY DaemonAssumption DEF CoverInv, Process, TypeOK
<1>1. CASE \/ AdvanceMajority \/ UNCHANGED vars
           \/ \E q \in Request, n \in 0..MaxLeaves : PublishIpfs(q, n)
  <2>1. UNCHANGED <<leaves, epochs, file, loop, proc, overlap>>
    BY <1>1 DEF AdvanceMajority, PublishIpfs, vars
  <2> QED BY <2>1 DEF PartInv, Started
<1>2. CASE Record
  <2>1. leaves' = leaves + 1 /\ UNCHANGED <<epochs, file, loop, proc, overlap>>
    BY <1>2 DEF Record
  <2>2. \A es \in Seq(Epoch) : es # <<>> /\ Cut(es, leaves) => Cut(es, leaves')
    BY <1>0, <2>1, CutLater
  <2>3. /\ file.epochs \in Seq(Epoch) /\ file.epochs # <<>>
        /\ \A p \in Process :
             proc[p].save.epochs \in Seq(Epoch) /\ proc[p].save.epochs # <<>>
    BY <1>0 DEF TypeOK, SavedState, LocalState
  <2>4. \A p \in Process : proc'[p].pc = "write" /\ Cut(proc[p].save.epochs, leaves) =>
                             Cut(proc'[p].save.epochs, leaves')
    BY <2>1, <2>2, <2>3
  <2>5. loop.upto <= leaves => loop'.upto <= leaves'
    BY <1>0, <2>1
  <2> QED BY <1>0, <2>1, <2>2, <2>3, <2>4, <2>5 DEF PartInv, Started
<1>3. CASE Boot
  <2>1. /\ proc' = [proc EXCEPT !["auto"] = Local("sync")] /\ proc["auto"].pc = "boot"
        /\ loop' = [at |-> leaves, upto |-> leaves]
        /\ UNCHANGED <<leaves, epochs, file, overlap>>
    BY <1>3 DEF Boot, Goto
  <2>2. /\ proc'["auto"].pc = "sync"
        /\ \A q \in Process \ {"auto"} : proc'[q] = proc[q]
    <3>1. Local("sync").pc = "sync"
      BY LocalFacts DEF Pc
    <3> QED BY <1>0, <2>1, <3>1 DEF TypeOK
  <2>3. loop'.at = leaves /\ loop'.upto = leaves
    BY <2>1
  <2> QED BY <1>0, <2>1, <2>2, <2>3 DEF PartInv, Started
<1>4. CASE Sync
  <2> SUFFICES ASSUME ~overlap'
               PROVE  PartInv'
    BY DEF PartInv
  <2>1. /\ ~overlap /\ leaves = loop.upto /\ proc["auto"].pc = "sync"
        /\ epochs' = SyncOpen(epochs, leaves) /\ UNCHANGED <<leaves, file, loop>>
        /\ \/ SaveClosed("auto")
           \/ proc' = [proc EXCEPT !["auto"] = [Local("snapshot") EXCEPT !.stage = "sync"]]
    BY <1>4 DEF Sync
  <2>2. Cut(epochs', leaves) /\ Counted(epochs') = leaves
    BY <1>0, <2>1, SyncCut DEF PartInv
  <2>3. /\ Cut(epochs', leaves')
        /\ Cut(file'.epochs, leaves')
        /\ \A q \in Process : proc'[q].pc = "write" => Cut(proc'[q].save.epochs, leaves')
    BY <1>0, <2>1, <2>2, ClosePart
  <2>4. proc'["auto"].pc = "snapshot"
    BY <1>0, <2>1 DEF SaveClosed, Local, TypeOK
  <2>5. loop.at = loop.upto /\ loop.upto <= leaves
    BY <2>1 DEF PartInv
  <2> QED BY <1>0, <2>1, <2>2, <2>3, <2>4, <2>5 DEF PartInv
<1>5. CASE Tick
  <2>1. /\ proc["auto"].pc = "feed" /\ loop.at = loop.upto /\ leaves > loop.upto
        /\ loop' = [at |-> loop.upto, upto |-> leaves]
        /\ UNCHANGED <<leaves, epochs, file, proc, overlap>>
    BY <1>5 DEF Tick
  <2>2. loop'.at = loop.at /\ loop'.upto = leaves /\ loop'.at <= loop'.upto
    BY <1>0, <2>1
  <2> QED BY <1>0, <2>1, <2>2 DEF PartInv, Started
<1>6. CASE Feed
  <2> SUFFICES ASSUME ~overlap'
               PROVE  PartInv'
    BY DEF PartInv
  <2>1. /\ ~overlap /\ proc["auto"].pc = "feed" /\ loop.at < loop.upto
        /\ epochs' = RecordEvent(epochs, loop.at, leaves) /\ UNCHANGED <<leaves, file>>
        /\ loop' = [loop EXCEPT !.at = loop.at + 1]
        /\ SaveClosed("auto") \/ UNCHANGED proc
    BY <1>6 DEF Feed
  <2>2. Counted(epochs) = loop.at /\ loop.upto <= leaves /\ Cut(epochs, leaves)
    BY <2>1 DEF PartInv, Started
  <2>3. Cut(epochs', leaves) /\ Counted(epochs') = loop.at + 1
    <3>1. Counted(epochs) < leaves
      BY <1>0, <2>1, <2>2
    <3> QED BY <1>0, <2>1, <2>2, <3>1, RecordCut
  <2>4. /\ Cut(epochs', leaves')
        /\ Cut(file'.epochs, leaves')
        /\ \A q \in Process : proc'[q].pc = "write" => Cut(proc'[q].save.epochs, leaves')
    BY <1>0, <2>1, <2>3, ClosePart
  <2>5. proc'["auto"].pc \in {"snapshot", "feed"}
    BY <1>0, <2>1 DEF SaveClosed, Local, TypeOK
  <2>6. loop'.at = loop.at + 1 /\ loop'.upto = loop.upto /\ loop'.at <= loop'.upto
    BY <1>0, <2>1
  <2> QED BY <2>1, <2>2, <2>3, <2>4, <2>5, <2>6 DEF PartInv
<1>7. CASE PublishBatch
  BY <1>0, <1>7, CalmPublish, CalmPart
<1>8. ASSUME NEW p \in Process, ProcessStep(p)
      PROVE  PartInv'
  BY <1>8, SavePart, CalmAttach, CalmCommit, CalmPart DEF ProcessStep
<1>9. ASSUME NEW q \in Request, Lookup(q)
      PROVE  PartInv'
  BY <1>0, <1>9, CalmLookup, CalmPart
<1>10. ASSUME NEW q \in Request, NEW n \in 0..MaxLeaves, CommitEpoch(q, n)
       PROVE  PartInv'
  BY <1>0, <1>10, CalmRequest, CalmPart
<1>11. ASSUME NEW q \in Request, CloseEpoch(q)
       PROVE  PartInv'
  <2> SUFFICES ASSUME ~overlap'
               PROVE  PartInv'
    BY DEF PartInv
  <2>1. /\ ~overlap /\ epochs' = CloseCurrent(epochs, leaves) /\ SaveClosed(q)
        /\ UNCHANGED <<leaves, file, loop>>
    BY <1>11 DEF CloseEpoch
  <2>2. Cut(epochs', leaves) /\ Counted(epochs') = Counted(epochs)
    BY <1>0, <2>1, CurrentCut DEF PartInv
  <2>3. /\ Cut(epochs', leaves')
        /\ Cut(file'.epochs, leaves')
        /\ \A p \in Process : proc'[p].pc = "write" => Cut(proc'[p].save.epochs, leaves')
    BY <1>0, <2>1, <2>2, ClosePart
  <2>4. proc'["auto"] = proc["auto"]
    BY <1>0, <2>1 DEF SaveClosed, TypeOK
  <2> QED BY <2>1, <2>2, <2>3, <2>4 DEF PartInv, Started
<1>12. CASE Crash
  <2>1. /\ epochs' = Fresh /\ file' \in {file, NoFile} /\ UNCHANGED <<leaves, overlap>>
        /\ loop' = [at |-> 0, upto |-> 0]
        /\ proc' = [p \in Process |-> Local("idle")]
    BY <1>12 DEF Crash
  <2>2. \A p \in Process : proc'[p].pc = "idle"
    BY <2>1, LocalFacts DEF Pc
  <2>3. loop'.at = 0 /\ loop'.upto = 0 /\ 0 <= leaves
    BY <1>0, <2>1
  <2> QED BY <1>0, <2>1, <2>2, <2>3, FreshCut DEF PartInv, Started
<1>13. CASE Restart
  <2>1. /\ mode = "down" /\ epochs' = file.epochs
        /\ UNCHANGED <<leaves, file, loop, overlap>>
        /\ proc' = [proc EXCEPT !["auto"] = Local("boot")]
    BY <1>13 DEF Restart, Goto
  <2>2. proc'["auto"].pc = "boot" /\ \A p \in Process : proc'[p].pc \in {"idle", "boot"}
    <3>1. Local("boot").pc = "boot"
      BY LocalFacts DEF Pc
    <3> QED BY <1>0, <2>1, <3>1 DEF IdleWhenDown, TypeOK
  <2> QED BY <1>0, <2>1, <2>2 DEF PartInv, Started
<1> QED BY <1>0, <1>1, <1>2, <1>3, <1>4, <1>5, <1>6, <1>7, <1>8, <1>9, <1>10, <1>11,
           <1>12, <1>13
        DEF Next, AutoStep

LEMMA PartInit == Init => PartInv
<1> SUFFICES ASSUME Init PROVE PartInv
  OBVIOUS
<1>1. \A p \in Process : proc[p].pc \in {"boot", "idle"}
  BY LocalFacts DEF Init, Pc
<1>2. "auto" \in Process /\ Cut(epochs, leaves) /\ Cut(file.epochs, leaves)
  BY FreshCut DEF Init, Process
<1>3. loop.at = 0 /\ loop.upto = 0 /\ leaves = 0
  BY DEF Init
<1> QED BY <1>1, <1>2, <1>3 DEF PartInv, Started

(* The epochs cut the log into consecutive non-empty ranges with the root  *)
(* and the number of their own events, in the manager and in epochs.json,  *)
(* for any number of events, requests and crashes: sync, record_event()    *)
(* and POST /epoch/close agree on the next event, unless events arrived    *)
(* between the two reads of the log's length at a start.                   *)
THEOREM EpochsAlwaysPartition == Spec => []EpochsPartition
<1>1. PartInv => EpochsPartition
  BY DEF PartInv, EpochsPartition, Cut, Partition
<1>2. PartInv /\ CoverInv /\ IdleWhenDown /\ [Next]_vars => PartInv'
  BY PartInvStep
<1> QED BY <1>1, <1>2, PartInit, CoverAlways, PTL DEF Spec

-----------------------------------------------------------------------------
(* The anchors are kept *)

LEMMA ExtendsTrans ==
  ASSUME NEW a \in Seq(Epoch), NEW b \in Seq(Epoch), NEW c \in Seq(Epoch),
         Extends(a, b), Extends(b, c)
  PROVE  Extends(a, c)
<1>1. Len(a) \in Nat /\ Len(b) \in Nat /\ Len(c) \in Nat
  OBVIOUS
<1>2. \A i \in 1..(Len(a) - 1) : i \in 1..(Len(b) - 1)
  BY <1>1 DEF Extends
<1> QED BY <1>1, <1>2 DEF Extends

LEMMA GrowsExtends ==
  ASSUME NEW es \in Seq(Epoch), NEW new,
         (Grows(es, new) /\ es # <<>>) \/ SameRanges(es, new)
  PROVE  Extends(es, new)
<1>1. Len(es) \in Nat /\ \A i \in 1..(Len(es) - 1) : i \in 1..Len(es)
  OBVIOUS
<1> QED BY <1>1 DEF Grows, SameRanges, SameRange, Extends

LEMMA AnchoredLater ==
  ASSUME NEW a \in Seq(Epoch), NEW b \in Seq(Epoch), Extends(a, b),
         NEW anchors \in Seq(Anchor), Anchored(a, anchors)
  PROVE  Anchored(b, anchors)
<1> SUFFICES ASSUME NEW i \in 1..Len(anchors)
             PROVE  /\ anchors[i].epoch + 1 < Len(b)
                    /\ b[anchors[i].epoch + 1].root = anchors[i].root
  BY DEF Anchored
<1>1. anchors[i].epoch \in Nat /\ Len(a) \in Nat /\ Len(b) \in Nat
  <2>1. anchors[i] \in Anchor
    OBVIOUS
  <2> QED BY <2>1 DEF Anchor
<1>2. /\ anchors[i].epoch + 1 < Len(a)
      /\ a[anchors[i].epoch + 1].root = anchors[i].root
  BY DEF Anchored
<1>3. anchors[i].epoch + 1 \in 1..(Len(a) - 1)
  BY <1>1, <1>2
<1>4. Len(a) <= Len(b) /\ b[anchors[i].epoch + 1].root = a[anchors[i].epoch + 1].root
  BY <1>3 DEF Extends
<1>5. anchors[i].epoch + 1 < Len(b)
  BY <1>1, <1>2, <1>4
<1> QED BY <1>2, <1>4, <1>5

(* A step that leaves the file alone, appends nothing to the chain, and    *)
(* after which the list in memory has all it had.                          *)
LEMMA AnchorStep ==
  ASSUME CoverInv, TypeOK', AnchorInv, NEW p \in Process,
         Extends(epochs, epochs'), UNCHANGED <<mode, file, lost>>,
         ~lost => Anchored(file.epochs, chain'),
         \A q \in Process \ {p} : proc'[q] = proc[q],
         proc'[p].pc = "write" => proc'[p] = proc[p],
         p = "auto" /\ SavedFirst(proc'[p]) =>
           SavedFirst(proc[p]) /\ proc'[p].epoch = proc[p].epoch
  PROVE  AnchorInv'
<1>0. "auto" \in Process
  BY DEF Process
<1>1. \A s \in Seq(Epoch) : Extends(s, epochs) => Extends(s, epochs')
  BY ExtendsTrans DEF CoverInv, TypeOK
<1>2. file.epochs \in Seq(Epoch) /\ \A q \in Process : proc[q].save.epochs \in Seq(Epoch)
  BY DEF CoverInv, TypeOK, SavedState, LocalState
<1> SUFFICES ASSUME ~lost
             PROVE  /\ mode = "up" => Extends(file.epochs, epochs')
                    /\ \A q \in Process : proc'[q].pc = "write" /\ ~proc'[q].old =>
                         /\ Extends(file.epochs, proc'[q].save.epochs)
                         /\ Extends(proc'[q].save.epochs, epochs')
                    /\ SavedFirst(proc'["auto"]) => proc'["auto"].epoch + 1 < Len(file.epochs)
                    /\ proc'["auto"].pc = "write" /\ proc'["auto"].stage = "close" =>
                         proc'["auto"].epoch + 1 < Len(proc'["auto"].save.epochs)
  BY DEF AnchorInv, SavedFirst
<1>3. mode = "up" => Extends(file.epochs, epochs')
  BY <1>1, <1>2 DEF AnchorInv
<1>4. ASSUME NEW q \in Process, proc'[q].pc = "write"
      PROVE  proc'[q] = proc[q]
  BY <1>4
<1>5. \A q \in Process : proc'[q].pc = "write" /\ ~proc'[q].old =>
         /\ Extends(file.epochs, proc'[q].save.epochs)
         /\ Extends(proc'[q].save.epochs, epochs')
  BY <1>1, <1>2, <1>4 DEF AnchorInv
<1>6. SavedFirst(proc'["auto"]) =>
        SavedFirst(proc["auto"]) /\ proc'["auto"].epoch = proc["auto"].epoch
  BY <1>0
<1> QED BY <1>0, <1>3, <1>4, <1>5, <1>6 DEF AnchorInv

(* What the contract accepts is a root the file has. *)
LEMMA AcceptAnchors ==
  ASSUME CoverInv, IdleWhenDown, MarksInv, AnchorInv, NEW p \in Process,
         proc[p].pc = "submit", Accept(p), ~lost'
  PROVE  ~lost /\ Anchored(file.epochs, chain')
<1> DEFINE n == proc[p].epoch
           x == [root |-> proc[p].view.root, epoch |-> n,
                 oplog |-> proc[p].view.oplog, cid |-> proc[p].cid]
<1>1. /\ proc[p].view \in Epoch /\ n \in Nat /\ proc[p].cid \in BOOLEAN
      /\ chain \in Seq(Anchor) /\ file.epochs \in Seq(Epoch) /\ epochs \in Seq(Epoch)
      /\ mode \in {"up", "down"}
  BY DEF CoverInv, TypeOK, LocalState, SavedState
<1>2. x \in Anchor
  BY <1>1 DEF Epoch, Anchor
<1>3. ~lost /\ chain' = Append(chain, x) /\ (p \in Request => ~(Len(file.epochs) <= n + 1))
  BY DEF Accept
<1>4. mode = "up"
  BY <1>1 DEF IdleWhenDown
<1>5. n + 1 < Len(file.epochs)
  <2>1. CASE p = "auto"
    <3>1. SavedFirst(proc["auto"])
      BY <2>1 DEF SavedFirst
    <3> QED BY <1>3, <2>1, <3>1 DEF AnchorInv
  <2>2. CASE p # "auto"
    BY <1>1, <1>3, <2>2 DEF Process
  <2> QED BY <2>1, <2>2
<1>6. proc[p].view.root = epochs[n + 1].root
  BY DEF MarksInv, MarkReady
<1>7. file.epochs[n + 1].root = epochs[n + 1].root
  <2>1. n + 1 \in 1..(Len(file.epochs) - 1)
    BY <1>1, <1>5
  <2>2. Extends(file.epochs, epochs)
    BY <1>3, <1>4 DEF AnchorInv
  <2> QED BY <2>1, <2>2 DEF Extends
<1>8. Anchored(file.epochs, chain)
  BY <1>3 DEF AnchorInv
<1>9. x.epoch = n /\ x.root = proc[p].view.root
  OBVIOUS
<1> HIDE DEF x, n
<1>10. /\ Len(chain') = Len(chain) + 1 /\ chain'[Len(chain) + 1] = x
       /\ \A i \in 1..Len(chain) : chain'[i] = chain[i]
  BY <1>1, <1>2, <1>3
<1>11. Anchored(file.epochs, chain')
  <2> SUFFICES ASSUME NEW i \in 1..Len(chain')
               PROVE  /\ chain'[i].epoch + 1 < Len(file.epochs)
                      /\ file.epochs[chain'[i].epoch + 1].root = chain'[i].root
    BY DEF Anchored
  <2>1. CASE i = Len(chain) + 1
    BY <1>5, <1>6, <1>7, <1>9, <1>10, <2>1
  <2>2. CASE i # Len(chain) + 1
    <3>1. i \in 1..Len(chain)
      BY <1>1, <1>10, <2>2
    <3> QED BY <1>8, <1>10, <3>1 DEF Anchored
  <2> QED BY <2>1, <2>2
<1> QED BY <1>3, <1>11

LEMMA CalmAnchor ==
  ASSUME CoverInv, TypeOK', IdleWhenDown, MarksInv, AnchorInv, NEW p \in Process, Calm(p)
  PROVE  AnchorInv'
<1> SUFFICES ASSUME ~lost'
             PROVE  AnchorInv'
  BY DEF AnchorInv
<1>1. ~lost /\ Anchored(file.epochs, chain')
  <2>1. CASE UNCHANGED <<chain, lost>>
    BY <2>1 DEF AnchorInv
  <2>2. CASE proc[p].pc = "submit" /\ Accept(p)
    BY <2>2, AcceptAnchors
  <2> QED BY <2>1, <2>2 DEF Calm
<1>2. epochs \in Seq(Epoch) /\ lost \in BOOLEAN
  BY DEF CoverInv, TypeOK
<1>3. Extends(epochs, epochs')
  BY <1>2, GrowsExtends DEF Calm
<1>4. lost' = lost
  BY <1>1, <1>2 DEF TypeOK
<1> QED BY <1>1, <1>3, <1>4, AnchorStep DEF Calm

LEMMA SaveAnchor ==
  ASSUME CoverInv, TypeOK', IdleWhenDown, AnchorInv, NEW p \in Process, SaveSteps(p)
  PROVE  AnchorInv'
<1> USE DEF world, manager, history
<1> SUFFICES ASSUME ~lost'
             PROVE  AnchorInv'
  BY DEF AnchorInv
<1>0. /\ TypeOK /\ "auto" \in Process /\ proc[p] \in LocalState /\ mode \in {"up", "down"}
      /\ epochs \in Seq(Epoch) /\ file.epochs \in Seq(Epoch) /\ chain \in Seq(Anchor)
      /\ proc[p].save.epochs \in Seq(Epoch)
  BY DEF CoverInv, TypeOK, Process, SavedState, LocalState
<1>1. mode = "up"
  BY <1>0 DEF SaveSteps, Snapshot, Write, WriteFails, IdleWhenDown
<1>2. CASE Snapshot(p)
  <2> DEFINE l == [proc[p] EXCEPT !.pc = "write", !.old = FALSE,
                                  !.save = [epochs |-> epochs, next |-> nextOplog]]
  <2>1. /\ proc' = [proc EXCEPT ![p] = l] /\ proc[p].pc = "snapshot"
        /\ UNCHANGED <<mode, file, epochs, chain, lost>>
    BY <1>2 DEF Snapshot
  <2>2. /\ l.pc = "write" /\ l.save.epochs = epochs /\ l.epoch = proc[p].epoch
        /\ l.stage = proc[p].stage
    BY <1>0 DEF LocalState
  <2> HIDE DEF l
  <2>3. proc'[p] = l /\ \A q \in Process \ {p} : proc'[q] = proc[q]
    BY <1>0, <2>1 DEF TypeOK
  <2>4. Extends(epochs, epochs) /\ Extends(file.epochs, epochs)
    BY <1>0, <1>1, <2>1 DEF Extends, AnchorInv
  <2>5. \A q \in Process : proc'[q].pc = "write" /\ ~proc'[q].old =>
          /\ Extends(file.epochs, proc'[q].save.epochs)
          /\ Extends(proc'[q].save.epochs, epochs)
    BY <2>1, <2>2, <2>3, <2>4 DEF AnchorInv
  <2>6. SavedFirst(proc'["auto"]) => proc'["auto"].epoch + 1 < Len(file.epochs)
    BY <1>0, <2>1, <2>2, <2>3 DEF AnchorInv, SavedFirst
  <2>7. p = "auto" /\ proc[p].stage = "close" => proc[p].epoch + 1 < Len(epochs)
    BY <2>1 DEF CoverInv, WorksOnClosed, Working
  <2>8. proc'["auto"].pc = "write" /\ proc'["auto"].stage = "close" =>
          proc'["auto"].epoch + 1 < Len(proc'["auto"].save.epochs)
    BY <1>0, <2>1, <2>2, <2>3, <2>7 DEF AnchorInv
  <2> QED BY <2>1, <2>4, <2>5, <2>6, <2>8 DEF AnchorInv, SavedFirst
<1>3. CASE Write(p)
  <2> DEFINE next == CASE proc[p].stage = "sync" -> "feed"
                       [] proc[p].stage = "close" -> "read_start"
                       [] proc[p].stage = "attach" -> AfterAttach(p)
                       [] OTHER -> Done(p)
  <2>1. /\ next \in {"feed", "idle", "publish", "read_start"}
        /\ next = "read_start" => proc[p].stage = "close"
        /\ next = "publish" => proc[p].stage = "attach"
    BY DEF AfterAttach, Done
  <2>2. /\ proc[p].pc = "write" /\ file' = proc[p].save /\ ~lost /\ ~proc[p].old
        /\ proc' = [q \in Process |->
                     IF q = p THEN Continue(p, next)
                     ELSE IF proc[q].pc = "write" THEN [proc[q] EXCEPT !.old = TRUE]
                     ELSE proc[q]]
        /\ UNCHANGED <<mode, epochs, chain>>
    BY <1>3 DEF Write
  <2> HIDE DEF next
  <2>3. /\ proc'[p].pc = next
        /\ next \in {"publish", "read_start"} => proc'[p].epoch = proc[p].epoch
    BY <1>0, <2>1, <2>2, ContinueFacts DEF Pc
  <2>4. Extends(file.epochs, file'.epochs) /\ Extends(file'.epochs, epochs)
    BY <2>2 DEF AnchorInv
  <2>5. Anchored(file'.epochs, chain')
    BY <1>0, <2>2, <2>4, AnchoredLater DEF AnchorInv
  <2>6. \A q \in Process : proc'[q].pc = "write" => proc'[q].old
    <3> SUFFICES ASSUME NEW q \in Process, proc'[q].pc = "write"
                 PROVE  proc'[q].old
      OBVIOUS
    <3>1. q # p
      BY <2>1, <2>3
    <3>2. proc[q] \in LocalState
      BY <1>0 DEF TypeOK
    <3>3. proc'[q] = IF proc[q].pc = "write" THEN [proc[q] EXCEPT !.old = TRUE] ELSE proc[q]
      BY <2>2, <3>1
    <3> QED BY <3>2, <3>3 DEF LocalState
  <2>7. SavedFirst(proc'["auto"]) => proc'["auto"].epoch + 1 < Len(file'.epochs)
    <3> SUFFICES ASSUME SavedFirst(proc'["auto"])
                 PROVE  proc'["auto"].epoch + 1 < Len(file'.epochs)
      OBVIOUS
    <3>1. Len(file.epochs) <= Len(file'.epochs)
      BY <2>4 DEF Extends
    <3>2. /\ proc["auto"].epoch \in Nat /\ Len(file.epochs) \in Nat
          /\ Len(file'.epochs) \in Nat
      <4>1. proc["auto"].epoch \in Nat
        BY <1>0 DEF TypeOK, LocalState
      <4>2. file'.epochs \in Seq(Epoch)
        BY <1>0, <2>2
      <4> QED BY <1>0, <4>1, <4>2
    <3>3. CASE p = "auto"
      <4>1. \/ proc[p].stage = "close" /\ next = "read_start"
            \/ proc[p].stage = "attach" /\ next = "publish"
        BY <2>1, <2>3, <3>3 DEF SavedFirst
      <4>2. CASE proc[p].stage = "close" /\ next = "read_start"
        BY <2>2, <2>3, <3>3, <4>2 DEF AnchorInv
      <4>3. CASE proc[p].stage = "attach" /\ next = "publish"
        <5>1. SavedFirst(proc["auto"])
          BY <2>2, <3>3, <4>3 DEF SavedFirst
        <5>2. proc["auto"].epoch + 1 < Len(file.epochs)
          BY <2>2, <5>1 DEF AnchorInv
        <5> QED BY <2>3, <3>1, <3>2, <3>3, <4>3, <5>2
      <4> QED BY <4>1, <4>2, <4>3
    <3>4. CASE p # "auto"
      <4>0. proc["auto"] \in LocalState
        BY <1>0 DEF TypeOK
      <4>1. \/ proc'["auto"] = proc["auto"]
            \/ proc'["auto"] = [proc["auto"] EXCEPT !.old = TRUE]
        BY <1>0, <2>2, <3>4
      <4>2. /\ proc'["auto"].pc = proc["auto"].pc /\ proc'["auto"].stage = proc["auto"].stage
            /\ proc'["auto"].epoch = proc["auto"].epoch
        BY <4>0, <4>1 DEF LocalState
      <4>3. SavedFirst(proc["auto"])
        BY <4>2 DEF SavedFirst
      <4>4. proc["auto"].epoch + 1 < Len(file.epochs)
        BY <2>2, <4>3 DEF AnchorInv
      <4> QED BY <3>1, <3>2, <4>2, <4>4
    <3> QED BY <3>3, <3>4
  <2>8. proc'["auto"].pc = "write" /\ proc'["auto"].stage = "close" =>
          proc'["auto"].epoch + 1 < Len(proc'["auto"].save.epochs)
    <3> SUFFICES ASSUME proc'["auto"].pc = "write", proc'["auto"].stage = "close"
                 PROVE  proc'["auto"].epoch + 1 < Len(proc'["auto"].save.epochs)
      OBVIOUS
    <3>1. p # "auto"
      BY <2>1, <2>3
    <3>2. proc["auto"] \in LocalState
      BY <1>0 DEF TypeOK
    <3>3. \/ proc'["auto"] = proc["auto"]
          \/ proc'["auto"] = [proc["auto"] EXCEPT !.old = TRUE]
      BY <1>0, <2>2, <3>1
    <3>4. /\ proc'["auto"].pc = proc["auto"].pc /\ proc'["auto"].stage = proc["auto"].stage
          /\ proc'["auto"].epoch = proc["auto"].epoch
          /\ proc'["auto"].save = proc["auto"].save
      BY <3>2, <3>3 DEF LocalState
    <3> QED BY <2>2, <3>4 DEF AnchorInv
  <2> QED BY <2>2, <2>4, <2>5, <2>6, <2>7, <2>8 DEF AnchorInv, SavedFirst
<1>4. CASE WriteFails(p)
  BY <1>4 DEF WriteFails
<1> QED BY <1>2, <1>3, <1>4 DEF SaveSteps

LEMMA CloseAnchor ==
  ASSUME CoverInv, TypeOK', AnchorInv, NEW p \in Process, Grows(epochs, epochs'),
         UNCHANGED <<mode, file, chain, lost>>,
         \/ SaveClosed(p)
         \/ UNCHANGED proc
         \/ proc' = [proc EXCEPT ![p] = [Local("snapshot") EXCEPT !.stage = "sync"]]
  PROVE  AnchorInv'
<1>1. TypeOK /\ epochs \in Seq(Epoch) /\ epochs # <<>>
  BY DEF CoverInv, TypeOK
<1>2. Extends(epochs, epochs')
  BY <1>1, GrowsExtends
<1>3. proc'[p] = proc[p] \/ (proc'[p].pc = "snapshot" /\ proc'[p].stage \in {"close", "sync"})
  BY <1>1 DEF SaveClosed, Local, TypeOK
<1>4. \A q \in Process \ {p} : proc'[q] = proc[q]
  BY <1>1 DEF SaveClosed, TypeOK
<1>5. ~lost => Anchored(file.epochs, chain')
  BY DEF AnchorInv
<1>6. /\ proc'[p].pc = "write" => proc'[p] = proc[p]
      /\ SavedFirst(proc'[p]) => SavedFirst(proc[p]) /\ proc'[p].epoch = proc[p].epoch
  BY <1>3 DEF SavedFirst
<1> QED BY <1>2, <1>4, <1>5, <1>6, AnchorStep

LEMMA AnchorInvStep ==
  ASSUME CoverInv, TypeOK', IdleWhenDown, MarksInv, AnchorInv, [Next]_vars
  PROVE  AnchorInv'
<1> USE DEF world, manager, history
<1>0. /\ TypeOK /\ "auto" \in Process /\ \A q \in Request : q \in Process
      /\ epochs \in Seq(Epoch) /\ epochs # <<>> /\ leaves \in Nat
  BY DEF CoverInv, Process, TypeOK
<1>1. CASE \/ Record \/ AdvanceMajority \/ Tick \/ UNCHANGED vars
           \/ \E q \in Request, n \in 0..MaxLeaves : PublishIpfs(q, n)
  <2>1. UNCHANGED <<mode, epochs, file, chain, proc, lost>>
    BY <1>1 DEF Record, AdvanceMajority, Tick, PublishIpfs, vars
  <2> QED BY <2>1 DEF AnchorInv, SavedFirst
<1>2. CASE Boot
  <2>1. /\ proc' = [proc EXCEPT !["auto"] = Local("sync")]
        /\ UNCHANGED <<mode, epochs, file, chain, lost>>
    BY <1>2 DEF Boot, Goto
  <2>2. proc'["auto"].pc = "sync" /\ \A q \in Process \ {"auto"} : proc'[q] = proc[q]
    <3>1. Local("sync").pc = "sync"
      BY LocalFacts DEF Pc
    <3> QED BY <1>0, <2>1, <3>1 DEF TypeOK
  <2>3. Extends(epochs, epochs')
    BY <1>0, <2>1, GrowsExtends, SameRangesRefl
  <2>4. ~lost => Anchored(file.epochs, chain')
    BY <2>1 DEF AnchorInv
  <2> QED BY <1>0, <2>1, <2>2, <2>3, <2>4, AnchorStep DEF SavedFirst
<1>3. CASE Sync
  <2>1. Grows(epochs, epochs') /\ UNCHANGED <<mode, file, chain, lost>>
    BY <1>0, <1>3, SyncGrows DEF Sync
  <2>2. \/ SaveClosed("auto")
        \/ proc' = [proc EXCEPT !["auto"] = [Local("snapshot") EXCEPT !.stage = "sync"]]
    BY <1>3 DEF Sync
  <2> QED BY <1>0, <2>1, <2>2, CloseAnchor
<1>4. CASE Feed
  <2>1. Grows(epochs, epochs') /\ UNCHANGED <<mode, file, chain, lost>>
    BY <1>0, <1>4, RecordGrows DEF Feed, TypeOK
  <2>2. SaveClosed("auto") \/ UNCHANGED proc
    BY <1>4 DEF Feed
  <2> QED BY <1>0, <2>1, <2>2, CloseAnchor
<1>5. CASE PublishBatch
  BY <1>0, <1>5, CalmPublish, CalmAnchor
<1>6. ASSUME NEW p \in Process, ProcessStep(p)
      PROVE  AnchorInv'
  BY <1>6, SaveAnchor, CalmAttach, CalmCommit, CalmAnchor DEF ProcessStep
<1>7. ASSUME NEW q \in Request, Lookup(q)
      PROVE  AnchorInv'
  BY <1>0, <1>7, CalmLookup, CalmAnchor
<1>8. ASSUME NEW q \in Request, NEW n \in 0..MaxLeaves, CommitEpoch(q, n)
      PROVE  AnchorInv'
  BY <1>0, <1>8, CalmRequest, CalmAnchor
<1>9. ASSUME NEW q \in Request, CloseEpoch(q)
      PROVE  AnchorInv'
  <2>1. Grows(epochs, epochs') /\ UNCHANGED <<mode, file, chain, lost>> /\ SaveClosed(q)
    BY <1>0, <1>9, CloseCurrentGrows DEF CloseEpoch, NewRequest
  <2> QED BY <1>0, <2>1, CloseAnchor
<1>10. CASE Crash
  <2> SUFFICES ASSUME ~lost'
               PROVE  AnchorInv'
    BY DEF AnchorInv
  <2>1. /\ ~lost /\ mode' = "down" /\ UNCHANGED <<file, chain>>
        /\ proc' = [p \in Process |-> Local("idle")]
    BY <1>10 DEF Crash
  <2>2. \A p \in Process : proc'[p].pc = "idle"
    BY <2>1, LocalFacts DEF Pc
  <2> QED BY <1>0, <2>1, <2>2 DEF AnchorInv, SavedFirst
<1>11. CASE Restart
  <2>1. /\ mode = "down" /\ epochs' = file.epochs
        /\ UNCHANGED <<file, chain, lost>>
        /\ proc' = [proc EXCEPT !["auto"] = Local("boot")]
    BY <1>11 DEF Restart, Goto
  <2>2. \A p \in Process : proc'[p].pc \in {"idle", "boot"}
    <3>1. Local("boot").pc = "boot"
      BY LocalFacts DEF Pc
    <3> QED BY <1>0, <2>1, <3>1 DEF IdleWhenDown, TypeOK
  <2>3. Extends(file'.epochs, epochs')
    <3>1. Len(file.epochs) \in Nat
      BY <1>0 DEF TypeOK, SavedState
    <3> QED BY <2>1, <3>1 DEF Extends
  <2> QED BY <1>0, <2>1, <2>2, <2>3 DEF AnchorInv, SavedFirst
<1> QED BY <1>0, <1>1, <1>2, <1>3, <1>4, <1>5, <1>6, <1>7, <1>8, <1>9, <1>10, <1>11
        DEF Next, AutoStep

LEMMA AnchorInit == Init => AnchorInv
<1> SUFFICES ASSUME Init PROVE AnchorInv
  OBVIOUS
<1>1. \A p \in Process : proc[p].pc \in {"boot", "idle"}
  BY LocalFacts DEF Init, Pc
<1>2. "auto" \in Process /\ epochs = file.epochs /\ Len(epochs) = 1 /\ Len(chain) = 0
  BY DEF Init, Process, NoFile, Fresh
<1>3. Extends(file.epochs, epochs) /\ Anchored(file.epochs, chain)
  BY <1>2 DEF Extends, Anchored
<1> QED BY <1>1, <1>2, <1>3 DEF AnchorInv, SavedFirst

(* What the contract holds for epoch n is the root the daemon has for it,  *)
(* after any number of restarts too: the loop saves an epoch before it     *)
(* anchors it, and a snapshot that is written extends the file, unless a   *)
(* request anchored an epoch before the file had it, or a save was late,   *)
(* failed or was cut off.                                                  *)
THEOREM AnchorsAlwaysMatch == Spec => []AnchorsMatchSavedEpochs
<1>1. AnchorInv /\ CoverInv => AnchorsMatchSavedEpochs
  <2> SUFFICES ASSUME AnchorInv, CoverInv, ~lost, mode = "up"
               PROVE  \A i \in 1..Len(chain) :
                        /\ chain[i].epoch + 1 < Len(epochs)
                        /\ epochs[chain[i].epoch + 1].root = chain[i].root
    BY DEF AnchorsMatchSavedEpochs, AnchorsMatchEpochs
  <2>1. /\ epochs \in Seq(Epoch) /\ file.epochs \in Seq(Epoch) /\ chain \in Seq(Anchor)
        /\ Extends(file.epochs, epochs) /\ Anchored(file.epochs, chain)
    BY DEF CoverInv, TypeOK, SavedState, AnchorInv
  <2>2. Anchored(epochs, chain)
    BY <2>1, AnchoredLater
  <2> QED BY <2>2 DEF Anchored
<1>2. AnchorInv /\ MarksInv /\ CoverInv /\ CoverInv' /\ IdleWhenDown /\ [Next]_vars
        => AnchorInv'
  BY AnchorInvStep DEF CoverInv
<1>3. MarksInv /\ CoverInv /\ IdleWhenDown /\ [Next]_vars => MarksInv'
  BY MarksInvStep
<1> QED BY <1>1, <1>2, <1>3, AnchorInit, MarksInit, CoverAlways, PTL DEF Spec
===============================================================================
