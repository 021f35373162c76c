----------------------------- MODULE RolesProofs ------------------------------
(***************************************************************************)
(* Theorems about attester, reader and attestation manager, for any number *)
(* of writes, epochs, publishers, failures and restarts.                   *)
(***************************************************************************)
EXTENDS Roles, FiniteSetTheorems, TLAPS

-----------------------------------------------------------------------------
(* The chain and the attester *)

Entry ==
  [from : Nat, to : Nat, root : {NoOplog} \cup SUBSET Nat, cid : BOOLEAN, keyed : BOOLEAN]

SourceTypes ==
  /\ writes \in Nat
  /\ replica \in [first : Nat, majority : Nat]
  /\ chain \in Seq(Entry) /\ Len(chain) <= MaxEpochs

AttesterTypes ==
  /\ attested \subseteq 1..Len(chain)
  /\ last \in Nat /\ last <= Len(chain)
  /\ task \in [Task -> [pc : {"idle", "read", "submit"}, seq : Nat, target : Nat]]
  /\ seen \in [1..MaxEpochs -> SUBSET {"bare", "alert", "failed", "whole", "part"}]

(* The loop is at a sequence of the chain, and so is a task about to       *)
(* submit; the scan may be told of sequences there are not.                *)
TaskInRange ==
  /\ \A t \in Task : task[t].pc # "idle" =>
       1 <= task[t].seq /\ task[t].seq <= task[t].target /\ task[t].target <= MaxEpochs
  /\ task["loop"].pc # "idle" => task["loop"].target <= Len(chain)
  /\ \A t \in Task : task[t].pc = "submit" => task[t].seq <= Len(chain)

(* What was attested, or is about to be, agreed with a whole range. *)
Agreed(n) == "part" \in seen[n] \/ Complete(n)

AgreedBeforeSubmit ==
  /\ \A n \in attested : Agreed(n)
  /\ \A t \in Task : task[t].pc = "submit" => Agreed(task[t].seq)

(* The sequences up to m were attested or looked at in vain. *)
Dealt(n) == n \in attested \/ seen[n] \cap {"bare", "alert", "failed"} # {}
DealtUpTo(m) == \A n \in 1..m : Dealt(n)

(* The loop's own position counts, not only last: a sequence that failed   *)
(* leaves last behind, and a later one that succeeds jumps over it.        *)
LoopDealt ==
  /\ DealtUpTo(last)
  /\ task["loop"].pc # "idle" => DealtUpTo(task["loop"].seq - 1)

AttesterInv ==
  SourceTypes /\ AttesterTypes /\ TaskInRange /\ AgreedBeforeSubmit /\ LoopDealt

-----------------------------------------------------------------------------
LEMMA EntryOf ==
  ASSUME SourceTypes, NEW n \in 1..Len(chain)
  PROVE  chain[n] \in Entry /\ n \in 1..MaxEpochs
BY RolesAssumption DEF SourceTypes

(* The chain only grows at its end. *)
LEMMA CommitExtends ==
  ASSUME SourceTypes, Commit
  PROVE  /\ SourceTypes'
         /\ Len(chain') = Len(chain) + 1
         /\ \A n \in 1..Len(chain) : chain'[n] = chain[n]
<1>1. From \in Nat
  <2>1. CASE chain = <<>>
    BY <2>1 DEF From
  <2>2. CASE chain # <<>>
    <3>1. Len(chain) \in 1..Len(chain) /\ chain[Len(chain)] \in Entry
      BY <2>2 DEF SourceTypes
    <3> QED BY <2>2, <3>1 DEF From, Last, Entry
  <2> QED BY <2>1, <2>2
<1>2. PICK root \in {NoOplog} \cup SUBSET (From..(writes - 1)), cid \in BOOLEAN, keyed \in BOOLEAN :
         chain' = Append(chain, [from |-> From, to |-> writes, root |-> root, cid |-> cid, keyed |-> keyed])
  BY DEF Commit
<1> DEFINE e == [from |-> From, to |-> writes, root |-> root, cid |-> cid, keyed |-> keyed]
<1>3. root \in {NoOplog} \cup SUBSET Nat
  BY <1>1 DEF SourceTypes
<1>4. e \in Entry
  BY <1>1, <1>3 DEF Entry, SourceTypes
<1>5. chain' = Append(chain, e)
  BY <1>2
<1> HIDE DEF e
<1>6. /\ chain' \in Seq(Entry) /\ Len(chain') = Len(chain) + 1
      /\ \A n \in 1..Len(chain) : chain'[n] = chain[n]
  BY <1>4, <1>5 DEF SourceTypes
<1>7. Len(chain') <= MaxEpochs /\ writes' = writes /\ replica' = replica
  BY <1>6, RolesAssumption DEF Commit, SourceTypes
<1> QED BY <1>6, <1>7 DEF SourceTypes

(* What the invariant says of the attester survives a longer chain. *)
LEMMA LongerChainKeeps ==
  ASSUME AttesterInv, SourceTypes', Len(chain') >= Len(chain),
         \A n \in 1..Len(chain) : chain'[n] = chain[n],
         UNCHANGED attester
  PROVE  AttesterInv'
<1>1. Len(chain) \in Nat /\ Len(chain') \in Nat
  BY DEF AttesterInv, SourceTypes
<1>2. AttesterTypes'
  BY <1>1 DEF AttesterInv, AttesterTypes, attester
<1>3. TaskInRange'
  <2>1. task' = task /\ task["loop"].target \in Nat /\ \A t \in Task : task[t].seq \in Nat
    BY DEF AttesterInv, AttesterTypes, attester, Task
  <2> QED BY <1>1, <2>1 DEF AttesterInv, TaskInRange
<1>4. \A n \in 1..Len(chain) : Agreed(n)' <=> Agreed(n)
  BY DEF Agreed, Complete, attester
<1>5. AgreedBeforeSubmit'
  <2>1. \A n \in attested' : Agreed(n)'
    BY <1>4 DEF AttesterInv, AgreedBeforeSubmit, AttesterTypes, attester
  <2>2. ASSUME NEW t \in Task, task'[t].pc = "submit"
        PROVE  Agreed(task[t].seq)'
    <3>1. task[t].seq \in 1..Len(chain) /\ Agreed(task[t].seq)
      BY <1>1, <2>2 DEF AttesterInv, AgreedBeforeSubmit, TaskInRange, AttesterTypes, attester
    <3>2. task' = task
      BY DEF attester
    <3> HIDE DEF Agreed
    <3> QED BY <3>1, <3>2, <1>4
  <2> QED BY <2>1, <2>2 DEF AgreedBeforeSubmit
<1>6. LoopDealt'
  BY DEF AttesterInv, LoopDealt, DealtUpTo, Dealt, attester
<1> QED BY <1>2, <1>3, <1>5, <1>6 DEF AttesterInv

(* Findings are only added. *)
LEMMA MoreSeen ==
  ASSUME AttesterInv, UNCHANGED chain,
         \A n \in 1..MaxEpochs : seen[n] \subseteq seen'[n],
         attested \subseteq attested'
  PROVE  /\ \A n \in 1..MaxEpochs : Agreed(n) => Agreed(n)'
         /\ \A m \in Nat : m <= MaxEpochs /\ DealtUpTo(m) => DealtUpTo(m)'
<1>1. \A n \in 1..MaxEpochs : Agreed(n) => Agreed(n)'
  BY DEF Agreed, Complete
<1>2. \A n \in 1..MaxEpochs : Dealt(n) => Dealt(n)'
  BY DEF Dealt
<1>3. \A m \in Nat : m <= MaxEpochs => \A n \in 1..m : n \in 1..MaxEpochs
  BY RolesAssumption
<1> QED BY <1>1, <1>2, <1>3 DEF DealtUpTo

(* The next sequence, or the end of the pass: the sequence that is left    *)
(* has been dealt with.                                                    *)
LEMMA GoesKeeps ==
  ASSUME AttesterInv, NEW t \in Task, NEW done \in BOOLEAN,
         NEW n, n = task[t].seq, task[t].pc # "idle", Goes(t, done), UNCHANGED source,
         seen' \in [1..MaxEpochs -> SUBSET {"bare", "alert", "failed", "whole", "part"}],
         \A m \in 1..MaxEpochs : seen[m] \subseteq seen'[m],
         attested \subseteq attested',
         attested' \subseteq attested \cup {n},
         attested' # attested => Agreed(n) /\ n <= Len(chain),
         t = "loop" => Dealt(n) \/ n \in attested' \/
                         seen'[n] \cap {"bare", "alert", "failed"} # {}
  PROVE  AttesterInv'
<1> DEFINE l == task[t]
           ln == IF l.seq = l.target THEN Idle ELSE [l EXCEPT !.pc = "read", !.seq = n + 1]
<1>1. /\ l \in [pc : {"idle", "read", "submit"}, seq : Nat, target : Nat]
      /\ 1 <= n /\ n <= l.target /\ l.target <= MaxEpochs
      /\ t = "loop" => l.target <= Len(chain)
      /\ Len(chain) \in Nat /\ Len(chain) <= MaxEpochs /\ MaxEpochs \in Nat
  BY RolesAssumption DEF AttesterInv, AttesterTypes, TaskInRange, SourceTypes
<1>2. n \in 1..MaxEpochs /\ (t = "loop" => n \in 1..Len(chain))
  BY <1>1
<1>3. SourceTypes' /\ chain' = chain
  BY DEF AttesterInv, SourceTypes, source
<1>4. /\ ln \in [pc : {"idle", "read", "submit"}, seq : Nat, target : Nat]
      /\ ln.pc \in {"idle", "read"}
      /\ ln.pc # "idle" => ln.seq = n + 1 /\ ln.target = l.target /\ n < l.target
  <2>1. CASE l.seq = l.target
    BY <2>1 DEF Idle
  <2>2. CASE l.seq # l.target
    <3>1. ln = [l EXCEPT !.pc = "read", !.seq = n + 1]
      BY <2>2
    <3>2. n + 1 \in Nat /\ n < l.target
      BY <1>1, <2>2
    <3> HIDE DEF ln, l
    <3> QED BY <1>1, <3>1, <3>2
  <2> QED BY <2>1, <2>2
<1>5. task' = [task EXCEPT ![t] = ln]
  BY Zenon DEF Goes
<1>6. task'[t] = ln /\ \A u \in Task \ {t} : task'[u] = task[u]
  BY <1>5 DEF AttesterInv, AttesterTypes
<1>7. last' \in {last, n} /\ (t # "loop" => last' = last)
  BY Zenon DEF Goes
<1>8. /\ \A m \in 1..MaxEpochs : Agreed(m) => Agreed(m)'
      /\ \A m \in Nat : m <= MaxEpochs /\ DealtUpTo(m) => DealtUpTo(m)'
  BY <1>3, MoreSeen
<1>9. t = "loop" => Dealt(n)'
  BY <1>2 DEF Dealt
<1> HIDE DEF ln
<1>10. AttesterTypes'
  <2>1. task' \in [Task -> [pc : {"idle", "read", "submit"}, seq : Nat, target : Nat]]
    BY <1>4, <1>5 DEF AttesterInv, AttesterTypes
  <2>2. last' \in Nat /\ last' <= Len(chain)
    BY <1>1, <1>7 DEF AttesterInv, AttesterTypes
  <2>3. attested' \subseteq 1..Len(chain)
    BY <1>1, <1>2 DEF AttesterInv, AttesterTypes
  <2> QED BY <2>1, <2>2, <2>3, <1>3 DEF AttesterTypes
<1>11. TaskInRange'
  <2>1. ASSUME NEW u \in Task, task'[u].pc # "idle"
        PROVE  /\ 1 <= task'[u].seq /\ task'[u].seq <= task'[u].target /\ task'[u].target <= MaxEpochs
               /\ u = "loop" => task'[u].target <= Len(chain)
               /\ task'[u].pc = "submit" => task'[u].seq <= Len(chain)
    <3>1. CASE u = t
      BY <3>1, <2>1, <1>1, <1>4, <1>6
    <3>2. CASE u # t
      BY <3>2, <2>1, <1>6 DEF AttesterInv, TaskInRange
    <3> QED BY <3>1, <3>2
  <2> QED BY <2>1, <1>3 DEF TaskInRange, Task
<1>12. AgreedBeforeSubmit'
  <2>1. ASSUME NEW m \in attested'
        PROVE  Agreed(m)'
    <3>1. Agreed(m) /\ m \in 1..MaxEpochs
      BY <1>1, <1>2 DEF AttesterInv, AgreedBeforeSubmit, AttesterTypes
    <3> QED BY <3>1, <1>8
  <2>2. ASSUME NEW u \in Task, task'[u].pc = "submit"
        PROVE  Agreed(task[u].seq)'
    <3>1. u # t /\ task'[u] = task[u]
      BY <2>2, <1>4, <1>6
    <3>2. task[u].seq \in 1..MaxEpochs /\ Agreed(task[u].seq)
      BY <2>2, <3>1, <1>1 DEF AttesterInv, AgreedBeforeSubmit, TaskInRange, AttesterTypes
    <3> HIDE DEF Agreed
    <3> QED BY <3>1, <3>2, <1>8
  <2> QED BY <2>1, <2>2 DEF AgreedBeforeSubmit
<1>13. LoopDealt'
  <2>1. DealtUpTo(last)' \/ last' # last
    BY <1>1, <1>8 DEF AttesterInv, LoopDealt, AttesterTypes
  <2>2. CASE t = "loop"
    <3>1. DealtUpTo(n - 1) /\ n - 1 \in Nat /\ n - 1 <= MaxEpochs
      BY <2>2, <1>1 DEF AttesterInv, LoopDealt
    <3>2. \A m \in 1..(n - 1) : Dealt(m)'
      BY <3>1, <1>8 DEF DealtUpTo
    <3>3. \A m \in 1..n : Dealt(m)'
      BY <2>2, <3>2, <1>1, <1>9
    <3>4. last' = n => DealtUpTo(last)'
      BY <3>3 DEF DealtUpTo
    <3>5. task'["loop"].pc # "idle" => DealtUpTo(task["loop"].seq - 1)'
      <4>1. task'["loop"].pc # "idle" => task'["loop"].seq - 1 = n
        BY <2>2, <1>1, <1>4, <1>6
      <4> QED BY <4>1, <3>3 DEF DealtUpTo
    <3> QED BY <2>1, <3>4, <3>5, <1>7 DEF LoopDealt
  <2>3. CASE t # "loop"
    <3>1. task'["loop"] = task["loop"] /\ last' = last
      BY <2>3, <1>6, <1>7 DEF Task
    <3>2. task["loop"].pc # "idle" =>
            task["loop"].seq - 1 \in Nat /\ task["loop"].seq - 1 <= MaxEpochs
      BY <1>1 DEF AttesterInv, TaskInRange, AttesterTypes, Task
    <3>3. task["loop"].pc # "idle" => DealtUpTo(task["loop"].seq - 1)'
      <4>1. ASSUME task["loop"].pc # "idle", NEW m \in 1..(task["loop"].seq - 1)
            PROVE  Dealt(m)'
        <5>1. Dealt(m) /\ m \in 1..MaxEpochs
          BY <4>1, <3>2, <1>1 DEF AttesterInv, LoopDealt, DealtUpTo
        <5> QED BY <5>1 DEF Dealt
      <4> QED BY <4>1, <3>1 DEF DealtUpTo
    <3> QED BY <2>1, <3>1, <3>3 DEF LoopDealt
  <2> QED BY <2>2, <2>3
<1> QED BY <1>3, <1>10, <1>11, <1>12, <1>13 DEF AttesterInv

LEMMA NoteAdds ==
  ASSUME AttesterInv, NEW n \in 1..MaxEpochs,
         NEW what \in {"bare", "alert", "failed", "whole", "part"}, Note(n, what)
  PROVE  /\ seen' \in [1..MaxEpochs -> SUBSET {"bare", "alert", "failed", "whole", "part"}]
         /\ \A m \in 1..MaxEpochs : seen[m] \subseteq seen'[m]
         /\ n <= Len(chain) => what \in seen'[n]
<1>1. CASE n > Len(chain)
  BY <1>1 DEF Note, AttesterInv, AttesterTypes, SourceTypes
<1>2. CASE ~(n > Len(chain))
  BY <1>2 DEF Note, AttesterInv, AttesterTypes
<1> QED BY <1>1, <1>2

(* A member that holds the whole range hashes every write of it. *)
LEMMA WholeIsComplete ==
  ASSUME SourceTypes, NEW n \in 1..Len(chain), HeldWhole(n),
         ComputeOplogRange(chain[n].from, chain[n].to) = chain[n].root
  PROVE  Complete(n)
<1>1. chain[n].from \in Nat /\ chain[n].to \in Nat
  BY EntryOf DEF Entry
<1>2. replica.first \in Nat /\ replica.majority \in Nat
  BY DEF SourceTypes
<1>3. {w \in chain[n].from..(chain[n].to - 1) : w >= replica.first}
        = chain[n].from..(chain[n].to - 1)
  BY <1>1, <1>2 DEF HeldWhole
<1>4. ComputeOplogRange(chain[n].from, chain[n].to)
        = {w \in chain[n].from..(chain[n].to - 1) : w >= replica.first}
  <2>1. ~(chain[n].to > replica.majority)
    BY <1>1, <1>2 DEF HeldWhole
  <2> QED BY <2>1 DEF ComputeOplogRange
<1> QED BY <1>3, <1>4 DEF Complete

LEMMA TaskAt ==
  ASSUME AttesterInv, NEW t \in Task, task[t].pc # "idle"
  PROVE  /\ task[t].seq \in 1..MaxEpochs
         /\ t = "loop" \/ task[t].pc = "submit" => task[t].seq \in 1..Len(chain)
BY RolesAssumption DEF AttesterInv, AttesterTypes, TaskInRange, SourceTypes

LEMMA AttesterInit == Init => AttesterInv
<1> SUFFICES ASSUME Init PROVE AttesterInv
  OBVIOUS
<1>1. SourceTypes
  BY RolesAssumption DEF Init, SourceTypes
<1>2. AttesterTypes
  BY DEF Init, AttesterTypes, Idle
<1>3. TaskInRange /\ AgreedBeforeSubmit /\ LoopDealt
  BY DEF Init, TaskInRange, AgreedBeforeSubmit, LoopDealt, DealtUpTo, Idle, Task
<1> QED BY <1>1, <1>2, <1>3 DEF AttesterInv

LEMMA ExamineKeeps ==
  ASSUME AttesterInv, NEW t \in Task, Examine(t)
  PROVE  AttesterInv'
<1> DEFINE c == chain[task[t].seq]
<1>0. PICK n : n = task[t].seq
  OBVIOUS
<1>1. /\ task[t].pc = "read" /\ UNCHANGED source /\ attested' = attested
      /\ n \in 1..MaxEpochs /\ (t = "loop" => n \in 1..Len(chain)) /\ Len(chain) \in Nat
  BY <1>0, TaskAt DEF Examine, AttesterInv, SourceTypes
<1>2. CASE n > Len(chain) \/ c.root = NoOplog
  <2>1. Goes(t, TRUE) /\ Note(n, "bare")
    BY <1>0, <1>2 DEF Examine
  <2>2. t = "loop" => n <= Len(chain)
    BY <1>1
  <2> QED BY <1>0, <1>1, <2>1, <2>2, NoteAdds, GoesKeeps
<1>3. CASE ~(n > Len(chain)) /\ c.root # NoOplog /\ ComputeOplogRange(c.from, c.to) # c.root
  <2>1. Goes(t, TRUE) /\ Note(n, "alert")
    BY <1>0, <1>3 DEF Examine
  <2>2. t = "loop" => n <= Len(chain)
    BY <1>1
  <2> QED BY <1>0, <1>1, <2>1, <2>2, NoteAdds, GoesKeeps
<1>4. CASE ~(n > Len(chain)) /\ c.root # NoOplog /\ ComputeOplogRange(c.from, c.to) = c.root
  <2>1. /\ task' = [task EXCEPT ![t].pc = "submit"] /\ last' = last
        /\ Note(n, IF HeldWhole(n) THEN "whole" ELSE "part")
    BY <1>0, <1>4 DEF Examine
  <2>2. /\ seen' \in [1..MaxEpochs -> SUBSET {"bare", "alert", "failed", "whole", "part"}]
        /\ \A m \in 1..MaxEpochs : seen[m] \subseteq seen'[m]
        /\ ~HeldWhole(n) => "part" \in seen'[n]
    <3>1. CASE HeldWhole(n)
      BY <2>1, <3>1, <1>1, NoteAdds
    <3>2. CASE ~HeldWhole(n)
      <4>1. n <= Len(chain)
        BY <1>1, <1>4
      <4> QED BY <2>1, <3>2, <4>1, <1>1, NoteAdds
    <3> QED BY <3>1, <3>2
  <2>3. SourceTypes' /\ chain' = chain
    BY <1>1 DEF AttesterInv, SourceTypes, source
  <2>4. /\ \A m \in 1..MaxEpochs : Agreed(m) => Agreed(m)'
        /\ \A m \in Nat : m <= MaxEpochs /\ DealtUpTo(m) => DealtUpTo(m)'
    BY <1>1, <2>2, <2>3, MoreSeen
  <2>5. Agreed(n)'
    <3>1. HeldWhole(n) => Complete(n)
      BY <1>0, <1>1, <1>4, WholeIsComplete DEF AttesterInv
    <3>2. Complete(n) => Complete(n)'
      BY <2>3 DEF Complete
    <3> QED BY <3>1, <3>2, <2>2 DEF Agreed
  <2>6. /\ \A u \in Task : task'[u].seq = task[u].seq /\ task'[u].target = task[u].target
        /\ \A u \in Task : task'[u].pc = IF u = t THEN "submit" ELSE task[u].pc
        /\ task' \in [Task -> [pc : {"idle", "read", "submit"}, seq : Nat, target : Nat]]
    BY <2>1 DEF AttesterInv, AttesterTypes
  <2>7. AttesterTypes'
    BY <1>1, <2>1, <2>2, <2>3, <2>6 DEF AttesterInv, AttesterTypes
  <2>8. TaskInRange'
    <3>1. n <= Len(chain)
      BY <1>1, <1>4
    <3>2. \A u \in Task : task'[u].pc = "submit" => task'[u].seq <= Len(chain)
      BY <1>0, <3>1, <2>6 DEF AttesterInv, TaskInRange
    <3>3. task'["loop"].pc # "idle" => task'["loop"].target <= Len(chain)
      BY <1>1, <2>6 DEF AttesterInv, TaskInRange, Task
    <3>4. \A u \in Task : task'[u].pc # "idle" =>
            1 <= task'[u].seq /\ task'[u].seq <= task'[u].target /\ task'[u].target <= MaxEpochs
      BY <1>1, <2>6 DEF AttesterInv, TaskInRange
    <3> QED BY <2>3, <3>2, <3>3, <3>4 DEF TaskInRange
  <2>9. AgreedBeforeSubmit'
    <3>1. \A m \in attested' : Agreed(m)'
      <4>1. \A m \in attested : Agreed(m) /\ m \in 1..MaxEpochs
        BY RolesAssumption DEF AttesterInv, AttesterTypes, AgreedBeforeSubmit, SourceTypes
      <4> QED BY <4>1, <2>4, <1>1
    <3>2. ASSUME NEW u \in Task, task'[u].pc = "submit"
          PROVE  Agreed(task[u].seq)'
      <4>0. PICK m : m = task[u].seq
        OBVIOUS
      <4>1. m = task'[u].seq
        BY <2>6, <4>0
      <4>2. CASE u = t
        BY <4>2, <4>0, <4>1, <1>0, <2>5
      <4>3. CASE u # t
        <5>1. task[u].pc = "submit"
          BY <4>3, <3>2, <2>6
        <5>2. Agreed(m) /\ m \in 1..MaxEpochs
          BY <5>1, <4>0, TaskAt DEF AttesterInv, AgreedBeforeSubmit
        <5>3. Agreed(m)'
          BY <5>2, <2>4
        <5> HIDE DEF Agreed
        <5> QED BY <4>1, <5>3
      <4> QED BY <4>2, <4>3
    <3> QED BY <3>1, <3>2 DEF AgreedBeforeSubmit
  <2>10. LoopDealt'
    <3>1. DealtUpTo(last)'
      BY <2>1, <2>4, RolesAssumption DEF AttesterInv, LoopDealt, AttesterTypes, SourceTypes
    <3>2. ASSUME task'["loop"].pc # "idle"
          PROVE  DealtUpTo(task["loop"].seq - 1)'
      <4>0. PICK m : m = task["loop"].seq - 1
        OBVIOUS
      <4>1. task["loop"].pc # "idle" /\ m = task'["loop"].seq - 1
        BY <3>2, <2>6, <1>1, <4>0 DEF Task
      <4>2. task["loop"].seq \in 1..MaxEpochs
        BY <4>1, TaskAt DEF Task
      <4>3. DealtUpTo(m) /\ m \in Nat /\ m <= MaxEpochs
        BY <4>0, <4>1, <4>2, RolesAssumption DEF AttesterInv, LoopDealt
      <4>4. DealtUpTo(m)'
        BY <4>3, <2>4
      <4> HIDE DEF DealtUpTo
      <4> QED BY <4>1, <4>4
    <3> QED BY <3>1, <3>2 DEF LoopDealt
  <2> QED BY <2>3, <2>7, <2>8, <2>9, <2>10 DEF AttesterInv
<1> QED BY <1>2, <1>3, <1>4

LEMMA SubmitKeeps ==
  ASSUME AttesterInv, NEW t \in Task, SubmitAttestation(t)
  PROVE  AttesterInv'
<1>0. PICK n : n = task[t].seq
  OBVIOUS
<1>1. /\ task[t].pc = "submit" /\ UNCHANGED source /\ seen' = seen
      /\ attested' = attested \cup {n} /\ Goes(t, TRUE)
      /\ n \in 1..MaxEpochs /\ n <= Len(chain) /\ Agreed(n)
  BY <1>0, TaskAt DEF SubmitAttestation, AttesterInv, AgreedBeforeSubmit, TaskInRange
<1>2. seen' \in [1..MaxEpochs -> SUBSET {"bare", "alert", "failed", "whole", "part"}]
  BY <1>1 DEF AttesterInv, AttesterTypes
<1> QED BY <1>0, <1>1, <1>2, GoesKeeps

LEMMA AttestFailsKeeps ==
  ASSUME AttesterInv, NEW t \in Task, AttestFails(t)
  PROVE  AttesterInv'
<1>0. PICK n : n = task[t].seq
  OBVIOUS
<1>1. /\ task[t].pc # "idle" /\ UNCHANGED source /\ attested' = attested
      /\ Note(n, "failed") /\ n \in 1..MaxEpochs /\ (t = "loop" => n <= Len(chain))
      /\ Goes(t, task[t].pc = "submit")
  BY <1>0, TaskAt DEF AttestFails
<1>2. PICK done \in BOOLEAN : Goes(t, done)
  <2>1. CASE task[t].pc = "submit"
    <3>1. Goes(t, TRUE)
      BY <1>1, <2>1 DEF Goes
    <3> QED BY <3>1
  <2>2. CASE task[t].pc # "submit"
    <3>1. Goes(t, FALSE)
      BY <1>1, <2>2 DEF Goes
    <3> QED BY <3>1
  <2> QED BY <2>1, <2>2
<1> QED BY <1>0, <1>1, <1>2, NoteAdds, GoesKeeps

(* Steps that change what the two tasks do and nothing else of the         *)
(* attester: a new pass, and a restart.                                    *)
LEMMA NewPassKeeps ==
  ASSUME AttesterInv, UNCHANGED <<source, attested, seen>>,
         last' \in {0, last},
         task' \in [Task -> [pc : {"idle", "read", "submit"}, seq : Nat, target : Nat]],
         TaskInRange',
         \A t \in Task : task'[t].pc = "submit" => task'[t] = task[t],
         task'["loop"].pc # "idle" =>
           task'["loop"] = task["loop"] \/ task'["loop"].seq = last + 1
  PROVE  AttesterInv'
<1>1. SourceTypes' /\ chain' = chain /\ seen' = seen /\ attested' = attested
  BY DEF AttesterInv, SourceTypes, source
<1>2. AttesterTypes'
  BY <1>1 DEF AttesterInv, AttesterTypes, SourceTypes
<1>3. AgreedBeforeSubmit'
  BY <1>1 DEF AttesterInv, AgreedBeforeSubmit, Agreed, Complete
<1>4. \A m : DealtUpTo(m)' <=> DealtUpTo(m)
  BY <1>1 DEF DealtUpTo, Dealt
<1>5. DealtUpTo(last)'
  BY <1>1 DEF AttesterInv, LoopDealt, DealtUpTo, Dealt
<1>6. ASSUME task'["loop"].pc # "idle"
      PROVE  DealtUpTo(task["loop"].seq - 1)'
  <2>0. PICK m : m = task'["loop"].seq - 1
    OBVIOUS
  <2>1. CASE task'["loop"] = task["loop"]
    <3>1. DealtUpTo(m)
      BY <1>6, <2>0, <2>1 DEF AttesterInv, LoopDealt
    <3> QED BY <3>1, <2>0, <1>1 DEF DealtUpTo, Dealt
  <2>2. CASE task'["loop"].seq = last + 1
    <3>1. m = last
      BY <2>0, <2>2 DEF AttesterInv, AttesterTypes
    <3>2. DealtUpTo(m)
      BY <3>1 DEF AttesterInv, LoopDealt
    <3> QED BY <3>2, <2>0, <1>1 DEF DealtUpTo, Dealt
  <2> QED BY <1>6, <2>1, <2>2
<1> QED BY <1>1, <1>2, <1>3, <1>5, <1>6 DEF AttesterInv, LoopDealt

LEMMA WakeKeeps ==
  ASSUME AttesterInv, Wake
  PROVE  AttesterInv'
<1> DEFINE l == [pc |-> "read", seq |-> last + 1, target |-> Len(chain)]
<1>1. /\ last \in Nat /\ Len(chain) \in Nat /\ last < Len(chain) /\ Len(chain) <= MaxEpochs
      /\ task' = [task EXCEPT !["loop"] = l]
      /\ UNCHANGED <<source, attested, seen>> /\ last' = last /\ chain' = chain
  BY DEF Wake, AttesterInv, AttesterTypes, SourceTypes, source
<1>2. l \in [pc : {"idle", "read", "submit"}, seq : Nat, target : Nat]
  BY <1>1
<1>3. l.pc = "read" /\ l.seq = last + 1 /\ l.target = Len(chain)
  OBVIOUS
<1> HIDE DEF l
<1>4. /\ task' \in [Task -> [pc : {"idle", "read", "submit"}, seq : Nat, target : Nat]]
      /\ task'["loop"] = l /\ \A t \in Task \ {"loop"} : task'[t] = task[t]
  BY <1>1, <1>2 DEF AttesterInv, AttesterTypes, Task
<1>5. TaskInRange'
  BY <1>1, <1>3, <1>4 DEF AttesterInv, TaskInRange, Task
<1> QED BY <1>1, <1>3, <1>4, <1>5, NewPassKeeps DEF Task

LEMMA ScanKeeps ==
  ASSUME AttesterInv, Scan
  PROVE  AttesterInv'
<1>0. PICK target \in 1..MaxEpochs :
        task' = [task EXCEPT !["scan"] = [pc |-> "read", seq |-> 1, target |-> target]]
  BY DEF Scan
<1> DEFINE l == [pc |-> "read", seq |-> 1, target |-> target]
<1>1. /\ target \in Nat /\ 1 <= target /\ target <= MaxEpochs /\ task' = [task EXCEPT !["scan"] = l]
      /\ UNCHANGED <<source, attested, seen>> /\ last' = last /\ chain' = chain
  <2>1. UNCHANGED <<source, attested, seen>> /\ last' = last /\ chain' = chain
    BY DEF Scan, source
  <2>2. target \in Nat /\ 1 <= target /\ target <= MaxEpochs
    BY RolesAssumption
  <2> QED BY <1>0, <2>1, <2>2
<1>2. l \in [pc : {"idle", "read", "submit"}, seq : Nat, target : Nat]
  BY <1>1
<1>3. l.pc = "read" /\ l.seq = 1 /\ l.target = target
  OBVIOUS
<1> HIDE DEF l
<1>4. /\ task' \in [Task -> [pc : {"idle", "read", "submit"}, seq : Nat, target : Nat]]
      /\ task'["scan"] = l /\ \A t \in Task \ {"scan"} : task'[t] = task[t]
  BY <1>1, <1>2 DEF AttesterInv, AttesterTypes, Task
<1>5. TaskInRange'
  BY <1>1, <1>3, <1>4 DEF AttesterInv, TaskInRange, Task
<1> QED BY <1>1, <1>3, <1>4, <1>5, NewPassKeeps DEF Task

LEMMA RestartAttesterKeeps ==
  ASSUME AttesterInv, RestartAttester
  PROVE  AttesterInv'
<1>1. /\ UNCHANGED <<source, attested, seen>> /\ last' = 0
      /\ task' = [t \in Task |-> Idle]
  BY DEF RestartAttester
<1>2. Idle \in [pc : {"idle", "read", "submit"}, seq : Nat, target : Nat] /\ Idle.pc = "idle"
  BY DEF Idle
<1>3. \A t \in Task : task'[t].pc = "idle"
  BY <1>1, <1>2
<1>4. TaskInRange'
  BY <1>3 DEF TaskInRange, Task
<1> QED BY <1>1, <1>2, <1>3, <1>4, NewPassKeeps DEF Task

(* Everybody else leaves the attester alone and may make the chain longer. *)
LEMMA SourceKeeps ==
  ASSUME AttesterInv, SourceNext
  PROVE  AttesterInv'
<1>1. CASE Commit
  <2>1. /\ SourceTypes' /\ Len(chain') = Len(chain) + 1 /\ Len(chain) \in Nat
        /\ \A n \in 1..Len(chain) : chain'[n] = chain[n]
    BY <1>1, CommitExtends DEF AttesterInv, SourceTypes
  <2> QED BY <1>1, <2>1, LongerChainKeeps DEF Commit
<1>2. CASE Write \/ Replicate \/ RollOver
  <2>1. SourceTypes' /\ chain' = chain /\ Len(chain) \in Nat /\ UNCHANGED attester
    BY <1>2 DEF AttesterInv, SourceTypes, Write, Replicate, RollOver, attester
  <2> QED BY <2>1, LongerChainKeeps
<1> QED BY <1>1, <1>2 DEF SourceNext

LEMMA QuietAttester ==
  ASSUME AttesterInv, UNCHANGED <<source, attester>>
  PROVE  AttesterInv'
<1>1. SourceTypes' /\ chain' = chain /\ Len(chain) \in Nat
  BY DEF AttesterInv, SourceTypes, source
<1> QED BY <1>1, LongerChainKeeps

LEMMA AttesterStep == AttesterInv /\ [Next]_vars => AttesterInv'
<1> SUFFICES ASSUME AttesterInv, [Next]_vars PROVE AttesterInv'
  OBVIOUS
<1>1. CASE SourceNext
  BY <1>1, SourceKeeps
<1>2. CASE AttesterNext
  BY <1>2, WakeKeeps, ScanKeeps, RestartAttesterKeeps, ExamineKeeps, SubmitKeeps,
     AttestFailsKeeps DEF AttesterNext, AttesterSteps
<1>3. CASE ReaderNext
  <2>1. UNCHANGED <<source, attester>>
    BY <1>3 DEF ReaderNext, StartRebuild, FetchBatch, ClearLocal, WriteAndReplay, EndRebuild,
       RestartReader
  <2> QED BY <2>1, QuietAttester
<1>4. CASE ManagerNext
  <2>1. UNCHANGED <<source, attester>>
    BY <1>4 DEF ManagerNext, AddPublisher, RemovePublisher, SubmitToManager, SetThreshold
  <2> QED BY <2>1, QuietAttester
<1>5. CASE UNCHANGED vars
  BY <1>5, QuietAttester DEF vars
<1> QED BY <1>1, <1>2, <1>3, <1>4, <1>5 DEF Next

LEMMA AttesterInvSound == AttesterInv => AttesterSound
<1> SUFFICES ASSUME AttesterInv PROVE AttesterSound
  OBVIOUS
<1>1. \A n \in attested : "part" \notin seen[n] => Complete(n)
  BY DEF AttesterInv, AgreedBeforeSubmit, Agreed
<1>2. ASSUME VerifyOplog = "complete", HeldWhole(Len(chain))
      PROVE  Complete(Len(chain))
  <2>1. chain # <<>>
    BY <1>2 DEF VerifyOplog
  <2>2. Len(chain) \in 1..Len(chain) /\ Last(chain) = chain[Len(chain)]
    BY <2>1 DEF AttesterInv, SourceTypes, Last
  <2>3. ComputeOplogRange(Last(chain).from, Last(chain).to) = Last(chain).root
    BY <1>2, <2>1 DEF VerifyOplog
  <2> QED BY <1>2, <2>2, <2>3, WholeIsComplete DEF AttesterInv
<1>3. NothingPassedUnexamined
  BY DEF AttesterInv, LoopDealt, DealtUpTo, Dealt, NothingPassedUnexamined
<1> QED BY <1>1, <1>2, <1>3 DEF AttesterSound, AttestedIsComplete

(* The attester attests only what agreed with a whole range, and leaves no *)
(* sequence behind that it did not look at or fail on, however the loop,   *)
(* the scan, failures, restarts and new commits interleave.                *)
THEOREM AttesterAlwaysSound == Spec => []AttesterSound
<1>1. Spec => []AttesterInv
  BY AttesterInit, AttesterStep, PTL DEF Spec
<1> QED BY <1>1, AttesterInvSound, PTL

-----------------------------------------------------------------------------
(* The reader *)

(* A copy holds lines of committed epochs only: batches are fetched by the *)
(* entries of the history.                                                 *)
Copies == Seq(1..Len(chain))

RebuildTypes ==
  rebuild \in [pc : {"none", "fetch", "write", "done"}, history : Copies, next : Nat \ {0},
               lines : Copies, before : Copies,
               outcome : {"none", "nothing", "error", "intact", "mismatch"}]

(* The copy is untouched until something was fetched, and what an outcome  *)
(* says of it stays true until the request ends.                           *)
OutcomeTells ==
  /\ rebuild.pc # "done" => rebuild.outcome = "none"
  /\ rebuild.pc = "fetch" => local = rebuild.before
  /\ rebuild.outcome = "intact" => local = [i \in 1..Reported |-> i]
  /\ rebuild.outcome = "nothing" => local = rebuild.before

ReaderInv == SourceTypes /\ RebuildTypes /\ local \in Copies /\ OutcomeTells

LEMMA NoRebuildType ==
  ASSUME SourceTypes
  PROVE  NoRebuild \in [pc : {"none", "fetch", "write", "done"}, history : Copies, next : Nat \ {0},
               lines : Copies, before : Copies,
               outcome : {"none", "nothing", "error", "intact", "mismatch"}]
<1>1. <<>> \in Copies
  BY DEF Copies, SourceTypes
<1> QED BY <1>1 DEF NoRebuild

LEMMA ReaderInit == Init => ReaderInv
<1> SUFFICES ASSUME Init PROVE ReaderInv
  OBVIOUS
<1>1. SourceTypes
  BY AttesterInit DEF AttesterInv
<1>2. RebuildTypes
  BY <1>1, NoRebuildType DEF Init, RebuildTypes
<1>3. local \in Copies
  BY <1>1 DEF Init, Copies, SourceTypes
<1>4. OutcomeTells
  BY DEF Init, OutcomeTells, NoRebuild
<1> QED BY <1>1, <1>2, <1>3, <1>4 DEF ReaderInv

LEMMA ReaderLongerChain ==
  ASSUME ReaderInv, SourceTypes', Len(chain') >= Len(chain), UNCHANGED reader
  PROVE  ReaderInv'
<1>1. Len(chain) \in Nat /\ Len(chain') \in Nat
  BY DEF ReaderInv, SourceTypes
<1>2. 1..Len(chain) \subseteq 1..Len(chain')
  BY <1>1
<1>3. Copies \subseteq Copies'
  <2> SUFFICES ASSUME NEW c \in Copies PROVE c \in Copies'
    OBVIOUS
  <2>1. c \in Seq(1..Len(chain'))
    <3> DEFINE A == 1..Len(chain)
               B == 1..Len(chain')
    <3>1. c \in Seq(A) /\ A \subseteq B
      BY <1>2 DEF Copies
    <3> HIDE DEF A, B
    <3>2. c \in Seq(B)
      BY <3>1
    <3> QED BY <3>2 DEF B
  <2> QED BY <2>1 DEF Copies
<1>4. rebuild' = rebuild /\ local' = local
  BY DEF reader
<1>5. RebuildTypes'
  <2> HIDE DEF Copies
  <2> QED BY <1>3, <1>4 DEF ReaderInv, RebuildTypes
<1>6. local' \in Copies'
  BY <1>3, <1>4 DEF ReaderInv
<1>7. OutcomeTells'
  BY <1>4 DEF ReaderInv, OutcomeTells, Reported
<1> QED BY <1>5, <1>6, <1>7 DEF ReaderInv

LEMMA HistoryType ==
  ASSUME SourceTypes
  PROVE  History \in Copies
<1>1. Len(chain) \in Nat /\ HistoryLimit \in Nat
  BY RolesAssumption DEF SourceTypes
<1> DEFINE n == IF Len(chain) < HistoryLimit THEN Len(chain) ELSE HistoryLimit
<1>2. n \in Nat /\ n <= Len(chain)
  BY <1>1
<1>3. History = [i \in 1..n |-> Len(chain) - i + 1]
  BY DEF History
<1> HIDE DEF n
<1>4. \A i \in 1..n : Len(chain) - i + 1 \in 1..Len(chain)
  BY <1>1, <1>2
<1> QED BY <1>2, <1>3, <1>4 DEF Copies

LEMMA ReaderKeeps ==
  ASSUME ReaderInv, ReaderNext
  PROVE  ReaderInv'
<1>0. /\ SourceTypes' /\ chain' = chain /\ Copies' = Copies
  BY DEF ReaderNext, StartRebuild, FetchBatch, ClearLocal, WriteAndReplay, EndRebuild,
     RestartReader, ReaderInv, SourceTypes, source, Copies
<1>1. SourceTypes /\ RebuildTypes /\ local \in Copies /\ OutcomeTells
  BY DEF ReaderInv
<1>2. CASE StartRebuild
  <2>1. /\ rebuild' = [NoRebuild EXCEPT !.pc = "fetch", !.history = History, !.before = local]
        /\ local' = local
    BY <1>2 DEF StartRebuild
  <2>2. History \in Copies
    BY <1>1, HistoryType
  <2> HIDE DEF History, Copies
  <2>3. RebuildTypes'
    BY <1>0, <1>1, <2>1, <2>2, NoRebuildType DEF RebuildTypes
  <2>4. OutcomeTells'
    BY <2>1 DEF OutcomeTells, NoRebuild
  <2> QED BY <1>0, <1>1, <2>1, <2>3, <2>4 DEF ReaderInv
<1>3. CASE FetchBatch
  <2>0. PICK n : n = rebuild.history[rebuild.next]
    OBVIOUS
  <2>1. /\ rebuild.pc = "fetch" /\ rebuild.next <= Len(rebuild.history) /\ local' = local
        /\ \/ rebuild' = [rebuild EXCEPT !.lines = IF HasBatch(n) THEN Append(rebuild.lines, n)
                                                   ELSE rebuild.lines, !.next = rebuild.next + 1]
           \/ rebuild' = [rebuild EXCEPT !.next = rebuild.next + 1]
    BY <1>3, <2>0 DEF FetchBatch
  <2>2. PICK k \in Nat \ {0}, ls \in Copies : rebuild' = [rebuild EXCEPT !.lines = ls, !.next = k]
    <3>1. rebuild.next + 1 \in Nat \ {0} /\ rebuild.lines \in Copies
      BY <1>1 DEF RebuildTypes
    <3>2. CASE rebuild' = [rebuild EXCEPT !.next = rebuild.next + 1]
      <4>1. rebuild' = [rebuild EXCEPT !.lines = rebuild.lines, !.next = rebuild.next + 1]
        BY <3>2, <1>1 DEF RebuildTypes
      <4> QED BY <3>1, <4>1
    <3>3. CASE HasBatch(n) /\ rebuild' = [rebuild EXCEPT !.lines = Append(rebuild.lines, n),
                                                        !.next = rebuild.next + 1]
      <4>1. Append(rebuild.lines, n) \in Copies
        <5>1. rebuild.next \in 1..Len(rebuild.history) /\ rebuild.history \in Copies
          BY <1>1, <2>1 DEF RebuildTypes, Copies
        <5>2. n \in 1..Len(chain)
          BY <5>1, <2>0 DEF Copies
        <5> QED BY <5>2, <3>1 DEF Copies
      <4> QED BY <3>1, <3>3, <4>1
    <3> QED BY <2>1, <3>1, <3>2, <3>3
  <2> HIDE DEF Copies
  <2>3. RebuildTypes'
    BY <1>0, <1>1, <2>2 DEF RebuildTypes
  <2>4. OutcomeTells'
    <3>1. rebuild.outcome = "none"
      BY <1>1, <2>1 DEF OutcomeTells
    <3>2. /\ rebuild'.pc = "fetch" /\ rebuild'.outcome = "none"
          /\ rebuild'.before = rebuild.before
      BY <1>1, <2>1, <2>2, <3>1 DEF RebuildTypes
    <3> QED BY <1>1, <2>1, <3>2 DEF OutcomeTells
  <2> QED BY <1>0, <1>1, <2>1, <2>3, <2>4 DEF ReaderInv
<1>4. CASE ClearLocal
  <2>1. rebuild.pc = "fetch"
    BY <1>4 DEF ClearLocal
  <2>2. rebuild.outcome = "none" /\ local = rebuild.before
    BY <1>1, <2>1 DEF OutcomeTells
  <2>3. CASE rebuild.lines = <<>>
    <3>1. rebuild' = [rebuild EXCEPT !.pc = "done", !.outcome = "nothing"] /\ local' = local
      BY <1>4, <2>3 DEF ClearLocal
    <3>2. /\ rebuild'.pc = "done" /\ rebuild'.outcome = "nothing"
          /\ rebuild'.before = rebuild.before /\ RebuildTypes'
      <4> HIDE DEF Copies
      <4> QED BY <1>0, <1>1, <3>1 DEF RebuildTypes
    <3>3. OutcomeTells'
      BY <2>2, <3>1, <3>2 DEF OutcomeTells
    <3> QED BY <1>0, <1>1, <3>1, <3>2, <3>3 DEF ReaderInv
  <2>4. CASE rebuild.lines # <<>>
    <3>1. rebuild' = [rebuild EXCEPT !.pc = "write"] /\ local' = <<>>
      BY <1>4, <2>4 DEF ClearLocal
    <3>2. rebuild'.pc = "write" /\ rebuild'.outcome = "none" /\ RebuildTypes'
      <4> HIDE DEF Copies
      <4> QED BY <1>0, <1>1, <2>2, <3>1 DEF RebuildTypes
    <3>3. OutcomeTells'
      BY <3>2 DEF OutcomeTells
    <3>4. <<>> \in Copies
      BY <1>1 DEF Copies, SourceTypes
    <3> QED BY <1>0, <3>1, <3>2, <3>3, <3>4 DEF ReaderInv
  <2> QED BY <2>3, <2>4
<1>5. CASE WriteAndReplay
  <2>0. PICK out : out = IF ~Replays(rebuild.lines) THEN "error"
                         ELSE IF RootMatches(rebuild.lines) THEN "intact" ELSE "mismatch"
    OBVIOUS
  <2>1. local' = rebuild.lines /\ rebuild' = [rebuild EXCEPT !.pc = "done", !.outcome = out]
    BY <1>5, <2>0 DEF WriteAndReplay
  <2>2. out \in {"error", "intact", "mismatch"}
    BY <2>0
  <2>3. /\ rebuild'.pc = "done" /\ rebuild'.outcome = out
        /\ rebuild'.history = rebuild.history /\ RebuildTypes'
    <3> HIDE DEF Copies
    <3> QED BY <1>0, <1>1, <2>1, <2>2 DEF RebuildTypes
  <2>4. out = "intact" => local' = [i \in 1..Reported |-> i]
    <3> SUFFICES ASSUME out = "intact" PROVE local' = [i \in 1..Reported |-> i]
      OBVIOUS
    <3>1. Replays(rebuild.lines) /\ Len(rebuild.lines) = Reported
      BY <2>0 DEF RootMatches
    <3>2. DOMAIN rebuild.lines = 1..Len(rebuild.lines)
      BY <1>1 DEF RebuildTypes, Copies
    <3> QED BY <2>1, <3>1, <3>2 DEF Replays
  <2>5. OutcomeTells'
    <3>1. Reported' = Reported
      BY <2>3 DEF Reported
    <3> QED BY <2>2, <2>3, <2>4, <3>1 DEF OutcomeTells
  <2>6. local' \in Copies
    BY <1>1, <2>1 DEF RebuildTypes
  <2> QED BY <1>0, <2>3, <2>5, <2>6 DEF ReaderInv
<1>6. CASE EndRebuild \/ RestartReader
  <2>1. rebuild' = NoRebuild /\ local' = local
    BY <1>6 DEF EndRebuild, RestartReader
  <2>2. RebuildTypes'
    <3> HIDE DEF Copies
    <3> QED BY <1>0, <1>1, <2>1, NoRebuildType DEF RebuildTypes
  <2>3. OutcomeTells'
    BY <2>1 DEF OutcomeTells, NoRebuild
  <2> QED BY <1>0, <1>1, <2>1, <2>2, <2>3 DEF ReaderInv
<1> QED BY <1>2, <1>3, <1>4, <1>5, <1>6 DEF ReaderNext

LEMMA ReaderStep == ReaderInv /\ [Next]_vars => ReaderInv'
<1> SUFFICES ASSUME ReaderInv, [Next]_vars PROVE ReaderInv'
  OBVIOUS
<1>0. Len(chain) \in Nat
  BY DEF ReaderInv, SourceTypes
<1>1. CASE Commit
  <2>1. SourceTypes' /\ Len(chain') = Len(chain) + 1 /\ UNCHANGED reader
    BY <1>1, CommitExtends DEF ReaderInv, Commit
  <2> QED BY <1>0, <2>1, ReaderLongerChain
<1>2. CASE Write \/ Replicate \/ RollOver
  <2>1. SourceTypes' /\ chain' = chain /\ UNCHANGED reader
    BY <1>2 DEF ReaderInv, SourceTypes, Write, Replicate, RollOver, reader
  <2> QED BY <1>0, <2>1, ReaderLongerChain
<1>3. CASE AttesterNext \/ ManagerNext \/ UNCHANGED vars
  <2>1. UNCHANGED <<source, reader>>
    BY <1>3 DEF AttesterNext, AttesterSteps, Wake, Scan, Examine, SubmitAttestation,
       RestartAttester, AttestFails, ManagerNext, AddPublisher, RemovePublisher,
       SubmitToManager, SetThreshold, vars
  <2>2. SourceTypes' /\ chain' = chain
    BY <2>1 DEF ReaderInv, SourceTypes, source
  <2> QED BY <1>0, <2>1, <2>2, ReaderLongerChain
<1>4. CASE ReaderNext
  BY <1>4, ReaderKeeps
<1> QED BY <1>1, <1>2, <1>3, <1>4 DEF Next, SourceNext

(* A copy with lines of committed epochs only verifies when every epoch    *)
(* is at its place.                                                        *)
LEMMA VerifiedIsWhole ==
  ASSUME SourceTypes, local \in Copies, VerifyReport = "verified"
  PROVE  \A i \in 1..Len(chain) : local[i] = i
<1>1. chain # <<>> /\ Len(chain) \in Range(local) /\ ChainIntact(local, Len(chain))
  BY DEF VerifyReport
<1>2. /\ Len(chain) \in Nat /\ Len(local) \in Nat /\ DOMAIN local = 1..Len(local)
      /\ \A j \in 1..Len(local) : local[j] \in 1..Len(chain)
  BY DEF SourceTypes, Copies
<1>3. \A i \in DOMAIN local : \A j \in 1..i : local[j] <= Len(chain)
  BY <1>2
<1>4. \A i \in DOMAIN local : local[i] = i
  BY <1>1, <1>3 DEF ChainIntact
<1>5. PICK k \in DOMAIN local : local[k] = Len(chain)
  BY <1>1 DEF Range
<1>6. k = Len(chain)
  BY <1>4, <1>5
<1> QED BY <1>2, <1>4, <1>6

(* What the outcome of a rebuild says is what is in events.jsonl, whatever *)
(* was committed, failed to be fetched or was interrupted meanwhile; a     *)
(* copy that verifies holds every committed epoch at its place.            *)
THEOREM RebuildAlwaysTells == Spec => []RebuildOutcomeTellsTheCopy
<1>1. ReaderInv => RebuildOutcomeTellsTheCopy
  <2> SUFFICES ASSUME ReaderInv PROVE RebuildOutcomeTellsTheCopy
    OBVIOUS
  <2> QED BY VerifiedIsWhole DEF ReaderInv, OutcomeTells, RebuildOutcomeTellsTheCopy
<1>2. Spec => []ReaderInv
  BY ReaderInit, ReaderStep, PTL DEF Spec
<1> QED BY <1>1, <1>2, PTL

-----------------------------------------------------------------------------
(* The K-of-N manager *)

(* One attestation per publisher and epoch, and finitely many of them. *)
ManagerInv ==
  /\ manager \in [publishers : SUBSET Publisher, threshold : Nat,
                  attestations : SUBSET [publisher : Publisher, epoch : 1..MaxEpochs,
                                         root : {"committed", "other"}]]
  /\ IsFiniteSet(manager.attestations)
  /\ \A a, b \in manager.attestations :
       a.publisher = b.publisher /\ a.epoch = b.epoch => a = b

LEMMA ManagerInit == Init => ManagerInv
BY FS_EmptySet DEF Init, ManagerInv

LEMMA ManagerKeeps ==
  ASSUME ManagerInv, ManagerNext
  PROVE  ManagerInv'
<1>1. ASSUME NEW p \in Publisher, AddPublisher(p) \/ RemovePublisher(p)
      PROVE  ManagerInv'
  BY <1>1 DEF ManagerInv, AddPublisher, RemovePublisher
<1>2. ASSUME NEW p \in Publisher, NEW epoch \in 1..MaxEpochs,
             NEW root \in {"committed", "other"}, SubmitToManager(p, epoch, root)
      PROVE  ManagerInv'
  <2> DEFINE x == Attestation(p, epoch, root)
             A == manager.attestations
  <2>1. /\ \A a \in A : ~(a.publisher = p /\ a.epoch = epoch)
        /\ manager' = [manager EXCEPT !.attestations = A \cup {x}]
    BY <1>2 DEF SubmitToManager
  <2>2. /\ x \in [publisher : Publisher, epoch : 1..MaxEpochs, root : {"committed", "other"}]
        /\ x.publisher = p /\ x.epoch = epoch
    BY DEF Attestation
  <2> HIDE DEF x
  <2>3. IsFiniteSet(A \cup {x})
    BY FS_AddElement DEF ManagerInv
  <2>4. manager'.attestations = A \cup {x}
    BY <2>1 DEF ManagerInv
  <2>5. \A a, b \in A \cup {x} : a.publisher = b.publisher /\ a.epoch = b.epoch => a = b
    BY <2>1, <2>2 DEF ManagerInv
  <2>6. manager' \in [publishers : SUBSET Publisher, threshold : Nat,
                  attestations : SUBSET [publisher : Publisher, epoch : 1..MaxEpochs,
                                         root : {"committed", "other"}]]
    BY <2>1, <2>2 DEF ManagerInv
  <2> QED BY <2>3, <2>4, <2>5, <2>6 DEF ManagerInv
<1>3. ASSUME NEW k \in 0..(Cardinality(Publisher) + 1), SetThreshold(k)
      PROVE  ManagerInv'
  BY <1>3 DEF ManagerInv, SetThreshold
<1> QED BY <1>1, <1>2, <1>3 DEF ManagerNext

LEMMA ManagerStep == ManagerInv /\ [Next]_vars => ManagerInv'
<1> SUFFICES ASSUME ManagerInv, [Next]_vars PROVE ManagerInv'
  OBVIOUS
<1>1. CASE ManagerNext
  BY <1>1, ManagerKeeps
<1>2. CASE SourceNext \/ AttesterNext \/ ReaderNext \/ UNCHANGED vars
  <2>1. manager' = manager
    BY <1>2 DEF SourceNext, Write, Replicate, RollOver, Commit, AttesterNext, AttesterSteps,
       Wake, Scan, Examine, SubmitAttestation, RestartAttester, AttestFails, ReaderNext,
       StartRebuild, FetchBatch, ClearLocal, WriteAndReplay, EndRebuild, RestartReader, vars
  <2> QED BY <2>1 DEF ManagerInv
<1> QED BY <1>1, <1>2 DEF Next

(* The attestations of an epoch are as many as their publishers. *)
LEMMA AttestationsCountPublishers ==
  ASSUME ManagerInv, NEW epoch
  PROVE  LET A == {b \in manager.attestations : b.epoch = epoch}
         IN  Cardinality({a.publisher : a \in A}) = Cardinality(A)
<1> DEFINE A == {b \in manager.attestations : b.epoch = epoch}
           K == {a.publisher : a \in A}
           f == [a \in A |-> a.publisher]
<1>1. IsFiniteSet(A)
  BY FS_Subset DEF ManagerInv
<1>2. f \in Surjection(A, K)
  BY DEF Surjection
<1>3. \A a, b \in A : a.publisher = b.publisher => a = b
  BY DEF ManagerInv
<1>4. f \in Injection(A, K)
  BY <1>3 DEF Injection, IsInjective
<1> HIDE DEF A, K, f
<1>5. Cardinality(K) = Cardinality(A)
  BY <1>1, <1>2, <1>4, FS_Surjection
<1> QED BY <1>5 DEF A, K

(* A threshold that is met was met by that many different publishers,      *)
(* however often one was removed and registered again, and none of them is *)
(* shown as pending.  A publisher is the text of a key, as in the manager. *)
THEOREM ThresholdAlwaysCountsPublishers == Spec => []ThresholdCountsPublishers
<1>1. ManagerInv => ThresholdCountsPublishers
  <2> SUFFICES ASSUME ManagerInv, NEW epoch \in 1..MaxEpochs, ThresholdMet(epoch)
               PROVE  /\ Cardinality(Voters(epoch)) >= manager.threshold
                      /\ Pending(epoch) \cap Voters(epoch) = {}
    BY DEF ThresholdCountsPublishers
  <2>1. Cardinality(Voters(epoch)) >= manager.threshold
    BY AttestationsCountPublishers DEF ThresholdMet, ValidAttestations, Voters
  <2>2. Pending(epoch) \cap Voters(epoch) = {}
    BY DEF Pending, Voters
  <2> QED BY <2>1, <2>2
<1>2. Spec => []ManagerInv
  BY ManagerInit, ManagerStep, PTL DEF Spec
<1> QED BY <1>1, <1>2, PTL
=============================================================================
