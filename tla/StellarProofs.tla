---------------------------- MODULE StellarProofs -----------------------------
(***************************************************************************)
(* What a call of the native Soroban client reports is what it did, for    *)
(* any number of processes, accounts, calls and faults.                    *)
(***************************************************************************)
EXTENDS Stellar, FiniteSetTheorems, TLAPS

-----------------------------------------------------------------------------
(* The inductive invariant *)

(* The submissions a call has ahead of it. *)
Plans == {<<"root">>, <<"oplog">>, <<"record">>, <<"plain">>, <<"upload", "create">>, <<"create">>}

Pcs == {"idle", "lock", "fetch", "simulate", "send", "wait", "done"}

TaskState ==
    [pc : Pcs, stages : Plans \cup {<<>>}, seq : Nat, ret : Nat, attempt : Nat, polls : Nat,
     outcome : {"none", "invalid", "error", "crashed", "ok"}]

Transaction == [task : Task, stage : Stage, acct : Account, seq : Nat]

Types ==
    /\ seqNum \in [Account -> Nat]
    /\ counter \in [root : Nat, record : Nat]
    /\ pool \subseteq Transaction
    /\ ledger \subseteq [tx : Transaction, ok : BOOLEAN, value : Nat]
    /\ lock \in [Process -> [Account -> Task \cup {Free}]]
    /\ task \in [Task -> TaskState]
    /\ faults \in Nat

(* At most one transaction of an account waits, with the next number; the  *)
(* applied ones used one number each.                                      *)
NumbersUsedOnce ==
    /\ \A x \in pool : x.acct = Signer[x.task] /\ x.seq = seqNum[x.acct] + 1
    /\ \A x, y \in pool : x.acct = y.acct => x = y
    /\ \A e \in ledger : e.tx.acct = Signer[e.tx.task] /\ e.tx.seq <= seqNum[e.tx.acct]
    /\ \A e, f \in ledger : e.tx = f.tx => e = f

Sent == pool \cup {e.tx : e \in ledger}

Shape(r) ==
    /\ r.pc \notin {"idle", "done"} => r.stages \in Plans
    /\ r.outcome = "ok" => r.stages \in Plans
    /\ r.outcome # "none" => r.pc = "done"

(* Each submission is sent once ... *)
SentOnce(t) ==
    \A x, y \in Sent : x.task = t /\ y.task = t /\ x.stage = y.stage => x = y

(* ... and only when it is its turn. *)
SentInTurn(t) ==
    \A x \in Sent : x.task = t =>
        /\ task[t].pc # "idle"
        /\ task[t].pc \in {"lock", "fetch", "simulate", "send"} =>
             \A i \in 1..Len(task[t].stages) : x.stage # task[t].stages[i]
        /\ task[t].pc = "wait" =>
             /\ x.stage = task[t].stages[1] => x = Tx(t)
             /\ \A i \in 2..Len(task[t].stages) : x.stage # task[t].stages[i]

(* What waits in the pool is waited for, or was given up. *)
PoolOwned(t) ==
    \A x \in pool : x.task = t =>
        \/ task[t].pc = "wait" /\ x = Tx(t)
        \/ task[t].outcome \in {"error", "crashed"}

HoldsLock(t) ==
    task[t].pc \in {"fetch", "simulate", "send", "wait"} => lock[Home[t]][Signer[t]] = t

(* A number that was used up after it was fetched was used by a stranger. *)
Overtaken(t) ==
    \E e \in ledger :
        /\ e.tx.acct = Signer[t] /\ e.tx.seq > task[t].seq
        /\ \/ Home[e.tx.task] # Home[t]
           \/ task[e.tx.task].outcome \in {"error", "crashed"}

NumberFresh(t) ==
    task[t].pc \in {"simulate", "send"} =>
        /\ task[t].seq <= seqNum[Signer[t]]
        /\ task[t].seq # seqNum[Signer[t]] => Overtaken(t)

Committing(t) == task[t].stages \in {<<"root">>, <<"oplog">>}

(* The simulated sequence of a commit stays the next one while the number  *)
(* of its account does, or another account takes it.                       *)
SimulationValid(t) ==
    Committing(t) =>
        /\ task[t].pc = "send" /\ seqNum[Signer[t]] = task[t].seq =>
             task[t].ret = counter.root + 1 \/ Taken(t)
        /\ task[t].pc = "wait" /\ Tx(t) \in pool => task[t].ret = counter.root + 1 \/ Taken(t)

StoredAsReported(t) ==
    Committing(t) /\ (task[t].pc = "wait" \/ task[t].outcome = "ok") =>
        \A e \in ledger : e.ok /\ e.tx.task = t /\ e.tx.stage = task[t].stages[1] =>
            e.value = task[t].ret \/ Taken(t)

OkHappened(t) ==
    task[t].outcome = "ok" =>
        \E e \in ledger : e.ok /\ e.tx.task = t /\ e.tx.stage = task[t].stages[1]

TaskInv(t) ==
    /\ Shape(task[t]) /\ SentOnce(t) /\ SentInTurn(t) /\ PoolOwned(t) /\ HoldsLock(t)
    /\ NumberFresh(t) /\ SimulationValid(t) /\ StoredAsReported(t) /\ OkHappened(t)

Inv == Types /\ NumbersUsedOnce /\ \A t \in Task : TaskInv(t)

-----------------------------------------------------------------------------
(* Plans and transactions *)

LEMMA PlanFacts ==
    ASSUME NEW s \in Plans
    PROVE  /\ s # <<>> /\ s[1] \in Stage /\ Head(s) = s[1]
           /\ Len(s) = 1 \/ (Len(s) = 2 /\ s[1] = "upload" /\ s[2] = "create" /\ Tail(s) = <<"create">>)
           /\ Len(s) > 1 => Tail(s) \in Plans
           /\ s[1] \in Commits => s \in {<<"root">>, <<"oplog">>}
<1>1. CASE s \in {<<"root">>, <<"oplog">>, <<"record">>, <<"plain">>, <<"create">>}
  <2>1. PICK x \in Stage : s = <<x>>
    BY <1>1 DEF Stage, Commits
  <2>2. s[1] = x /\ Len(s) = 1 /\ Head(s) = x /\ s # <<>>
    BY <2>1
  <2>3. x \in Commits => s \in {<<"root">>, <<"oplog">>}
    BY <2>1 DEF Commits
  <2> QED BY <2>1, <2>2, <2>3
<1>2. CASE s = <<"upload", "create">>
  <2>1. s[1] = "upload" /\ s[2] = "create" /\ Len(s) = 2 /\ Head(s) = s[1] /\ s # <<>>
    BY <1>2
  <2>2. Tail(s) = <<"create">>
    BY <1>2
  <2> QED BY <2>1, <2>2 DEF Plans, Stage, Commits
<1> QED BY <1>1, <1>2 DEF Plans

LEMMA TxFacts ==
    ASSUME Inv, NEW t \in Task, task[t].pc \notin {"idle", "done"}
    PROVE  /\ Tx(t) \in Transaction /\ Tx(t).task = t /\ Tx(t).stage = task[t].stages[1]
           /\ Tx(t).acct = Signer[t] /\ Tx(t).seq = task[t].seq + 1
<1>1. task[t].stages \in Plans /\ task[t].seq \in Nat /\ Signer[t] \in Account
  <2>1. Shape(task[t]) /\ task[t] \in TaskState
    BY DEF Inv, TaskInv, Types
  <2> QED BY <2>1, ClientAssumption DEF Shape, TaskState
<1>2. Head(task[t].stages) = task[t].stages[1] /\ task[t].stages[1] \in Stage
  BY <1>1, PlanFacts
<1> QED BY <1>1, <1>2 DEF Tx, Transaction

-----------------------------------------------------------------------------
(* A step of one call *)

StepBy(t, r) ==
    /\ task' = [task EXCEPT ![t] = r] /\ r \in TaskState
    /\ task[t].pc # "done"
    /\ UNCHANGED <<seqNum, counter, ledger>>
    /\ faults' \in Nat
    /\ lock' \in [Process -> [Account -> Task \cup {Free}]]
    /\ \/ pool' = pool
       \/ task[t].pc = "send" /\ Verdict(Tx(t)) = "PENDING" /\ pool' = pool \cup {Tx(t)}
    /\ \A u \in Task \ {t} : lock[Home[u]][Signer[u]] = u => lock'[Home[u]][Signer[u]] = u

(* Whether it sends or not, the numbers stay used once ... *)
LEMMA NumbersKept ==
    ASSUME Inv, NEW t \in Task, NEW r, StepBy(t, r)
    PROVE  Types' /\ NumbersUsedOnce'
<1>1. task' \in [Task -> TaskState]
  BY DEF StepBy, Inv, Types
<1>2. CASE pool' = pool
  BY <1>1, <1>2 DEF StepBy, Inv, Types, NumbersUsedOnce
<1>3. CASE task[t].pc = "send" /\ Verdict(Tx(t)) = "PENDING" /\ pool' = pool \cup {Tx(t)}
  <2>1. Tx(t) \in Transaction /\ Tx(t).task = t /\ Tx(t).acct = Signer[t]
    BY <1>3, TxFacts
  <2>2. (\A x \in pool : x.acct # Tx(t).acct) /\ Tx(t).seq = seqNum[Tx(t).acct] + 1
    BY <1>3 DEF Verdict
  <2>3. Types'
    BY <1>1, <1>3, <2>1 DEF StepBy, Inv, Types
  <2> QED BY <1>3, <2>1, <2>2, <2>3 DEF StepBy, Inv, NumbersUsedOnce
<1> QED BY <1>2, <1>3 DEF StepBy

(* ... what is sent is sent once ...                                       *)
LEMMA SentOnceKept ==
    ASSUME Inv, NEW t \in Task, NEW r, StepBy(t, r)
    PROVE  /\ \A u \in Task : SentOnce(u)'
           /\ \A x \in Sent' : x \in Sent \/ (x = Tx(t) /\ x.task = t)
<1>1. CASE pool' = pool
  BY <1>1 DEF StepBy, Sent, SentOnce, Inv, TaskInv
<1>2. CASE task[t].pc = "send" /\ Verdict(Tx(t)) = "PENDING" /\ pool' = pool \cup {Tx(t)}
  <2>1. Tx(t).task = t /\ Tx(t).stage = task[t].stages[1]
    BY <1>2, TxFacts
  <2>2. 1 \in 1..Len(task[t].stages)
    <3>1. task[t].stages \in Plans
      BY <1>2 DEF Inv, TaskInv, Shape
    <3> QED BY <3>1, PlanFacts
  <2>3. \A x \in Sent : x.task = t => x.stage # Tx(t).stage
    BY <1>2, <2>1, <2>2 DEF Inv, TaskInv, SentInTurn
  <2>4. Sent' = Sent \cup {Tx(t)}
    BY <1>2 DEF StepBy, Sent
  <2> QED BY <2>1, <2>3, <2>4 DEF SentOnce, Inv, TaskInv
<1> QED BY <1>1, <1>2 DEF StepBy

(* ... and the other calls do not notice.                                  *)
LEMMA OthersKept ==
    ASSUME Inv, NEW t \in Task, NEW r, StepBy(t, r), NEW u \in Task \ {t}
    PROVE  TaskInv(u)'
<1>1. /\ TaskInv(u) /\ task'[u] = task[u] /\ seqNum' = seqNum /\ counter' = counter
      /\ ledger' = ledger
  BY DEF StepBy, Inv, Types
<1>2. SentOnce(u)' /\ \A x \in Sent' : x.task = u => x \in Sent
  BY SentOnceKept
<1>3. \A x \in pool' : x.task = u => x \in pool
  <2>1. task[t].pc = "send" => Tx(t).task = t
    BY TxFacts
  <2> QED BY <2>1 DEF StepBy
<1>4. Tx(u)' = Tx(u) /\ Tx(u).task = u
  BY <1>1 DEF Tx
<1>5. Shape(task[u])' /\ SentInTurn(u)' /\ PoolOwned(u)'
  BY <1>1, <1>2, <1>3, <1>4 DEF TaskInv, Shape, SentInTurn, PoolOwned
<1>6. HoldsLock(u)'
  BY <1>1 DEF TaskInv, HoldsLock, StepBy
<1>7. NumberFresh(u)'
  <2> SUFFICES ASSUME task[u].pc \in {"simulate", "send"}
               PROVE  /\ task[u].seq <= seqNum[Signer[u]]
                      /\ task[u].seq # seqNum[Signer[u]] => Overtaken(u)'
    BY <1>1 DEF NumberFresh
  <2>1. /\ task[u].seq <= seqNum[Signer[u]]
        /\ task[u].seq # seqNum[Signer[u]] => Overtaken(u)
    BY <1>1 DEF TaskInv, NumberFresh
  <2>2. Overtaken(u) => Overtaken(u)'
    <3> SUFFICES ASSUME NEW e \in ledger, e.tx.acct = Signer[u], e.tx.seq > task[u].seq,
                        \/ Home[e.tx.task] # Home[u]
                        \/ task[e.tx.task].outcome \in {"error", "crashed"}
                 PROVE  \/ Home[e.tx.task] # Home[u]
                        \/ task'[e.tx.task].outcome \in {"error", "crashed"}
      BY <1>1 DEF Overtaken
    <3>1. e.tx.task \in Task
      BY DEF Inv, Types, Transaction
    <3>2. task[e.tx.task].outcome \in {"error", "crashed"} => e.tx.task # t
      BY DEF Inv, TaskInv, Shape, StepBy
    <3>3. e.tx.task # t => task'[e.tx.task] = task[e.tx.task]
      BY <3>1 DEF StepBy, Inv, Types
    <3> QED BY <3>2, <3>3
  <2> QED BY <2>1, <2>2
<1>8. (Committing(u)' <=> Committing(u)) /\ (Taken(u)' <=> Taken(u))
  BY <1>1 DEF Committing, Taken
<1>9. SimulationValid(u)'
  BY <1>1, <1>3, <1>4, <1>8 DEF TaskInv, SimulationValid
<1>10. StoredAsReported(u)' /\ OkHappened(u)'
  BY <1>1, <1>8 DEF TaskInv, StoredAsReported, OkHappened
<1> QED BY <1>2, <1>5, <1>6, <1>7, <1>9, <1>10 DEF TaskInv

LEMMA OneStep ==
    ASSUME Inv, NEW t \in Task, NEW r, StepBy(t, r), Shape(task[t])', SentInTurn(t)',
           PoolOwned(t)', HoldsLock(t)', NumberFresh(t)', SimulationValid(t)',
           StoredAsReported(t)', OkHappened(t)'
    PROVE  Inv'
<1>1. TaskInv(t)'
  BY SentOnceKept DEF TaskInv
<1> QED BY <1>1, NumbersKept, OthersKept DEF Inv

LEMMA EndedFacts ==
    ASSUME NEW how \in {"invalid", "error", "crashed", "ok"}
    PROVE  /\ Ended(how) \in TaskState /\ Ended(how).pc = "done" /\ Ended(how).outcome = how
           /\ Ended(how).stages = <<>>
BY DEF Ended, Idle, TaskState, Pcs

(* A call that ends without an answer promises nothing. *)
LEMMA EndStep ==
    ASSUME Inv, NEW t \in Task, NEW how \in {"invalid", "error"}, StepBy(t, Ended(how)),
           how = "invalid" => task[t].pc = "idle" /\ pool' = pool
    PROVE  Inv'
<1>1. task'[t].pc = "done" /\ task'[t].outcome = how /\ task'[t].stages = <<>>
  <2>1. task'[t] = Ended(how)
    BY DEF StepBy, Inv, Types
  <2> QED BY <2>1, EndedFacts
<1>2. ~Committing(t)'
  <2>1. <<>> # <<"root">> /\ <<>> # <<"oplog">>
    OBVIOUS
  <2> QED BY <1>1, <2>1 DEF Committing
<1>3. PoolOwned(t)'
  <2>1. CASE how = "error"
    BY <1>1, <2>1 DEF PoolOwned
  <2>2. CASE how = "invalid"
    <3>1. \A x \in pool' : x.task # t
      BY <2>2 DEF Inv, TaskInv, SentInTurn, Sent
    <3> QED BY <3>1 DEF PoolOwned
  <2> QED BY <2>1, <2>2
<1>4. /\ Shape(task[t])' /\ SentInTurn(t)' /\ HoldsLock(t)' /\ NumberFresh(t)'
      /\ OkHappened(t)'
  BY <1>1 DEF Shape, SentInTurn, HoldsLock, NumberFresh, OkHappened
<1>5. SimulationValid(t)' /\ StoredAsReported(t)'
  BY <1>2 DEF SimulationValid, StoredAsReported
<1> QED BY <1>3, <1>4, <1>5, OneStep

LEMMA ReleaseFacts ==
    ASSUME Inv, NEW t \in Task, task[t].pc \in {"fetch", "simulate", "send", "wait"}, Release(t)
    PROVE  /\ lock' \in [Process -> [Account -> Task \cup {Free}]]
           /\ \A u \in Task \ {t} : lock[Home[u]][Signer[u]] = u => lock'[Home[u]][Signer[u]] = u
<1>1. /\ lock \in [Process -> [Account -> Task \cup {Free}]]
      /\ \A u \in Task : Home[u] \in Process /\ Signer[u] \in Account
      /\ lock[Home[t]][Signer[t]] = t
  BY ClientAssumption DEF Inv, Types, TaskInv, HoldsLock
<1> QED BY <1>1 DEF Release

(* Fails(t), whatever happened to the transaction. *)
LEMMA FailStep ==
    ASSUME Inv, NEW t \in Task, task[t].pc \in {"fetch", "simulate", "send", "wait"}, Fails(t),
           UNCHANGED <<seqNum, counter, ledger>>, faults' \in Nat,
           \/ pool' = pool
           \/ task[t].pc = "send" /\ Verdict(Tx(t)) = "PENDING" /\ pool' = pool \cup {Tx(t)}
    PROVE  Inv'
<1>1. task' = [task EXCEPT ![t] = Ended("error")] /\ Release(t)
  BY DEF Fails
<1>2. StepBy(t, Ended("error"))
  BY <1>1, ReleaseFacts, EndedFacts DEF StepBy
<1> QED BY <1>2, EndStep

LEMMA FaultType ==
    ASSUME Inv
    PROVE  /\ Fault => faults' \in Nat
           /\ faults' = faults => faults' \in Nat
BY DEF Inv, Types, Fault

-----------------------------------------------------------------------------
(* The steps of a call *)

LEMMA StartStep ==
    ASSUME Inv, NEW t \in Task, Starts(t)
    PROVE  Inv'
<1>1. PICK p \in Plans : Submits(t, p)
  BY DEF Starts, CommitRoot, CommitRootWithOplog, AttestOplog, VerifyInclusion,
         InitializeContract, RegisterDisclosureVk, AuthorizeAttester, RevokeAttester,
         SetThreshold, VerifyAndRecordDisclosure, DeployContract, Plans
<1>2. /\ task[t].pc = "idle" /\ UNCHANGED <<seqNum, counter, pool, ledger, lock, faults>>
      /\ \/ task' = [task EXCEPT ![t] = [task[t] EXCEPT !.pc = "lock", !.stages = p]]
         \/ task' = [task EXCEPT ![t] = Ended("invalid")]
  BY <1>1 DEF Submits
<1>3. /\ faults' \in Nat /\ lock' \in [Process -> [Account -> Task \cup {Free}]]
      /\ task[t] \in TaskState
  BY <1>2 DEF Inv, Types
<1>4. CASE task' = [task EXCEPT ![t] = Ended("invalid")]
  <2>1. StepBy(t, Ended("invalid"))
    BY <1>2, <1>3, <1>4, EndedFacts DEF StepBy
  <2> QED BY <1>2, <2>1, EndStep
<1>5. CASE task' = [task EXCEPT ![t] = [task[t] EXCEPT !.pc = "lock", !.stages = p]]
  <2> DEFINE r == [task[t] EXCEPT !.pc = "lock", !.stages = p]
  <2>1. /\ r \in TaskState /\ r.pc = "lock" /\ r.stages = p /\ r.outcome = task[t].outcome
    BY <1>3 DEF TaskState, Pcs
  <2> HIDE DEF r
  <2>2. StepBy(t, r)
    BY <1>2, <1>3, <1>5, <2>1 DEF StepBy, r
  <2>3. task'[t] = r
    BY <2>2 DEF StepBy, Inv, Types
  <2>4. \A x \in Sent' : x.task # t
    BY <1>2 DEF Sent, Inv, TaskInv, SentInTurn
  <2>5. task[t].outcome = "none"
    <3>1. task[t].outcome # "none" => task[t].pc = "done"
      BY DEF Inv, TaskInv, Shape
    <3> QED BY <1>2, <3>1
  <2>6. Shape(task[t])' /\ HoldsLock(t)' /\ NumberFresh(t)' /\ OkHappened(t)'
    BY <2>1, <2>3, <2>5 DEF Shape, HoldsLock, NumberFresh, OkHappened
  <2>7. SentInTurn(t)' /\ PoolOwned(t)' /\ StoredAsReported(t)' /\ SimulationValid(t)'
    BY <2>1, <2>3, <2>4, <2>5 DEF SentInTurn, PoolOwned, StoredAsReported, SimulationValid, Sent
  <2> QED BY <2>2, <2>6, <2>7, OneStep
<1> QED BY <1>2, <1>4, <1>5

(* A step that only moves a call on before it sends. *)
LEMMA MoveStep ==
    ASSUME Inv, NEW t \in Task, NEW r, StepBy(t, r), pool' = pool,
           task[t].pc \in {"lock", "fetch", "simulate", "send"},
           r.pc \in {"fetch", "simulate", "send"},
           r.stages = task[t].stages, r.outcome = task[t].outcome,
           lock'[Home[t]][Signer[t]] = t,
           NumberFresh(t)', SimulationValid(t)'
    PROVE  Inv'
<1>1. task'[t] = r /\ ledger' = ledger
  BY DEF StepBy, Inv, Types
<1>2. TaskInv(t)
  BY DEF Inv
<1>3. task[t].outcome = "none" /\ task[t].stages \in Plans
  BY <1>2 DEF TaskInv, Shape
<1>4. Shape(task[t])' /\ HoldsLock(t)' /\ OkHappened(t)'
  BY <1>1, <1>3 DEF Shape, HoldsLock, OkHappened
<1>5. SentInTurn(t)'
  BY <1>1, <1>2 DEF TaskInv, SentInTurn, Sent
<1>6. PoolOwned(t)'
  BY <1>2, <1>3 DEF TaskInv, PoolOwned
<1>7. StoredAsReported(t)'
  BY <1>1, <1>3 DEF StoredAsReported
<1> QED BY <1>4, <1>5, <1>6, <1>7, OneStep

LEMMA AcquireStep ==
    ASSUME Inv, NEW t \in Task, Acquire(t)
    PROVE  Inv'
<1> DEFINE r == [task[t] EXCEPT !.pc = "fetch", !.attempt = 0]
<1>1. /\ task[t].pc = "lock" /\ lock[Home[t]][Signer[t]] = Free
      /\ lock' = [lock EXCEPT ![Home[t]][Signer[t]] = t]
      /\ task' = [task EXCEPT ![t] = r]
      /\ UNCHANGED <<seqNum, counter, pool, ledger, faults>>
  BY DEF Acquire
<1>2. /\ task[t] \in TaskState /\ lock \in [Process -> [Account -> Task \cup {Free}]]
      /\ faults \in Nat
  BY DEF Inv, Types
<1>3. /\ r \in TaskState /\ r.pc = "fetch" /\ r.stages = task[t].stages
      /\ r.outcome = task[t].outcome
  BY <1>2 DEF TaskState, Pcs
<1> HIDE DEF r
<1>4. \A u \in Task : Home[u] \in Process /\ Signer[u] \in Account /\ u # Free
  BY ClientAssumption
<1>5. /\ lock' \in [Process -> [Account -> Task \cup {Free}]] /\ lock'[Home[t]][Signer[t]] = t
      /\ \A u \in Task \ {t} : lock[Home[u]][Signer[u]] = u => lock'[Home[u]][Signer[u]] = u
  BY <1>1, <1>2, <1>4
<1>6. StepBy(t, r)
  BY <1>1, <1>2, <1>3, <1>5 DEF StepBy
<1>7. NumberFresh(t)' /\ SimulationValid(t)'
  <2>1. task'[t].pc = "fetch"
    BY <1>1, <1>3 DEF Inv, Types
  <2> QED BY <2>1 DEF NumberFresh, SimulationValid
<1> QED BY <1>1, <1>3, <1>5, <1>6, <1>7, MoveStep

LEMMA FetchStep ==
    ASSUME Inv, NEW t \in Task, FetchSequence(t)
    PROVE  Inv'
<1> DEFINE n == seqNum[Signer[t]]
           r == [task[t] EXCEPT !.pc = "simulate", !.seq = n]
<1>1. task[t].pc = "fetch" /\ UNCHANGED <<seqNum, counter, pool, ledger>>
  BY DEF FetchSequence
<1>2. CASE Fault /\ Fails(t)
  BY <1>1, <1>2, FailStep, FaultType
<1>3. CASE task' = [task EXCEPT ![t] = r] /\ UNCHANGED <<lock, faults>>
  <2>1. /\ task[t] \in TaskState /\ lock \in [Process -> [Account -> Task \cup {Free}]]
        /\ faults \in Nat /\ n \in Nat
    BY ClientAssumption DEF Inv, Types
  <2>2. /\ r \in TaskState /\ r.pc = "simulate" /\ r.stages = task[t].stages
        /\ r.outcome = task[t].outcome /\ r.seq = n
    <3> HIDE DEF n
    <3> QED BY <2>1 DEF TaskState, Pcs
  <2> HIDE DEF r
  <2>3. StepBy(t, r)
    BY <1>1, <1>3, <2>1, <2>2 DEF StepBy
  <2>4. task'[t] = r /\ lock'[Home[t]][Signer[t]] = t
    BY <1>1, <1>3 DEF Inv, Types, TaskInv, HoldsLock
  <2>5. NumberFresh(t)'
    BY <1>1, <2>1, <2>2, <2>4 DEF NumberFresh
  <2>6. SimulationValid(t)'
    BY <2>2, <2>4 DEF SimulationValid
  <2> QED BY <1>1, <2>2, <2>3, <2>4, <2>5, <2>6, MoveStep
<1> QED BY <1>2, <1>3 DEF FetchSequence

LEMMA SimulateStep ==
    ASSUME Inv, NEW t \in Task, Simulate(t)
    PROVE  Inv'
<1> DEFINE v == Returns(Head(task[t].stages))
           r == [task[t] EXCEPT !.pc = "send", !.ret = v]
<1>1. task[t].pc = "simulate" /\ UNCHANGED <<seqNum, counter, pool, ledger>>
  BY DEF Simulate
<1>2. CASE Fault /\ Fails(t)
  BY <1>1, <1>2, FailStep, FaultType
<1>3. CASE task' = [task EXCEPT ![t] = r] /\ UNCHANGED <<lock, faults>>
  <2>0. counter \in [root : Nat, record : Nat] /\ DOMAIN counter = {"root", "record"}
    BY DEF Inv, Types
  <2>1. /\ task[t] \in TaskState /\ lock \in [Process -> [Account -> Task \cup {Free}]]
        /\ faults \in Nat /\ v \in Nat
    BY <2>0 DEF Inv, Types, Returns, Commits
  <2>2. /\ r \in TaskState /\ r.pc = "send" /\ r.stages = task[t].stages
        /\ r.outcome = task[t].outcome /\ r.seq = task[t].seq /\ r.ret = v
    <3> HIDE DEF v
    <3> QED BY <2>1 DEF TaskState, Pcs
  <2>3. Committing(t) => v = counter.root + 1
    <3>1. Committing(t) => Head(task[t].stages) \in Commits
      BY DEF Committing, Commits
    <3> QED BY <2>0, <3>1 DEF Returns, Commits
  <2> HIDE DEF r, v
  <2>4. StepBy(t, r)
    BY <1>1, <1>3, <2>1, <2>2 DEF StepBy
  <2>5. task'[t] = r /\ lock'[Home[t]][Signer[t]] = t
    BY <1>1, <1>3 DEF Inv, Types, TaskInv, HoldsLock
  <2>6. NumberFresh(t)'
    <3>1. /\ task[t].seq <= seqNum[Signer[t]]
          /\ task[t].seq # seqNum[Signer[t]] => Overtaken(t)
      BY <1>1 DEF Inv, TaskInv, NumberFresh
    <3>2. Overtaken(t) => Overtaken(t)'
      <4> SUFFICES ASSUME NEW e \in ledger, e.tx.acct = Signer[t], e.tx.seq > task[t].seq,
                          \/ Home[e.tx.task] # Home[t]
                          \/ task[e.tx.task].outcome \in {"error", "crashed"}
                   PROVE  \/ Home[e.tx.task] # Home[t]
                          \/ task'[e.tx.task].outcome \in {"error", "crashed"}
        BY <1>1, <2>2, <2>5 DEF Overtaken
      <4>1. e.tx.task \in Task
        BY DEF Inv, Types, Transaction
      <4>2. task'[e.tx.task].outcome = task[e.tx.task].outcome
        BY <1>3, <2>2, <2>5, <4>1 DEF Inv, Types
      <4> QED BY <4>2
    <3> QED BY <1>1, <2>2, <2>5, <3>1, <3>2 DEF NumberFresh
  <2>7. SimulationValid(t)'
    BY <1>1, <2>2, <2>3, <2>5 DEF SimulationValid, Committing
  <2> QED BY <1>1, <2>2, <2>4, <2>5, <2>6, <2>7, MoveStep
<1> QED BY <1>2, <1>3 DEF Simulate

LEMMA RetryStep ==
    ASSUME Inv, NEW t \in Task, BadSeqRetry(t)
    PROVE  Inv'
<1> DEFINE r == [task[t] EXCEPT !.pc = "fetch", !.attempt = task[t].attempt + 1]
<1>1. task[t].pc = "send" /\ UNCHANGED <<seqNum, counter, pool, ledger, faults>>
  BY DEF BadSeqRetry
<1>2. CASE Fails(t)
  BY <1>1, <1>2, FailStep, FaultType
<1>3. CASE task' = [task EXCEPT ![t] = r] /\ UNCHANGED lock
  <2>1. /\ task[t] \in TaskState /\ lock \in [Process -> [Account -> Task \cup {Free}]]
        /\ faults \in Nat
    BY DEF Inv, Types
  <2>2. /\ r \in TaskState /\ r.pc = "fetch" /\ r.stages = task[t].stages
        /\ r.outcome = task[t].outcome
    <3>1. PICK k \in Nat : k = task[t].attempt + 1
      BY <2>1 DEF TaskState
    <3>2. r = [task[t] EXCEPT !.pc = "fetch", !.attempt = k]
      BY <3>1
    <3> QED BY <2>1, <3>2 DEF TaskState, Pcs
  <2> HIDE DEF r
  <2>3. StepBy(t, r)
    BY <1>1, <1>3, <2>1, <2>2 DEF StepBy
  <2>4. task'[t] = r /\ lock'[Home[t]][Signer[t]] = t
    BY <1>1, <1>3 DEF Inv, Types, TaskInv, HoldsLock
  <2>5. NumberFresh(t)' /\ SimulationValid(t)'
    BY <2>2, <2>4 DEF NumberFresh, SimulationValid
  <2> QED BY <1>1, <2>2, <2>3, <2>4, <2>5, MoveStep
<1> QED BY <1>2, <1>3 DEF BadSeqRetry

LEMMA SendStep ==
    ASSUME Inv, NEW t \in Task, SendTransaction(t)
    PROVE  Inv'
<1> DEFINE r == [task[t] EXCEPT !.pc = "wait", !.polls = 0]
<1>1. /\ task[t].pc = "send" /\ task' = [task EXCEPT ![t] = r]
      /\ UNCHANGED <<seqNum, counter, ledger, lock, faults>>
      /\ \/ pool' = pool
         \/ Verdict(Tx(t)) = "PENDING" /\ pool' = pool \cup {Tx(t)}
  BY DEF SendTransaction, Waits
<1>2. /\ task[t] \in TaskState /\ lock \in [Process -> [Account -> Task \cup {Free}]]
      /\ faults \in Nat
  BY DEF Inv, Types
<1>3. /\ r \in TaskState /\ r.pc = "wait" /\ r.stages = task[t].stages
      /\ r.outcome = task[t].outcome /\ r.seq = task[t].seq /\ r.ret = task[t].ret
  BY <1>2 DEF TaskState, Pcs
<1> HIDE DEF r
<1>4. StepBy(t, r)
  BY <1>1, <1>2, <1>3 DEF StepBy
<1>5. task'[t] = r /\ TaskInv(t)
  BY <1>1 DEF Inv, Types
<1>6. task[t].outcome = "none" /\ task[t].stages \in Plans
  BY <1>1, <1>5 DEF TaskInv, Shape
<1>7. /\ Len(task[t].stages) \in {1, 2}
      /\ \A i \in 2..Len(task[t].stages) : task[t].stages[i] # task[t].stages[1]
  BY <1>6, PlanFacts
<1>8. Tx(t)' = Tx(t) /\ Tx(t).task = t /\ Tx(t).stage = task[t].stages[1]
      /\ Tx(t).acct = Signer[t] /\ Tx(t).seq = task[t].seq + 1
  BY <1>1, <1>3, <1>5, TxFacts DEF Tx
<1>9. \A x \in Sent : x.task = t => \A i \in 1..Len(task[t].stages) : x.stage # task[t].stages[i]
  BY <1>1, <1>5 DEF TaskInv, SentInTurn
<1>10. \A x \in pool : x.task # t
  BY <1>1, <1>5, <1>6 DEF TaskInv, PoolOwned
<1>11. Shape(task[t])' /\ HoldsLock(t)' /\ NumberFresh(t)' /\ OkHappened(t)'
  BY <1>1, <1>3, <1>5, <1>6 DEF TaskInv, Shape, HoldsLock, NumberFresh, OkHappened
<1>12. SentInTurn(t)'
  <2> SUFFICES ASSUME NEW x \in Sent', x.task = t
               PROVE  /\ x.stage = task[t].stages[1] => x = Tx(t)
                      /\ \A i \in 2..Len(task[t].stages) : x.stage # task[t].stages[i]
    BY <1>3, <1>5, <1>8 DEF SentInTurn
  <2>1. x \in Sent \/ x = Tx(t)
    BY <1>4, SentOnceKept
  <2>2. CASE x \in Sent
    <3>1. /\ 1 \in 1..Len(task[t].stages)
          /\ \A i \in 2..Len(task[t].stages) : i \in 1..Len(task[t].stages)
      BY <1>7
    <3> QED BY <1>9, <2>2, <3>1
  <2>3. CASE x = Tx(t)
    BY <1>7, <1>8, <2>3
  <2> QED BY <2>1, <2>2, <2>3
<1>13. PoolOwned(t)'
  BY <1>1, <1>3, <1>5, <1>8, <1>10 DEF PoolOwned
<1>14. SimulationValid(t)'
  <2>0. (Committing(t)' <=> Committing(t)) /\ (Taken(t)' <=> Taken(t))
    BY <1>1, <1>3, <1>5 DEF Committing, Taken
  <2> SUFFICES ASSUME Committing(t), Tx(t) \in pool'
               PROVE  task[t].ret = counter.root + 1 \/ Taken(t)
    BY <1>1, <1>3, <1>5, <1>8, <2>0 DEF SimulationValid
  <2>1. Verdict(Tx(t)) = "PENDING"
    BY <1>1, <1>8, <1>10
  <2>2. Tx(t).seq = seqNum[Tx(t).acct] + 1
    BY <2>1 DEF Verdict
  <2>3. seqNum[Signer[t]] = task[t].seq
    <3>1. seqNum[Signer[t]] \in Nat /\ task[t].seq \in Nat
      BY <1>2, ClientAssumption DEF Inv, Types, TaskState
    <3> QED BY <1>8, <2>2, <3>1
  <2> QED BY <1>1, <1>5, <2>3 DEF TaskInv, SimulationValid
<1>15. StoredAsReported(t)'
  <2>1. ASSUME NEW e \in ledger, e.tx.task = t
        PROVE  e.tx.stage # task[t].stages[1]
    <3>1. e.tx \in Sent /\ 1 \in 1..Len(task[t].stages)
      BY <1>7 DEF Sent
    <3> QED BY <1>9, <2>1, <3>1
  <2> QED BY <1>1, <1>3, <1>5, <2>1 DEF StoredAsReported
<1> QED BY <1>4, <1>11, <1>12, <1>13, <1>14, <1>15, OneStep

LEMMA SendLostStep ==
    ASSUME Inv, NEW t \in Task, SendLost(t)
    PROVE  Inv'
BY FailStep, FaultType DEF SendLost

(* A poll that finds nothing. *)
LEMMA PollStep ==
    ASSUME Inv, NEW t \in Task, task[t].pc = "wait", NEW n \in Nat,
           task' = [task EXCEPT ![t] = [task[t] EXCEPT !.polls = n]],
           UNCHANGED <<seqNum, counter, pool, ledger, lock, faults>>
    PROVE  Inv'
<1> DEFINE r == [task[t] EXCEPT !.polls = n]
<1>2. /\ task[t] \in TaskState /\ lock \in [Process -> [Account -> Task \cup {Free}]]
      /\ faults \in Nat
  BY DEF Inv, Types
<1>3. /\ r \in TaskState /\ r.pc = "wait" /\ r.stages = task[t].stages
      /\ r.outcome = task[t].outcome /\ r.seq = task[t].seq /\ r.ret = task[t].ret
  BY <1>2 DEF TaskState, Pcs
<1>4. StepBy(t, r)
  BY <1>2, <1>3 DEF StepBy
<1> HIDE DEF r
<1>5. task'[t] = r /\ TaskInv(t)
  BY <1>4 DEF Inv, Types, StepBy
<1>6. Tx(t)' = Tx(t)
  BY <1>3, <1>5 DEF Tx
<1>7. Sent' = Sent
  BY DEF Sent
<1>8. Shape(task[t])' /\ HoldsLock(t)' /\ NumberFresh(t)' /\ OkHappened(t)'
  BY <1>3, <1>5 DEF TaskInv, Shape, HoldsLock, NumberFresh, OkHappened
<1>9. SentInTurn(t)' /\ PoolOwned(t)'
  BY <1>3, <1>5, <1>6, <1>7 DEF TaskInv, SentInTurn, PoolOwned
<1>10. SimulationValid(t)' /\ StoredAsReported(t)'
  <2>1. (Committing(t)' <=> Committing(t)) /\ (Taken(t)' <=> Taken(t))
    BY <1>3, <1>5 DEF Committing, Taken
  <2> QED BY <1>3, <1>5, <1>6, <2>1 DEF TaskInv, SimulationValid, StoredAsReported
<1> QED BY <1>4, <1>8, <1>9, <1>10, OneStep

(* What is applied is no longer in the pool. *)
LEMMA AppliedLeaves ==
    ASSUME Inv, NEW e \in ledger
    PROVE  e.tx \notin pool
<1>1. /\ e.tx.seq <= seqNum[e.tx.acct] /\ e.tx \in Transaction
      /\ e.tx \in pool => e.tx.seq = seqNum[e.tx.acct] + 1
  BY DEF Inv, Types, NumbersUsedOnce
<1>2. seqNum[e.tx.acct] \in Nat /\ e.tx.seq \in Nat
  BY <1>1 DEF Inv, Types, Transaction
<1> QED BY <1>1, <1>2

LEMMA SucceedStep ==
    ASSUME Inv, NEW t \in Task, task[t].pc = "wait", Succeeds(t),
           \E e \in Applied(t) : e.ok,
           UNCHANGED <<seqNum, counter, pool, ledger, faults>>
    PROVE  Inv'
<1>0. PICK e \in ledger : e.ok /\ e.tx = Tx(t)
  BY DEF Applied
<1>1. /\ Tx(t) \in Transaction /\ Tx(t).task = t /\ Tx(t).stage = task[t].stages[1]
  BY TxFacts
<1>2. /\ task[t] \in TaskState /\ TaskInv(t) /\ faults \in Nat
  BY DEF Inv, Types
<1>3. task[t].outcome = "none" /\ task[t].stages \in Plans
  BY <1>2 DEF TaskInv, Shape
<1>4. /\ lock' \in [Process -> [Account -> Task \cup {Free}]]
      /\ \A u \in Task \ {t} : lock[Home[u]][Signer[u]] = u => lock'[Home[u]][Signer[u]] = u
  BY ReleaseFacts DEF Succeeds
<1>5. \A x \in pool : x.task # t
  <2>1. Tx(t) \notin pool
    BY <1>0, AppliedLeaves
  <2> QED BY <1>2, <1>3, <2>1 DEF TaskInv, PoolOwned
<1>6. Sent' = Sent
  BY DEF Sent
<1>7. CASE Len(task[t].stages) > 1
  <2> DEFINE q == Tail(task[t].stages)
             r == [task[t] EXCEPT !.pc = "lock", !.stages = q]
  <2>1. task' = [task EXCEPT ![t] = r]
    BY <1>7 DEF Succeeds
  <2>2. q \in Plans /\ q = <<"create">> /\ task[t].stages[2] = "create" /\ Len(task[t].stages) = 2
    <3>1. PICK p \in Plans : p = task[t].stages /\ Len(p) > 1
      BY <1>3, <1>7
    <3>2. /\ Len(p) > 1 => Tail(p) \in Plans
          /\ Len(p) = 1 \/ (Len(p) = 2 /\ p[2] = "create" /\ Tail(p) = <<"create">>)
      BY PlanFacts, Zenon
    <3>3. Len(p) # 1
      <4>1. ~(1 > 1)
        OBVIOUS
      <4> QED BY <3>1, <4>1, Zenon
    <3> QED BY <3>1, <3>2, <3>3, Zenon
  <2>3. /\ r \in TaskState /\ r.pc = "lock" /\ r.stages = q /\ r.outcome = "none"
    <3> HIDE DEF q
    <3> QED BY <1>2, <1>3, <2>2 DEF TaskState, Pcs
  <2> HIDE DEF r, q
  <2>4. StepBy(t, r)
    BY <1>2, <1>4, <2>1, <2>3 DEF StepBy
  <2>5. task'[t] = r
    BY <2>1 DEF Inv, Types
  <2>6. Shape(task[t])' /\ HoldsLock(t)' /\ NumberFresh(t)' /\ OkHappened(t)'
    BY <2>2, <2>3, <2>5 DEF Shape, HoldsLock, NumberFresh, OkHappened
  <2>7. SentInTurn(t)'
    <3>1. 2 \in 2..Len(task[t].stages)
      BY <2>2
    <3>2. \A x \in Sent : x.task = t => x.stage # "create"
      BY <1>2, <2>2, <3>1 DEF TaskInv, SentInTurn
    <3>3. \A i \in 1..Len(q) : q[i] = "create"
      BY <2>2
    <3> QED BY <1>6, <2>3, <2>5, <3>2, <3>3 DEF SentInTurn
  <2>8. PoolOwned(t)'
    BY <1>5 DEF PoolOwned
  <2>9. ~Committing(t)'
    <3>1. q[1] = "create"
      BY <2>2
    <3>2. q # <<"root">> /\ q # <<"oplog">>
      BY <3>1
    <3> QED BY <2>3, <2>5, <3>2 DEF Committing
  <2>10. SimulationValid(t)' /\ StoredAsReported(t)'
    BY <2>9 DEF SimulationValid, StoredAsReported
  <2> QED BY <2>4, <2>6, <2>7, <2>8, <2>10, OneStep
<1>8. CASE ~(Len(task[t].stages) > 1)
  <2> DEFINE r == [Ended("ok") EXCEPT !.stages = task[t].stages, !.ret = task[t].ret]
  <2>1. task' = [task EXCEPT ![t] = r]
    BY <1>8 DEF Succeeds
  <2>2. task[t].ret \in Nat
    BY <1>2 DEF TaskState
  <2>3. /\ r \in TaskState /\ r.pc = "done" /\ r.stages = task[t].stages /\ r.outcome = "ok"
        /\ r.ret = task[t].ret
    <3>1. PICK d \in TaskState : d = Ended("ok") /\ d.pc = "done" /\ d.outcome = "ok"
      BY EndedFacts
    <3>2. r = [d EXCEPT !.stages = task[t].stages, !.ret = task[t].ret]
      BY <3>1
    <3> QED BY <1>3, <2>2, <3>1, <3>2 DEF TaskState
  <2> HIDE DEF r
  <2>4. StepBy(t, r)
    BY <1>2, <1>4, <2>1, <2>3 DEF StepBy
  <2>5. task'[t] = r
    BY <2>1 DEF Inv, Types
  <2>6. Shape(task[t])' /\ HoldsLock(t)' /\ NumberFresh(t)' /\ SentInTurn(t)'
    BY <1>3, <2>3, <2>5 DEF Shape, HoldsLock, NumberFresh, SentInTurn
  <2>7. PoolOwned(t)'
    BY <1>5 DEF PoolOwned
  <2>8. SimulationValid(t)'
    BY <2>3, <2>5 DEF SimulationValid
  <2>9. StoredAsReported(t)'
    <3>1. (Committing(t)' <=> Committing(t)) /\ (Taken(t)' <=> Taken(t))
      BY <2>3, <2>5 DEF Committing, Taken
    <3> QED BY <1>2, <2>3, <2>5, <3>1 DEF StoredAsReported, TaskInv
  <2>10. OkHappened(t)'
    BY <1>0, <1>1, <2>3, <2>5 DEF OkHappened
  <2> QED BY <2>4, <2>6, <2>7, <2>8, <2>9, <2>10, OneStep
<1> QED BY <1>7, <1>8

LEMMA AnsweredStep ==
    ASSUME Inv, NEW t \in Task, PollAnswered(t)
    PROVE  Inv'
<1>1. task[t].pc = "wait" /\ UNCHANGED <<seqNum, counter, pool, ledger, faults>>
  BY DEF PollAnswered
<1>2. CASE Fails(t)
  BY <1>1, <1>2, FailStep, FaultType
<1>3. CASE Succeeds(t) /\ \E e \in Applied(t) : e.ok
  BY <1>1, <1>3, SucceedStep
<1>4. CASE /\ task' = [task EXCEPT ![t] = [task[t] EXCEPT !.polls = task[t].polls + 1]]
           /\ UNCHANGED lock
  <2>1. PICK n \in Nat : n = task[t].polls + 1
    BY DEF Inv, Types, TaskState
  <2> QED BY <1>1, <1>4, <2>1, PollStep
<1> QED BY <1>2, <1>3, <1>4 DEF PollAnswered

LEMMA HttpErrorStep ==
    ASSUME Inv, NEW t \in Task, PollHttpError(t)
    PROVE  Inv'
<1>1. PICK n \in Nat : n = IF task[t].polls < MaxPolls THEN task[t].polls + 1
                           ELSE task[t].polls
  BY DEF Inv, Types, TaskState
<1>2. task[t].pc = "wait" /\ task' = [task EXCEPT ![t] = [task[t] EXCEPT !.polls = n]]
  BY <1>1 DEF PollHttpError
<1> QED BY <1>2, PollStep DEF PollHttpError

LEMMA PollFailsStep ==
    ASSUME Inv, NEW t \in Task, PollFails(t)
    PROVE  Inv'
BY FailStep, FaultType DEF PollFails

-----------------------------------------------------------------------------
(* Crashes and the ledger *)

LEMMA CrashStep ==
    ASSUME Inv, NEW p \in Process, Crash(p)
    PROVE  Inv'
<1>1. /\ Fault /\ UNCHANGED <<seqNum, counter, pool, ledger>>
      /\ task' = [t \in Task |-> IF Home[t] = p /\ task[t].pc \notin {"idle", "done"}
                                 THEN Ended("crashed") ELSE task[t]]
      /\ lock' = [lock EXCEPT ![p] = [a \in Account |-> Free]]
  BY DEF Crash
<1>2. Types'
  <2>1. lock' \in [Process -> [Account -> Task \cup {Free}]]
    BY <1>1 DEF Inv, Types
  <2>2. task' \in [Task -> TaskState]
    BY <1>1, EndedFacts DEF Inv, Types
  <2> QED BY <1>1, <2>1, <2>2, FaultType DEF Inv, Types
<1>3. NumbersUsedOnce' /\ Sent' = Sent
  BY <1>1 DEF Inv, NumbersUsedOnce, Sent
<1>4. \A u \in Task : task[u].outcome \in {"error", "crashed"} => task'[u] = task[u]
  BY <1>1 DEF Inv, TaskInv, Shape
<1>5. ASSUME NEW t \in Task, Home[t] = p, task[t].pc \notin {"idle", "done"}
      PROVE  TaskInv(t)'
  <2>1. task'[t].pc = "done" /\ task'[t].outcome = "crashed" /\ task'[t].stages = <<>>
    BY <1>1, <1>5, EndedFacts
  <2>2. ~Committing(t)'
    <3>1. <<>> # <<"root">> /\ <<>> # <<"oplog">>
      OBVIOUS
    <3> QED BY <2>1, <3>1 DEF Committing
  <2>3. TaskInv(t)
    BY DEF Inv
  <2>4. SentOnce(t)'
    BY <1>3, <2>3 DEF TaskInv, SentOnce
  <2>5. /\ Shape(task[t])' /\ SentInTurn(t)' /\ PoolOwned(t)' /\ HoldsLock(t)'
        /\ NumberFresh(t)' /\ OkHappened(t)'
    BY <2>1 DEF Shape, SentInTurn, PoolOwned, HoldsLock, NumberFresh, OkHappened
  <2>6. SimulationValid(t)' /\ StoredAsReported(t)'
    BY <2>2 DEF SimulationValid, StoredAsReported
  <2> QED BY <2>4, <2>5, <2>6 DEF TaskInv
<1>6. ASSUME NEW t \in Task, ~(Home[t] = p /\ task[t].pc \notin {"idle", "done"})
      PROVE  TaskInv(t)'
  <2>1. task'[t] = task[t] /\ TaskInv(t)
    BY <1>1, <1>6 DEF Inv
  <2>2. Tx(t)' = Tx(t)
    BY <2>1 DEF Tx
  <2>3. Shape(task[t])' /\ SentOnce(t)' /\ SentInTurn(t)' /\ PoolOwned(t)' /\ OkHappened(t)'
    BY <1>1, <1>3, <2>1, <2>2
    DEF TaskInv, Shape, SentOnce, SentInTurn, PoolOwned, OkHappened
  <2>4. HoldsLock(t)'
    <3> SUFFICES ASSUME task[t].pc \in {"fetch", "simulate", "send", "wait"}
                 PROVE  lock'[Home[t]][Signer[t]] = t
      BY <2>1 DEF HoldsLock
    <3>1. Home[t] # p /\ Home[t] \in Process
      BY <1>6, ClientAssumption
    <3> QED BY <1>1, <2>1, <3>1 DEF Inv, Types, TaskInv, HoldsLock
  <2>5. NumberFresh(t)'
    <3>1. Overtaken(t) => Overtaken(t)'
      <4>1. \A e \in ledger : e.tx.task \in Task
        BY DEF Inv, Types, Transaction
      <4> QED BY <1>1, <1>4, <2>1, <4>1 DEF Overtaken
    <3> QED BY <1>1, <2>1, <3>1 DEF TaskInv, NumberFresh
  <2>6. SimulationValid(t)' /\ StoredAsReported(t)'
    <3>1. (Committing(t)' <=> Committing(t)) /\ (Taken(t)' <=> Taken(t))
      BY <1>1, <2>1 DEF Committing, Taken
    <3> QED BY <1>1, <2>1, <2>2, <3>1 DEF TaskInv, SimulationValid, StoredAsReported
  <2> QED BY <2>3, <2>4, <2>5, <2>6 DEF TaskInv
<1> QED BY <1>2, <1>3, <1>5, <1>6 DEF Inv

LEMMA DropStep ==
    ASSUME Inv, NEW tx \in pool, Drop(tx)
    PROVE  Inv'
<1>1. Fault /\ pool' = pool \ {tx} /\ UNCHANGED <<seqNum, counter, ledger, lock, task>>
  BY DEF Drop
<1>2. Types' /\ NumbersUsedOnce' /\ \A x \in Sent' : x \in Sent
  BY <1>1, FaultType DEF Inv, Types, NumbersUsedOnce, Sent
<1>3. ASSUME NEW t \in Task
      PROVE  TaskInv(t)'
  <2>1. TaskInv(t) /\ Tx(t)' = Tx(t)
    BY <1>1 DEF Inv, Tx
  <2>2. /\ Shape(task[t])' /\ SentOnce(t)' /\ SentInTurn(t)' /\ PoolOwned(t)' /\ OkHappened(t)'
        /\ HoldsLock(t)'
    BY <1>1, <1>2, <2>1
    DEF TaskInv, Shape, SentOnce, SentInTurn, PoolOwned, OkHappened, HoldsLock
  <2>3. NumberFresh(t)'
    BY <1>1, <2>1 DEF TaskInv, NumberFresh, Overtaken
  <2>4. (Committing(t)' <=> Committing(t)) /\ (Taken(t)' <=> Taken(t))
    BY <1>1 DEF Committing, Taken
  <2>5. SimulationValid(t)' /\ StoredAsReported(t)'
    BY <1>1, <2>1, <2>4 DEF TaskInv, SimulationValid, StoredAsReported
  <2> QED BY <2>2, <2>3, <2>5 DEF TaskInv
<1> QED BY <1>2, <1>3 DEF Inv

LEMMA ApplyStep ==
    ASSUME Inv, NEW tx \in pool, Apply(tx)
    PROVE  Inv'
<1>1. /\ tx.seq = seqNum[tx.acct] + 1 /\ pool' = pool \ {tx}
      /\ seqNum' = [seqNum EXCEPT ![tx.acct] = tx.seq] /\ UNCHANGED <<lock, task>>
  BY DEF Apply
<1>2. /\ tx \in Transaction /\ tx.task \in Task /\ tx.stage \in Stage /\ tx.acct \in Account
      /\ tx.seq \in Nat /\ tx.acct = Signer[tx.task] /\ seqNum \in [Account -> Nat]
  BY DEF Inv, Types, Transaction, NumbersUsedOnce
<1>3. counter \in [root : Nat, record : Nat] /\ DOMAIN counter = {"root", "record"}
  BY DEF Inv, Types
<1>4. PICK e : /\ e \in [tx : Transaction, ok : BOOLEAN, value : Nat]
               /\ ledger' = ledger \cup {e} /\ e.tx = tx
               /\ e.ok => e.value = Returns(tx.stage)
               /\ counter' \in [root : Nat, record : Nat]
               /\ counter'.root # counter.root => e.ok /\ tx.stage \in Commits
               /\ faults' \in Nat
  <2>1. CASE /\ tx.stage = "root" => tx.acct = Admin
             /\ ledger' = ledger \cup {[tx |-> tx, ok |-> TRUE, value |-> Returns(tx.stage)]}
             /\ counter' = Counted(tx.stage)
             /\ UNCHANGED faults
    <3> DEFINE d == [tx |-> tx, ok |-> TRUE, value |-> Returns(tx.stage)]
    <3>1. Returns(tx.stage) \in Nat
      BY <1>3 DEF Returns, Commits
    <3>2. /\ d \in [tx : Transaction, ok : BOOLEAN, value : Nat] /\ d.tx = tx /\ d.ok
          /\ d.value = Returns(tx.stage)
      BY <1>2, <3>1
    <3>3. /\ counter' \in [root : Nat, record : Nat]
          /\ counter'.root # counter.root => tx.stage \in Commits
      BY <1>3, <2>1 DEF Counted, Commits
    <3> HIDE DEF d
    <3> QED BY <2>1, <3>2, <3>3, FaultType DEF d
  <2>2. CASE /\ IF tx.stage = "root" /\ tx.acct # Admin THEN UNCHANGED faults ELSE Fault
             /\ ledger' = ledger \cup {[tx |-> tx, ok |-> FALSE, value |-> 0]}
             /\ UNCHANGED counter
    <3> DEFINE d == [tx |-> tx, ok |-> FALSE, value |-> 0]
    <3>1. d \in [tx : Transaction, ok : BOOLEAN, value : Nat] /\ d.tx = tx /\ ~d.ok
      BY <1>2
    <3> HIDE DEF d
    <3> QED BY <1>3, <2>2, <3>1, FaultType DEF d
  <2> QED BY <2>1, <2>2 DEF Apply
<1>5. seqNum' \in [Account -> Nat] /\ seqNum'[tx.acct] = seqNum[tx.acct] + 1
      /\ \A a \in Account \ {tx.acct} : seqNum'[a] = seqNum[a]
  BY <1>1, <1>2
<1>6. Types'
  BY <1>1, <1>4, <1>5 DEF Inv, Types
<1>7. Sent' = Sent
  BY <1>1, <1>4 DEF Sent
<1>8. \A f \in ledger : f.tx.acct \in Account /\ f.tx.seq \in Nat /\ f.tx.seq <= seqNum[f.tx.acct]
  BY DEF Inv, Types, Transaction, NumbersUsedOnce
<1>9. NumbersUsedOnce'
  <2>1. \A x \in pool' : x.acct # tx.acct /\ x.acct \in Account
    BY <1>1 DEF Inv, NumbersUsedOnce, Types, Transaction
  <2>2. /\ \A x \in pool' : x.acct = Signer[x.task] /\ x.seq = seqNum'[x.acct] + 1
        /\ \A x, y \in pool' : x.acct = y.acct => x = y
    BY <1>1, <1>5, <2>1 DEF Inv, NumbersUsedOnce
  <2>3. \A f \in ledger : f.tx.seq <= seqNum'[f.tx.acct] /\ f.tx # tx
    <3> TAKE f \in ledger
    <3>1. seqNum[f.tx.acct] \in Nat
      BY <1>2, <1>8
    <3>2. CASE f.tx.acct = tx.acct
      BY <1>1, <1>5, <1>8, <3>1, <3>2
    <3>3. CASE f.tx.acct # tx.acct
      BY <1>5, <1>8, <3>3
    <3> QED BY <3>2, <3>3
  <2>4. tx.seq <= seqNum'[tx.acct]
    BY <1>1, <1>2, <1>5
  <2>5. /\ \A f \in ledger' : f.tx.acct = Signer[f.tx.task] /\ f.tx.seq <= seqNum'[f.tx.acct]
        /\ \A f, g \in ledger' : f.tx = g.tx => f = g
    BY <1>2, <1>4, <2>3, <2>4 DEF Inv, NumbersUsedOnce
  <2> QED BY <2>2, <2>5 DEF NumbersUsedOnce
<1>10. ASSUME NEW t \in Task
       PROVE  TaskInv(t)'
  <2>1. /\ TaskInv(t) /\ Tx(t)' = Tx(t) /\ task'[t] = task[t]
        /\ task[t] \in TaskState /\ Signer[t] \in Account
    BY <1>1, ClientAssumption DEF Inv, Tx, Types
  <2>2. /\ Shape(task[t])' /\ SentOnce(t)' /\ SentInTurn(t)' /\ PoolOwned(t)'
        /\ HoldsLock(t)'
    BY <1>1, <1>7, <2>1 DEF TaskInv, Shape, SentOnce, SentInTurn, PoolOwned, HoldsLock
  <2>3. OkHappened(t)'
    BY <1>1, <1>4, <2>1 DEF TaskInv, OkHappened
  <2>4. NumberFresh(t)'
    <3> SUFFICES ASSUME task[t].pc \in {"simulate", "send"}
                 PROVE  /\ task[t].seq <= seqNum'[Signer[t]]
                        /\ task[t].seq # seqNum'[Signer[t]] => Overtaken(t)'
      BY <2>1 DEF NumberFresh
    <3>1. /\ task[t].seq <= seqNum[Signer[t]]
          /\ task[t].seq # seqNum[Signer[t]] => Overtaken(t)
          /\ task[t].seq \in Nat /\ seqNum[Signer[t]] \in Nat
      BY <1>2, <2>1 DEF TaskInv, NumberFresh, TaskState
    <3>2. CASE tx.acct # Signer[t]
      <4>1. seqNum'[Signer[t]] = seqNum[Signer[t]]
        BY <1>5, <2>1, <3>2
      <4>2. Overtaken(t) => Overtaken(t)'
        BY <1>1, <1>4 DEF Overtaken
      <4> QED BY <3>1, <4>1, <4>2
    <3>3. CASE tx.acct = Signer[t]
      <4>1. task[t].seq <= seqNum'[Signer[t]] /\ tx.seq > task[t].seq
        BY <1>1, <1>5, <3>1, <3>3
      <4>2. \/ Home[tx.task] # Home[t]
            \/ task[tx.task].outcome \in {"error", "crashed"}
        <5> SUFFICES ASSUME Home[tx.task] = Home[t], task[tx.task].pc = "wait"
                     PROVE  FALSE
          BY <1>2 DEF Inv, TaskInv, PoolOwned
        <5>1. lock[Home[t]][Signer[t]] = tx.task
          BY <1>2, <3>3 DEF Inv, TaskInv, HoldsLock
        <5>2. lock[Home[t]][Signer[t]] = t
          BY <2>1 DEF TaskInv, HoldsLock
        <5> QED BY <5>1, <5>2
      <4>3. Overtaken(t)'
        BY <1>1, <1>4, <3>3, <4>1, <4>2 DEF Overtaken
      <4> QED BY <4>1, <4>3
    <3> QED BY <3>2, <3>3
  <2>5. Taken(t) => Taken(t)'
    BY <1>1, <1>4 DEF Taken
  <2>6. SimulationValid(t)'
    <3> SUFFICES ASSUME Committing(t)
                 PROVE  /\ task[t].pc = "send" /\ seqNum'[Signer[t]] = task[t].seq =>
                             task[t].ret = counter'.root + 1 \/ Taken(t)'
                        /\ task[t].pc = "wait" /\ Tx(t) \in pool' =>
                             task[t].ret = counter'.root + 1 \/ Taken(t)'
      BY <2>1 DEF SimulationValid, Committing
    <3>1. /\ task[t].pc = "send" /\ seqNum[Signer[t]] = task[t].seq =>
               task[t].ret = counter.root + 1 \/ Taken(t)
          /\ task[t].pc = "wait" /\ Tx(t) \in pool => task[t].ret = counter.root + 1 \/ Taken(t)
      BY <2>1 DEF TaskInv, SimulationValid
    <3>2. CASE tx.acct # Signer[t]
      <4>1. seqNum'[Signer[t]] = seqNum[Signer[t]]
        BY <1>5, <2>1, <3>2
      <4>2. task[t].ret = counter.root + 1 => task[t].ret = counter'.root + 1 \/ Taken(t)'
        <5> SUFFICES ASSUME counter'.root # counter.root, task[t].ret = counter.root + 1
                     PROVE  Taken(t)'
          OBVIOUS
        <5>1. e \in ledger' /\ e.ok /\ e.tx.stage \in Commits /\ e.tx.acct # Signer[t]
          BY <1>4, <3>2
        <5>2. e.value = task'[t].ret
          BY <1>4, <2>1 DEF Returns, Commits
        <5> QED BY <5>1, <5>2 DEF Taken
      <4> QED BY <1>1, <2>5, <3>1, <4>1, <4>2
    <3>3. CASE tx.acct = Signer[t]
      <4>1. task[t].pc = "send" => seqNum'[Signer[t]] # task[t].seq
        <5> SUFFICES ASSUME task[t].pc = "send"
                     PROVE  seqNum'[Signer[t]] # task[t].seq
          OBVIOUS
        <5>1. /\ task[t].seq <= seqNum[Signer[t]] /\ task[t].seq \in Nat
              /\ seqNum[Signer[t]] \in Nat /\ seqNum'[Signer[t]] = seqNum[Signer[t]] + 1
          BY <1>2, <1>5, <2>1, <3>3 DEF TaskInv, NumberFresh, TaskState
        <5> QED BY <5>1
      <4>2. task[t].pc = "wait" => Tx(t) \notin pool'
        <5> SUFFICES ASSUME task[t].pc = "wait", Tx(t) \in pool'
                     PROVE  FALSE
          OBVIOUS
        <5>1. Tx(t).acct = Signer[t]
          BY TxFacts
        <5> QED BY <1>1, <3>3, <5>1 DEF Inv, NumbersUsedOnce
      <4> QED BY <4>1, <4>2
    <3> QED BY <3>2, <3>3
  <2>7. StoredAsReported(t)'
    <3>1. Committing(t)' <=> Committing(t)
      BY <2>1 DEF Committing
    <3>2. ASSUME Committing(t), task[t].pc = "wait" \/ task[t].outcome = "ok",
                 e.ok, e.tx.task = t, e.tx.stage = task[t].stages[1]
          PROVE  e.value = task[t].ret \/ Taken(t)
      <4>1. e.value = counter.root + 1
        <5>1. task[t].stages[1] \in Commits
          BY <3>2 DEF Committing, Commits
        <5> QED BY <1>4, <3>2, <5>1 DEF Returns, Commits
      <4>2. task[t].outcome \notin {"error", "crashed"}
        BY <2>1, <3>2 DEF TaskInv, Shape
      <4>3. task[t].pc = "wait" /\ Tx(t) \in pool
        BY <1>4, <2>1, <3>2, <4>2 DEF TaskInv, PoolOwned
      <4> QED BY <2>1, <3>2, <4>1, <4>3 DEF TaskInv, SimulationValid
    <3> QED BY <1>4, <2>1, <2>5, <3>1, <3>2 DEF TaskInv, StoredAsReported
  <2> QED BY <2>2, <2>3, <2>4, <2>6, <2>7 DEF TaskInv
<1> QED BY <1>6, <1>9, <1>10 DEF Inv

-----------------------------------------------------------------------------
(* The theorem *)

LEMMA InvInit == Init => Inv
<1> SUFFICES ASSUME Init PROVE Inv
  OBVIOUS
<1>1. Idle \in TaskState /\ Idle.pc = "idle" /\ Idle.outcome = "none" /\ Idle.stages = <<>>
  BY DEF Idle, TaskState, Pcs
<1>2. Types
  <2>1. task \in [Task -> TaskState]
    BY <1>1 DEF Init
  <2>2. counter \in [root : Nat, record : Nat]
    BY DEF Init
  <2> QED BY <2>1, <2>2, ClientAssumption DEF Init, Types
<1>3. NumbersUsedOnce /\ Sent = {} /\ pool = {} /\ ledger = {}
  BY DEF Init, NumbersUsedOnce, Sent
<1>4. <<>> # <<"root">> /\ <<>> # <<"oplog">>
  OBVIOUS
<1>5. ASSUME NEW t \in Task
      PROVE  TaskInv(t)
  <2>1. task[t] = Idle
    BY DEF Init
  <2> QED BY <1>1, <1>3, <1>4, <2>1
          DEF TaskInv, Shape, SentOnce, SentInTurn, PoolOwned, HoldsLock, NumberFresh,
              SimulationValid, StoredAsReported, OkHappened, Committing
<1> QED BY <1>2, <1>3, <1>5 DEF Inv

LEMMA InvStep ==
    ASSUME Inv, [Next]_vars
    PROVE  Inv'
<1>1. ASSUME NEW t \in Task, Step(t)
      PROVE  Inv'
  BY <1>1, AcquireStep, FetchStep, SimulateStep, SendStep, SendLostStep, RetryStep,
     AnsweredStep, PollFailsStep DEF Step
<1>2. CASE UNCHANGED vars
  <2>1. UNCHANGED <<seqNum, counter, pool, ledger, lock, task, faults>>
    BY <1>2 DEF vars
  <2>2. Types' /\ NumbersUsedOnce' /\ Sent' = Sent
    BY <2>1 DEF Inv, Types, NumbersUsedOnce, Sent
  <2>3. ASSUME NEW t \in Task
        PROVE  TaskInv(t)'
    <3>1. TaskInv(t) /\ Tx(t)' = Tx(t)
      BY <2>1 DEF Inv, Tx
    <3>2. (Committing(t)' <=> Committing(t)) /\ (Taken(t)' <=> Taken(t))
      BY <2>1 DEF Committing, Taken
    <3>3. SimulationValid(t)' /\ StoredAsReported(t)'
      BY <2>1, <3>1, <3>2 DEF TaskInv, SimulationValid, StoredAsReported
    <3> QED BY <2>1, <2>2, <3>1, <3>3
            DEF TaskInv, Shape, SentOnce, SentInTurn, PoolOwned, HoldsLock, NumberFresh,
                Overtaken, OkHappened
  <2> QED BY <2>2, <2>3 DEF Inv
<1> QED BY <1>1, <1>2, StartStep, HttpErrorStep, ApplyStep, DropStep, CrashStep DEF Next, Quiet

(* What a call of the client reports is what it did, for any processes,    *)
(* accounts and calls and any number of faults: a call takes effect at     *)
(* most once, one that returns Ok took effect, the sequence a commit       *)
(* reports is the one the contract stored unless another account took it   *)
(* through commit_root_with_oplog, and the per-account lock of             *)
(* submit_invoke_with_retry leaves only strangers to overtake it.          *)
THEOREM CallsAlwaysTellEffects == Spec => []CallsTellEffects
<1>1. Inv => CallsTellEffects
  <2> SUFFICES ASSUME Inv
               PROVE  EffectOnceIfOk /\ ReportedSequenceIsStored /\ StaleNumberComesFromOutside
    BY DEF CallsTellEffects
  <2>1. EffectOnceIfOk
    <3> SUFFICES ASSUME NEW t \in Task
                 PROVE  /\ \A s \in Stage : Cardinality(Effects(t, s)) <= 1
                        /\ task[t].outcome = "ok" => Effects(t, task[t].stages[1]) # {}
      BY DEF EffectOnceIfOk
    <3>1. TaskInv(t)
      BY DEF Inv
    <3>2. ASSUME NEW s \in Stage
          PROVE  Cardinality(Effects(t, s)) <= 1
      <4>1. \A e, f \in Effects(t, s) : e = f
        <5> SUFFICES ASSUME NEW e \in Effects(t, s), NEW f \in Effects(t, s)
                     PROVE  e = f
          OBVIOUS
        <5>1. /\ e \in ledger /\ f \in ledger /\ e.tx \in Sent /\ f.tx \in Sent
              /\ e.tx.task = t /\ f.tx.task = t /\ e.tx.stage = f.tx.stage
          BY DEF Effects, Sent
        <5>2. e.tx = f.tx
          BY <3>1, <5>1 DEF TaskInv, SentOnce
        <5> QED BY <5>1, <5>2 DEF Inv, NumbersUsedOnce
      <4>2. CASE Effects(t, s) = {}
        BY <4>2, FS_EmptySet
      <4>3. CASE Effects(t, s) # {}
        <5>1. PICK e : Effects(t, s) = {e}
          BY <4>1, <4>3
        <5>2. Cardinality({e}) = 1
          BY FS_Singleton, Zenon
        <5> QED BY <5>1, <5>2
      <4> QED BY <4>2, <4>3
    <3>3. task[t].outcome = "ok" => Effects(t, task[t].stages[1]) # {}
      BY <3>1 DEF TaskInv, OkHappened, Effects
    <3> QED BY <3>2, <3>3
  <2>2. ReportedSequenceIsStored
    <3> SUFFICES ASSUME NEW t \in Task, task[t].outcome = "ok", Head(task[t].stages) \in Commits
                 PROVE  \A e \in Effects(t, Head(task[t].stages)) : e.value = task[t].ret \/ Taken(t)
      BY DEF ReportedSequenceIsStored
    <3>1. TaskInv(t)
      BY DEF Inv
    <3>2. task[t].stages \in Plans
      BY <3>1 DEF TaskInv, Shape
    <3>3. Head(task[t].stages) = task[t].stages[1] /\ Committing(t)
      BY <3>2, PlanFacts DEF Committing
    <3> QED BY <3>1, <3>3 DEF TaskInv, StoredAsReported, Effects
  <2>3. StaleNumberComesFromOutside
    <3> SUFFICES ASSUME NEW t \in Task, task[t].pc = "send",
                        Tx(t).seq # seqNum[Signer[t]] + 1
                 PROVE  Overtaken(t)
      BY DEF StaleNumberComesFromOutside, Overtaken
    <3>1. Tx(t).seq = task[t].seq + 1
      BY TxFacts
    <3> QED BY <3>1 DEF Inv, TaskInv, NumberFresh
  <2> QED BY <2>1, <2>2, <2>3
<1>2. Inv /\ [Next]_vars => Inv'
  BY InvStep
<1> QED BY <1>1, <1>2, InvInit, PTL DEF Spec
===============================================================================
