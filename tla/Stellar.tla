------------------------------- MODULE Stellar -------------------------------
(***************************************************************************)
(* The native Soroban client: how a call of the contract becomes one       *)
(* transaction.  submit_invoke_with_retry holds a lock per signing account *)
(* (per process), fetches the account's sequence number, simulates, signs, *)
(* sends, retries on txBAD_SEQ and polls until the transaction is applied. *)
(* Several processes may sign with the same account: the publisher daemon, *)
(* the desktop application and a second installation of either.            *)
(*                                                                         *)
(* The network is external: a node that answers, and a ledger that applies *)
(* accepted transactions later, drops them, or applies them and fails.     *)
(* A call is known by what its effect on the contract returns: "root" and  *)
(* "oplog" for the two commits (the next sequence of the root history; the *)
(* second asks for nobody's authorization), "record" for                   *)
(* verify_and_record_disclosure (the next record id), "plain" for the      *)
(* calls that return nothing of interest.  Calls of different tasks carry  *)
(* different arguments, so their transactions differ.                      *)
(***************************************************************************)
EXTENDS Naturals, Sequences, FiniteSets

CONSTANTS
    Task,               \* calls of the client's functions
    Process, Account,
    Home,               \* [Task -> Process]: the process that makes the call
    Signer,             \* [Task -> Account]: the key it signs with
    Admin,              \* the contract's admin account
    Calls,              \* [Task -> SUBSET Stage]: what it may call
    MaxBadSeqRetries,   \* MAX_BAD_SEQ_RETRIES (5)
    MaxPolls,           \* answered polls before the wait gives up (15)
    MaxFaults,          \* failed requests, lost answers, dropped transactions, crashes
    Free                \* a lock nobody holds

Commits == {"root", "oplog"}
Stage == Commits \cup {"record", "plain", "upload", "create"}

ASSUME ClientAssumption ==
    /\ Home \in [Task -> Process] /\ Signer \in [Task -> Account]
    /\ Calls \in [Task -> SUBSET Stage] /\ Free \notin Task
    /\ {MaxBadSeqRetries, MaxPolls, MaxFaults} \subseteq Nat

VARIABLES
    seqNum,   \* [Account -> Nat]: the account's sequence number on the ledger
    counter,  \* committed roots and recorded disclosures
    pool,     \* accepted transactions that are not applied yet
    ledger,   \* applied transactions
    lock,     \* [Process -> [Account -> Task \cup {Free}]]: LOCKS of each process
    task,     \* [Task -> state of the call]
    faults    \* faults that may still happen

vars == <<seqNum, counter, pool, ledger, lock, task, faults>>

Idle == [pc |-> "idle", stages |-> <<>>, seq |-> 0, ret |-> 0, attempt |-> 0, polls |-> 0, outcome |-> "none"]

Ended(how) == [Idle EXCEPT !.pc = "done", !.outcome = how]

Init ==
    /\ seqNum = [a \in Account |-> 0]
    /\ counter = [root |-> 0, record |-> 0]
    /\ pool = {} /\ ledger = {}
    /\ lock = [p \in Process |-> [a \in Account |-> Free]]
    /\ task = [t \in Task |-> Idle]
    /\ faults = MaxFaults

----------------------------------------------------------------------------
(* The ledger.                                                             *)

\* build_host_function_transaction: the fetched number plus one.
Tx(t) == [task |-> t, stage |-> Head(task[t].stages), acct |-> Signer[t], seq |-> task[t].seq + 1]

\* What the call would return if it were applied now: both commits count in one sequence.
Returns(stage) ==
    CASE stage \in Commits -> counter.root + 1
      [] stage = "record" -> counter.record + 1
      [] OTHER -> 0

\* What the contract then has: the sequence and the next record id.
Counted(stage) ==
    CASE stage \in Commits -> [counter EXCEPT !.root = @ + 1]
      [] stage = "record" -> [counter EXCEPT !.record = @ + 1]
      [] OTHER -> counter

Fault == faults > 0 /\ faults' = faults - 1

\* A ledger closes.  commit_root asks for the admin's authorization, which only the
\* admin's own transaction carries, commit_root_with_oplog for none; any call may fail
\* on chain.  The account's number advances in both cases.
Apply(tx) ==
    /\ tx \in pool /\ tx.seq = seqNum[tx.acct] + 1
    /\ pool' = pool \ {tx}
    /\ seqNum' = [seqNum EXCEPT ![tx.acct] = tx.seq]
    /\ \/ /\ tx.stage = "root" => tx.acct = Admin
          /\ ledger' = ledger \cup {[tx |-> tx, ok |-> TRUE, value |-> Returns(tx.stage)]}
          /\ counter' = Counted(tx.stage)
          /\ UNCHANGED faults
       \/ /\ IF tx.stage = "root" /\ tx.acct # Admin THEN UNCHANGED faults ELSE Fault
          /\ ledger' = ledger \cup {[tx |-> tx, ok |-> FALSE, value |-> 0]}
          /\ UNCHANGED counter
    /\ UNCHANGED <<lock, task>>

Drop(tx) ==
    /\ tx \in pool /\ Fault /\ pool' = pool \ {tx}
    /\ UNCHANGED <<seqNum, counter, ledger, lock, task>>

----------------------------------------------------------------------------
(* The functions of the client.  Each builds its arguments (a malformed    *)
(* one is refused before anything is sent), then submits.                  *)

Submits(t, stages) ==
    /\ task[t].pc = "idle" /\ Head(stages) \in Calls[t]
    /\ \/ task' = [task EXCEPT ![t] = [@ EXCEPT !.pc = "lock", !.stages = stages]]
       \/ task' = [task EXCEPT ![t] = Ended("invalid")]
    /\ UNCHANGED <<seqNum, counter, pool, ledger, lock, faults>>

CommitRoot(t) == Submits(t, <<"root">>)
CommitRootWithOplog(t) == Submits(t, <<"oplog">>)
AttestOplog(t) == Submits(t, <<"plain">>)
VerifyInclusion(t) == Submits(t, <<"plain">>)
InitializeContract(t) == Submits(t, <<"plain">>)
RegisterDisclosureVk(t) == Submits(t, <<"plain">>)
AuthorizeAttester(t) == Submits(t, <<"plain">>)
RevokeAttester(t) == Submits(t, <<"plain">>)
SetThreshold(t) == Submits(t, <<"plain">>)
VerifyAndRecordDisclosure(t) == Submits(t, <<"record">>)

\* Two submissions; the lock is free between them.
DeployContract(t) == Submits(t, <<"upload", "create">>)

----------------------------------------------------------------------------
(* submit_invoke_with_retry and submit_host_function_with_retry.           *)

Release(t) == lock' = [lock EXCEPT ![Home[t]][Signer[t]] = Free]

Fails(t) ==
    /\ task' = [task EXCEPT ![t] = Ended("error")]
    /\ Release(t)

Acquire(t) ==
    /\ task[t].pc = "lock" /\ lock[Home[t]][Signer[t]] = Free
    /\ lock' = [lock EXCEPT ![Home[t]][Signer[t]] = t]
    /\ task' = [task EXCEPT ![t] = [@ EXCEPT !.pc = "fetch", !.attempt = 0]]
    /\ UNCHANGED <<seqNum, counter, pool, ledger, faults>>

\* get_account_sequence_from_rpc: a transport, HTTP or RPC error, or a missing
\* account, ends the call.
FetchSequence(t) ==
    /\ task[t].pc = "fetch"
    /\ \/ /\ task' = [task EXCEPT ![t] = [@ EXCEPT !.pc = "simulate", !.seq = seqNum[Signer[t]]]]
          /\ UNCHANGED <<lock, faults>>
       \/ Fault /\ Fails(t)
    /\ UNCHANGED <<seqNum, counter, pool, ledger>>

\* The return value is the one of the simulation.
Simulate(t) ==
    /\ task[t].pc = "simulate"
    /\ \/ /\ task' = [task EXCEPT ![t] = [@ EXCEPT !.pc = "send", !.ret = Returns(Head(task[t].stages))]]
          /\ UNCHANGED <<lock, faults>>
       \/ Fault /\ Fails(t)
    /\ UNCHANGED <<seqNum, counter, pool, ledger>>

\* What the node answers to sendTransaction.
Verdict(tx) ==
    IF \E x \in pool : x.acct = tx.acct THEN "TRY_AGAIN_LATER"
    ELSE IF tx.seq # seqNum[tx.acct] + 1 THEN "txBAD_SEQ" ELSE "PENDING"

Waits(t) == [task EXCEPT ![t] = [@ EXCEPT !.pc = "wait", !.polls = 0]]

\* Every status but ERROR counts as sent, TRY_AGAIN_LATER too.
SendTransaction(t) ==
    /\ task[t].pc = "send" /\ Verdict(Tx(t)) \in {"PENDING", "TRY_AGAIN_LATER"}
    /\ pool' = IF Verdict(Tx(t)) = "PENDING" THEN pool \cup {Tx(t)} ELSE pool
    /\ task' = Waits(t)
    /\ UNCHANGED <<seqNum, counter, ledger, lock, faults>>

\* Mutant: a lost answer is retried like a rejection.
SendLost_Retries(t) ==
    /\ task[t].pc = "send" /\ Fault
    /\ \/ Verdict(Tx(t)) = "PENDING" /\ pool' = pool \cup {Tx(t)}
       \/ UNCHANGED pool
    /\ task' = [task EXCEPT ![t] = [@ EXCEPT !.pc = "fetch"]]
    /\ UNCHANGED <<seqNum, counter, ledger, lock>>

\* The request or its answer is lost: the node may have taken the transaction.
SendLost(t) ==
    /\ task[t].pc = "send" /\ Fault
    /\ \/ Verdict(Tx(t)) = "PENDING" /\ pool' = pool \cup {Tx(t)}
       \/ UNCHANGED pool
    /\ Fails(t)
    /\ UNCHANGED <<seqNum, counter, ledger>>

BadSeqRetry(t) ==
    /\ task[t].pc = "send" /\ Verdict(Tx(t)) = "txBAD_SEQ"
    /\ IF task[t].attempt < MaxBadSeqRetries
       THEN /\ task' = [task EXCEPT ![t] = [@ EXCEPT !.pc = "fetch", !.attempt = task[t].attempt + 1]]
            /\ UNCHANGED lock
       ELSE Fails(t)
    /\ UNCHANGED <<seqNum, counter, pool, ledger, faults>>

----------------------------------------------------------------------------
(* wait_for_transaction.                                                   *)

Applied(t) == {e \in ledger : e.tx = Tx(t)}

Succeeds(t) ==
    /\ task' = [task EXCEPT ![t] =
         IF Len(@.stages) > 1 THEN [@ EXCEPT !.pc = "lock", !.stages = Tail(task[t].stages)]
         ELSE [Ended("ok") EXCEPT !.stages = task[t].stages, !.ret = task[t].ret]]
    /\ Release(t)

\* Mutant: a status that is neither SUCCESS nor FAILED never times out.
PollAnswered_Patient(t) ==
    /\ task[t].pc = "wait"
    /\ IF Applied(t) # {} THEN (IF \E e \in Applied(t) : e.ok THEN Succeeds(t) ELSE Fails(t))
       ELSE UNCHANGED <<task, lock>>
    /\ UNCHANGED <<seqNum, counter, pool, ledger, faults>>

PollAnswered(t) ==
    /\ task[t].pc = "wait"
    /\ IF Applied(t) # {} THEN (IF \E e \in Applied(t) : e.ok THEN Succeeds(t) ELSE Fails(t))
       ELSE IF task[t].polls >= MaxPolls THEN Fails(t)
       ELSE task' = [task EXCEPT ![t] = [@ EXCEPT !.polls = task[t].polls + 1]] /\ UNCHANGED lock
    /\ UNCHANGED <<seqNum, counter, pool, ledger, faults>>

\* A status other than 2xx goes round the loop past the check of the timeout,
\* having counted the attempt (beyond MaxPolls the count makes no difference).
PollHttpError(t) ==
    /\ task[t].pc = "wait"
    /\ task' = [task EXCEPT ![t] = [@ EXCEPT
         !.polls = IF task[t].polls < MaxPolls THEN task[t].polls + 1 ELSE task[t].polls]]
    /\ UNCHANGED <<seqNum, counter, pool, ledger, lock, faults>>

PollFails(t) ==
    /\ task[t].pc = "wait" /\ Fault /\ Fails(t)
    /\ UNCHANGED <<seqNum, counter, pool, ledger>>

\* The process dies: its calls and its locks are gone, its transactions are not.
Crash(p) ==
    /\ Fault
    /\ task' = [t \in Task |-> IF Home[t] = p /\ task[t].pc \notin {"idle", "done"}
                               THEN Ended("crashed")
                               ELSE task[t]]
    /\ lock' = [lock EXCEPT ![p] = [a \in Account |-> Free]]
    /\ UNCHANGED <<seqNum, counter, pool, ledger>>

----------------------------------------------------------------------------

Starts(t) ==
    \/ CommitRoot(t) \/ CommitRootWithOplog(t) \/ AttestOplog(t) \/ VerifyInclusion(t)
    \/ InitializeContract(t) \/ RegisterDisclosureVk(t) \/ AuthorizeAttester(t)
    \/ RevokeAttester(t) \/ SetThreshold(t) \/ VerifyAndRecordDisclosure(t) \/ DeployContract(t)

Step(t) ==
    \/ Acquire(t) \/ FetchSequence(t) \/ Simulate(t) \/ SendTransaction(t)
    \/ SendLost(t) \/ BadSeqRetry(t) \/ PollAnswered(t) \/ PollFails(t)

\* All calls returned and nothing is left in the pool.
Quiet ==
    /\ \A t \in Task : task[t].pc = "done"
    /\ pool = {}
    /\ UNCHANGED vars

Next ==
    \/ \E t \in Task : Starts(t) \/ Step(t) \/ PollHttpError(t)
    \/ \E tx \in pool : Apply(tx) \/ Drop(tx)
    \/ \E p \in Process : Crash(p)
    \/ Quiet

Spec == Init /\ [][Next]_vars

\* A call's task is scheduled, and the node answers some poll of it with 2xx: as long
\* as it does not, the code goes on polling.
FairSpec == Spec /\ \A t \in Task : WF_vars(Step(t))

----------------------------------------------------------------------------
(* Properties.                                                             *)

TypeOK ==
    /\ seqNum \in [Account -> Nat]
    /\ counter \in [root : Nat, record : Nat]
    /\ lock \in [Process -> [Account -> Task \cup {Free}]]
    /\ \A t \in Task : task[t].pc \in {"idle", "lock", "fetch", "simulate", "send", "wait", "done"}

Effects(t, stage) == {e \in ledger : e.ok /\ e.tx.task = t /\ e.tx.stage = stage}

(* A call takes effect at most once, whatever is retried, lost or timed out, *)
(* and one that returns Ok took effect: the retry of                         *)
(* submit_invoke_with_retry follows only a rejection that proves the         *)
(* transaction was not taken.                                                *)
EffectOnceIfOk ==
    \A t \in Task :
        /\ \A s \in Stage : Cardinality(Effects(t, s)) <= 1
        /\ task[t].outcome = "ok" => Effects(t, task[t].stages[1]) # {}

(* Another account has the number that a commit was told in its simulation.  *)
Taken(t) ==
    \E e \in ledger : e.ok /\ e.tx.stage \in Commits /\ e.tx.acct # Signer[t] /\ e.value = task[t].ret

(* The sequence a commit reports is the one under which the contract stored  *)
(* the root, although it was simulated before the transaction was sent: the  *)
(* sequence number of its account, fetched before the simulation, makes a    *)
(* commit that was overtaken from the same account fail with txBAD_SEQ.  If  *)
(* it is not, the root reported under it came from another account, through  *)
(* commit_root_with_oplog.                                                   *)
ReportedSequenceIsStored ==
    \A t \in Task : task[t].outcome = "ok" /\ Head(task[t].stages) \in Commits =>
        \A e \in Effects(t, Head(task[t].stages)) : e.value = task[t].ret \/ Taken(t)

(* The lock keeps the calls of one process from colliding (submit_lock_for): *)
(* a number that is stale when the transaction is sent was used up by        *)
(* another process, or by a call that gave up before its transaction was     *)
(* applied.                                                                  *)
StaleNumberComesFromOutside ==
    \A t \in Task : task[t].pc = "send" /\ Tx(t).seq # seqNum[Signer[t]] + 1 =>
        \E e \in ledger :
            /\ e.tx.acct = Signer[t] /\ e.tx.seq > task[t].seq
            /\ \/ Home[e.tx.task] # Home[t]
               \/ task[e.tx.task].outcome \in {"error", "crashed"}

(* What a call reports is what it did, once, and only strangers disturb it.  *)
CallsTellEffects == EffectOnceIfOk /\ ReportedSequenceIsStored /\ StaleNumberComesFromOutside

(* Every call that was started returns, an overtaken or dropped transaction  *)
(* included, and the account's lock is free again: nobody waits forever on   *)
(* the mutex behind a transaction that will never be applied.                *)
EveryCallReturns == \A t \in Task : task[t].pc # "idle" ~> task[t].pc = "done"

(* What the comment at stellar_native.rs:978 says of the number a commit     *)
(* reports, "the on-chain sequence".  The contract asks for no authorization *)
(* in commit_root_with_oplog, so another account can come between.           *)
SequenceIsAssigned ==
    \A t \in Task : task[t].outcome = "ok" /\ Head(task[t].stages) \in Commits =>
        \A e \in Effects(t, Head(task[t].stages)) : e.value = task[t].ret

(* What RecordedVerifyResult says of record_id: "The on-chain record id      *)
(* assigned by the contract."  The value comes from the simulation.          *)
RecordIdIsAssigned ==
    \A t \in Task : task[t].outcome = "ok" /\ task[t].stages = <<"record">> =>
        \A e \in Effects(t, "record") : e.value = task[t].ret
=============================================================================
