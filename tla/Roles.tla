-------------------------------- MODULE Roles --------------------------------
(***************************************************************************)
(* The daemons beside the publisher, which meet on the chain:              *)
(*   - the attester recomputes the oplog root of every committed epoch     *)
(*     from its own replica and attests the ones that agree                *)
(*     (auto_attest_loop, attester.rs);                                    *)
(*   - the reader checks its copy of the log against the chain, compares   *)
(*     oplog roots, and rebuilds its copy from the batches on IPFS         *)
(*     (auditd/reader.rs, audit/reader.rs);                                *)
(*   - the K-of-N manager collects the publishers' own signatures          *)
(*     (attestation.rs, publisher.rs).                                     *)
(*                                                                         *)
(* Epoch n of the log is one batch, named n.  The oplog is the sequence    *)
(* 1, 2, ... of writes; an oplog root is the set of writes it hashes.      *)
(* What the operator commits is chosen freely among the subsets of the     *)
(* range: the attester is there because it may leave writes out.           *)
(***************************************************************************)
EXTENDS Naturals, Sequences, FiniteSets, SequencesExt

CONSTANTS
    Key, Spelling, \* ed25519 keys, and the ways to write one in hex (upper or lower case)
    ReaderHasKey,  \* was the reader given the leaf key?
    MaxWrites, MaxEpochs, MaxFaults, MaxRestarts,
    HistoryLimit,  \* how many roots the reader asks for (100)
    NoOplog        \* an epoch committed without an oplog root

ASSUME RolesAssumption ==
    /\ {MaxWrites, MaxEpochs, MaxFaults, MaxRestarts} \subseteq Nat
    /\ HistoryLimit \in Nat \ {0}
    /\ ReaderHasKey \in BOOLEAN

VARIABLES
    writes,      \* writes in the primary's oplog
    replica,     \* the attester's member: first write still held, majority point
    chain,       \* committed epochs, by sequence
    attested,    \* sequences with the attester's attestation on the contract
    last,        \* last_attested_seq of auto_attest_loop
    task,        \* the loop and the scan: what each is doing
    seen,        \* per sequence, what the tasks found out about it
    local,       \* the reader's events.jsonl: the epochs of its lines
    rebuild,     \* the rebuild request in flight
    manager,     \* AttestationManager: publishers, attestations, threshold
    faults, restarts

source == <<writes, replica, chain>>
attester == <<attested, last, task, seen>>
reader == <<local, rebuild>>
bounds == <<faults, restarts>>
vars == <<source, attester, reader, manager, bounds>>

Task == {"loop", "scan"}

\* Something outside the daemons fails, or the capped oplog loses its oldest entry.
Fault == faults > 0 /\ faults' = faults - 1 /\ UNCHANGED restarts
Restart == restarts > 0 /\ restarts' = restarts - 1 /\ UNCHANGED faults

NoRebuild == [pc |-> "none", history |-> <<>>, next |-> 1, lines |-> <<>>, before |-> <<>>, outcome |-> "none"]

Idle == [pc |-> "idle", seq |-> 0, target |-> 0]

Init ==
    /\ writes = 0 /\ replica = [first |-> 1, majority |-> 0]
    /\ chain = <<>> /\ attested = {} /\ seen = [n \in 1..MaxEpochs |-> {}]
    /\ last = 0 /\ task = [t \in Task |-> Idle]
    /\ local = <<>> /\ rebuild = NoRebuild
    /\ manager = [publishers |-> {}, attestations |-> {}, threshold |-> 2]
    /\ faults = MaxFaults /\ restarts = MaxRestarts

----------------------------------------------------------------------------
(* MongoDB and the publisher, as far as the chain shows them.              *)

Write ==
    /\ writes < MaxWrites /\ writes' = writes + 1
    /\ UNCHANGED <<replica, chain, attester, reader, manager, bounds>>

\* The member replicates.
Replicate ==
    /\ replica.majority < writes /\ replica' = [replica EXCEPT !.majority = @ + 1]
    /\ UNCHANGED <<writes, chain, attester, reader, manager, bounds>>

\* Its oplog is capped and loses the oldest entry.
RollOver ==
    /\ replica.first <= replica.majority /\ replica' = [replica EXCEPT !.first = @ + 1]
    /\ Fault
    /\ UNCHANGED <<writes, chain, attester, reader, manager>>

From == IF chain = <<>> THEN 1 ELSE Last(chain).to

\* An epoch's range is half open, starts where the last one ended and ends at the
\* majority point of the operator's member.  The batch may be on IPFS or not, its
\* leaves keyed (version 2) or not.
Commit ==
    /\ Len(chain) < MaxEpochs /\ writes >= From
    /\ \E root \in {NoOplog} \cup SUBSET (From..(writes - 1)), cid, keyed \in BOOLEAN :
         chain' = Append(chain, [from |-> From, to |-> writes, root |-> root, cid |-> cid, keyed |-> keyed])
    /\ UNCHANGED <<writes, replica, attester, reader, manager, bounds>>

----------------------------------------------------------------------------
(* compute_oplog_range_hash() on a member, and the attester.               *)

\* The end is clamped to the member's own majority point; entries the capped
\* collection has lost are not found.
ComputeOplogRange(from, to) ==
    LET end == IF to > replica.majority THEN replica.majority ELSE to
    IN  {w \in from..(end - 1) : w >= replica.first}

HeldWhole(n) == replica.first <= chain[n].from /\ chain[n].to <= replica.majority

Note(n, what) == seen' = IF n > Len(chain) THEN seen ELSE [seen EXCEPT ![n] = @ \cup {what}]

\* Every ten seconds: anything new since the last sequence done?
Wake ==
    /\ task["loop"].pc = "idle" /\ last < Len(chain)
    /\ task' = [task EXCEPT !["loop"] = [pc |-> "read", seq |-> last + 1, target |-> Len(chain)]]
    /\ UNCHANGED <<source, attested, last, seen, reader, manager, bounds>>

\* POST /attest/scan goes over every sequence again, up to the current one of the
\* contract compiled in (with_url()), which need not be the configured contract that
\* the sequences are then read from: the target is any number.
Scan ==
    /\ task["scan"].pc = "idle" /\ Restart
    /\ \E target \in 1..MaxEpochs :
         task' = [task EXCEPT !["scan"] = [pc |-> "read", seq |-> 1, target |-> target]]
    /\ UNCHANGED <<source, attested, last, seen, reader, manager>>

\* The task goes on with the next sequence; only the loop keeps last.
Goes(t, done) ==
    /\ task' = [task EXCEPT ![t] =
                   IF task[t].seq = task[t].target THEN Idle
                   ELSE [@ EXCEPT !.pc = "read", !.seq = task[t].seq + 1]]
    /\ last' = IF t = "loop" /\ done THEN task[t].seq ELSE last

\* Mutant: a failure ends the pass, and the loop goes on after it.
AttestFails_Advances(t) ==
    /\ task[t].pc \in {"read", "submit"} /\ Fault
    /\ Note(task[t].seq, "failed")
    /\ task' = [task EXCEPT ![t] = Idle]
    /\ last' = IF t = "loop" THEN task[t].target ELSE last
    /\ UNCHANGED <<source, attested, reader, manager>>

\* A call to the chain or to MongoDB fails.  Before the submission the sequence
\* is an error and last stays; a failed submission counts as done.
AttestFails(t) ==
    /\ task[t].pc \in {"read", "submit"} /\ Fault
    /\ Note(task[t].seq, "failed")
    /\ Goes(t, task[t].pc = "submit")
    /\ UNCHANGED <<source, attested, reader, manager>>

\* Mutant: a mismatch is an error, so the loop comes back to it.
Examine_Retries(t) ==
    /\ task[t].pc = "read"
    /\ LET n == task[t].seq
           c == chain[n]
       IN  IF n > Len(chain) \/ c.root = NoOplog THEN Goes(t, TRUE) /\ Note(n, "bare")
           ELSE IF ComputeOplogRange(c.from, c.to) # c.root THEN Goes(t, FALSE) /\ Note(n, "alert")
           ELSE /\ task' = [task EXCEPT ![t].pc = "submit"] /\ UNCHANGED last
                /\ Note(n, IF HeldWhole(n) THEN "whole" ELSE "part")
    /\ UNCHANGED <<source, attested, reader, manager, bounds>>

\* The commitment is read and recomputed on the local member.  Nothing to compare
\* (no such sequence, or one without an oplog root) and a mismatch count as done.
Examine(t) ==
    /\ task[t].pc = "read"
    /\ LET n == task[t].seq
           c == chain[n]
       IN  IF n > Len(chain) \/ c.root = NoOplog THEN Goes(t, TRUE) /\ Note(n, "bare")
           ELSE IF ComputeOplogRange(c.from, c.to) # c.root THEN Goes(t, TRUE) /\ Note(n, "alert")
           ELSE /\ task' = [task EXCEPT ![t].pc = "submit"] /\ UNCHANGED last
                /\ Note(n, IF HeldWhole(n) THEN "whole" ELSE "part")
    /\ UNCHANGED <<source, attested, reader, manager, bounds>>

\* attest_oplog: the contract takes the first one and refuses a duplicate; both
\* count as done.
SubmitAttestation(t) ==
    /\ task[t].pc = "submit"
    /\ attested' = attested \cup {task[t].seq}
    /\ Goes(t, TRUE)
    /\ UNCHANGED <<source, seen, reader, manager, bounds>>

\* last_attested_seq is a variable of the task.
RestartAttester ==
    /\ Restart /\ last' = 0 /\ task' = [t \in Task |-> Idle]
    /\ UNCHANGED <<source, attested, seen, reader, manager>>

----------------------------------------------------------------------------
(* The reader.                                                             *)

\* get_root_history(): newest first.
History ==
    LET n == IF Len(chain) < HistoryLimit THEN Len(chain) ELSE HistoryLimit
    IN  [i \in 1..n |-> Len(chain) - i + 1]

StartRebuild ==
    /\ rebuild.pc = "none" /\ chain # <<>>
    /\ rebuild' = [NoRebuild EXCEPT !.pc = "fetch", !.history = History, !.before = local]
    /\ UNCHANGED <<source, attester, local, manager, bounds>>

HasBatch(n) == chain[n].cid

\* The batches are fetched in the order of the history; one that has no CID, or
\* cannot be fetched or decoded, is left out.
FetchBatch ==
    /\ rebuild.pc = "fetch" /\ rebuild.next <= Len(rebuild.history)
    /\ LET n == rebuild.history[rebuild.next]
       IN  \/ /\ rebuild' = [rebuild EXCEPT !.lines = IF HasBatch(n) THEN Append(@, n) ELSE @, !.next = @ + 1]
              /\ UNCHANGED bounds
           \/ HasBatch(n) /\ Fault /\ rebuild' = [rebuild EXCEPT !.next = @ + 1]
    /\ UNCHANGED <<source, attester, local, manager>>

\* Mutant: the copy is cleared before it is known that there is another.
ClearLocal_First ==
    /\ rebuild.pc = "fetch" /\ rebuild.next > Len(rebuild.history)
    /\ local' = <<>>
    /\ rebuild' = IF rebuild.lines = <<>> THEN [rebuild EXCEPT !.pc = "done", !.outcome = "nothing"]
                  ELSE [rebuild EXCEPT !.pc = "write"]
    /\ UNCHANGED <<source, attester, manager, bounds>>

\* Nothing fetched: the local copy stays.  Otherwise it is cleared.
ClearLocal ==
    /\ rebuild.pc = "fetch" /\ rebuild.next > Len(rebuild.history)
    /\ IF rebuild.lines = <<>>
       THEN rebuild' = [rebuild EXCEPT !.pc = "done", !.outcome = "nothing"] /\ UNCHANGED local
       ELSE local' = <<>> /\ rebuild' = [rebuild EXCEPT !.pc = "write"]
    /\ UNCHANGED <<source, attester, manager, bounds>>

\* replay_file(): every leaf is computed again, a keyed one with the leaf key, and
\* must land at its own index.
Replays(lines) ==
    /\ \A i \in DOMAIN lines : chain[lines[i]].keyed => ReaderHasKey
    /\ lines = [i \in DOMAIN lines |-> i]

\* The root the rebuilt one is compared with is the last entry of the history.
Reported == Last(rebuild.history)

RootMatches(lines) == Replays(lines) /\ Len(lines) = Reported

\* The file is written, then replayed: a replay that fails is an error of the
\* request, and the file keeps its lines.
WriteAndReplay ==
    /\ rebuild.pc = "write"
    /\ local' = rebuild.lines
    /\ rebuild' = [rebuild EXCEPT !.pc = "done",
                     !.outcome = IF ~Replays(rebuild.lines) THEN "error"
                                 ELSE IF RootMatches(rebuild.lines) THEN "intact" ELSE "mismatch"]
    /\ UNCHANGED <<source, attester, manager, bounds>>

EndRebuild ==
    /\ rebuild.pc = "done" /\ rebuild' = NoRebuild
    /\ UNCHANGED <<source, attester, local, manager, bounds>>

\* The reader dies; events.jsonl is what it was.
RestartReader ==
    /\ rebuild.pc # "none" /\ Restart /\ rebuild' = NoRebuild
    /\ UNCHANGED <<source, attester, local, manager>>

\* find_root_in_log() and verify_root_chain(): the lines before the first one
\* past the match must replay, and a keyed leaf fails with or without the key.
ChainIntact(lines, n) ==
    LET upTo == {i \in DOMAIN lines : \A j \in 1..i : lines[j] <= n}
    IN  \A i \in upTo : lines[i] = i /\ ~chain[lines[i]].keyed

\* verify_with_onchain_root(): is the latest root in the copy, and does the chain
\* of roots rebuild up to it?
VerifyReport ==
    IF chain = <<>> THEN "nothing_committed"
    ELSE IF Len(chain) \notin Range(local) THEN IF local = <<>> THEN "empty" ELSE "tamper"
    ELSE IF ChainIntact(local, Len(chain)) THEN "verified" ELSE "tamper"

\* verify_oplog(): the latest commitment against the reader's own member.
VerifyOplog ==
    IF chain = <<>> THEN "no_commitment"
    ELSE LET c == Last(chain)
         IN  IF c.root = NoOplog THEN "no_oplog_commitment"
             ELSE IF ComputeOplogRange(c.from, c.to) = {} /\ c.root # {} THEN "stale"
             ELSE IF ComputeOplogRange(c.from, c.to) = c.root THEN "complete" ELSE "mismatch"

----------------------------------------------------------------------------
(* The K-of-N manager.  Publishers and attestations are kept under the hex *)
(* text of the key as the request wrote it; hex::decode takes both cases,  *)
(* so a key has several texts.  The root signed is the one the request     *)
(* named.                                                                  *)

Publisher == [key : Key, spelling : Spelling]

AddPublisher(p) ==
    /\ p \notin manager.publishers
    /\ manager' = [manager EXCEPT !.publishers = @ \cup {p}]
    /\ UNCHANGED <<source, attester, reader, bounds>>

RemovePublisher(p) ==
    /\ p \in manager.publishers
    /\ manager' = [manager EXCEPT !.publishers = @ \ {p}]
    /\ UNCHANGED <<source, attester, reader, bounds>>

Attestation(p, epoch, root) == [publisher |-> p, epoch |-> epoch, root |-> root]

\* Mutant: a publisher that came back may attest again.
SubmitToManager_Twice(p, epoch, root) ==
    /\ p \in manager.publishers
    /\ manager' = [manager EXCEPT !.attestations = @ \cup {Attestation(p, epoch, root)}]
    /\ UNCHANGED <<source, attester, reader, bounds>>

SubmitToManager(p, epoch, root) ==
    /\ p \in manager.publishers
    /\ \A a \in manager.attestations : ~(a.publisher = p /\ a.epoch = epoch)
    /\ manager' = [manager EXCEPT !.attestations = @ \cup {Attestation(p, epoch, root)}]
    /\ UNCHANGED <<source, attester, reader, bounds>>

SetThreshold(k) ==
    /\ k # manager.threshold
    /\ manager' = [manager EXCEPT !.threshold = k]
    /\ UNCHANGED <<source, attester, reader, bounds>>

\* get_status(): every stored attestation of the epoch counts, whatever root it
\* signs and whether or not its publisher is still registered.
ValidAttestations(epoch) == Cardinality({a \in manager.attestations : a.epoch = epoch})
ThresholdMet(epoch) == ValidAttestations(epoch) >= manager.threshold /\ manager.threshold > 0
Pending(epoch) == manager.publishers \ {a.publisher : a \in {b \in manager.attestations : b.epoch = epoch}}

----------------------------------------------------------------------------
SourceNext == Write \/ Replicate \/ RollOver \/ Commit

AttesterSteps == Wake \/ \E t \in Task : Examine(t) \/ SubmitAttestation(t)
AttesterNext == AttesterSteps \/ Scan \/ RestartAttester \/ \E t \in Task : AttestFails(t)

ReaderNext == \/ StartRebuild \/ FetchBatch \/ ClearLocal \/ WriteAndReplay
              \/ EndRebuild \/ RestartReader

ManagerNext ==
    \/ \E p \in Publisher : AddPublisher(p) \/ RemovePublisher(p)
    \/ \E p \in Publisher, epoch \in 1..MaxEpochs, root \in {"committed", "other"} : SubmitToManager(p, epoch, root)
    \/ \E k \in 0..(Cardinality(Publisher) + 1) : SetThreshold(k)

Next == SourceNext \/ AttesterNext \/ ReaderNext \/ ManagerNext

\* The loop wakes every ten seconds and its calls return.
Fairness == WF_vars(Wake) /\ \A t \in Task : WF_vars(Examine(t)) /\ WF_vars(SubmitAttestation(t))

Spec == Init /\ [][Next]_vars
FairSpec == Spec /\ Fairness

----------------------------------------------------------------------------
(* Properties.                                                             *)

Complete(n) == chain[n].root = chain[n].from..(chain[n].to - 1)

\* An attestation on the contract stands for a complete epoch as long as the
\* member held the whole range each time it agreed: no write the member had
\* majority-committed is missing from the root that was attested.  The reader's
\* verdict "complete" says as much of the latest epoch.
AttestedIsComplete ==
    /\ \A n \in attested : "part" \notin seen[n] => Complete(n)
    /\ VerifyOplog = "complete" /\ HeldWhole(Len(chain)) => Complete(Len(chain))

\* Whatever fails and however the scan and restarts interleave, the loop leaves
\* a sequence without an attestation only after it looked at it or failed on it.
NothingPassedUnexamined ==
    \A n \in 1..last : n \in attested \/ seen[n] \cap {"bare", "alert", "failed"} # {}

\* The attester attests what it saw whole, and passes nothing by.
AttesterSound == AttestedIsComplete /\ NothingPassedUnexamined

\* The loop gets to every committed sequence: an epoch it cannot attest does not
\* hold up the ones after it.
LoopReachesEverySequence ==
    \A n \in 1..MaxEpochs : (n <= Len(chain)) ~> (last >= n)

\* The outcome of a rebuild tells what is in events.jsonl, also when commits,
\* failed fetches, missing CIDs and restarts came in between: "intact" means the
\* epochs up to the reported root, whole and in order; nothing fetched means the
\* copy that was there before.  A copy that verifies afterwards holds every
\* committed epoch at its place.
RebuildOutcomeTellsTheCopy ==
    /\ rebuild.outcome = "intact" => local = [i \in 1..Reported |-> i]
    /\ rebuild.outcome = "nothing" => local = rebuild.before
    /\ VerifyReport = "verified" => \A i \in 1..Len(chain) : local[i] = i

Voters(epoch) == {a.publisher : a \in {b \in manager.attestations : b.epoch = epoch}}

\* A threshold that is met was met by that many different publishers, however often
\* one was removed and registered again, and none of them is shown as pending.  A
\* publisher here is what the manager takes for one, the text of a key.
ThresholdCountsPublishers ==
    \A epoch \in 1..MaxEpochs : ThresholdMet(epoch) =>
        Cardinality(Voters(epoch)) >= manager.threshold /\ Pending(epoch) \cap Voters(epoch) = {}

\* attestation.rs:10 says publishers are identified by their ed25519 key: a threshold
\* that is met should be met by that many keys.  It is not when a key was registered
\* in two spellings.
ThresholdCountsKeys ==
    \A epoch \in 1..MaxEpochs : ThresholdMet(epoch) =>
        Cardinality({p.key : p \in Voters(epoch)}) >= manager.threshold

\* attestation.rs:3-6 speaks of publishers that attest the epoch's root: those that
\* count should have signed one root.  get_status() does not compare them.
ThresholdCountsOneRoot ==
    \A epoch \in 1..MaxEpochs : ThresholdMet(epoch) =>
        \A a, b \in {c \in manager.attestations : c.epoch = epoch} : a.root = b.root

\* What auditd/reader.rs:82-83 says of a rebuild: all batches are replayed and the
\* final root is the latest commitment.  Claimed for the case where every batch
\* was fetched and nothing was committed meanwhile.
RebuildRestoresLatest ==
    (/\ rebuild.pc = "done" /\ rebuild.history = History
     /\ Len(chain) <= HistoryLimit /\ Len(rebuild.lines) = Len(chain))
        => rebuild.outcome = "intact"
=============================================================================
