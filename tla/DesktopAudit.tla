---------------------------- MODULE DesktopAudit ----------------------------
(***************************************************************************)
(* The audit commands of the desktop application                           *)
(* (src-tauri/src/audit/commands.rs): recording and sealing, publishing    *)
(* and committing an epoch, the reader's check, the rebuild from the chain *)
(* and the oplog check.  The user interface calls them one after another   *)
(* (AuditLiveViewV2.tsx), while capture records events and MongoDB moves.  *)
(*                                                                         *)
(* An event is known by its index and the generation of the log, which a   *)
(* reset begins anew; the root after event i of generation g is <<g, i>>.  *)
(* The oplog has one entry per timestamp.                                  *)
(***************************************************************************)
EXTENDS EpochManager, FiniteSets, FiniteSetsExt

CONSTANTS MaxEvents,   \* events of a generation
          MaxResets,   \* resets of the audit data
          MaxTs,       \* oplog timestamps
          MaxCommits,  \* commits begun
          MaxRecords   \* MAX_RECORDS of the verification history

VARIABLES
    log,        \* the audit log: its generation and length
    epochs,     \* EpochManager.epochs
    nextOplog,  \* next_oplog_start_ts; 0 is None
    majority,   \* the majority-committed timestamp of MongoDB
    oldest,     \* the oldest entry left in the member's oplog
    chains,     \* what the bundled and the user's own contract hold, in order
    contract,   \* the configured one, and whether it knows oplog commitments
    hashed,     \* per epoch with a range: the first entry its hash covers
    cids,       \* epochs with a CID on file
    flow,       \* the commit under way
    runs,       \* VerificationStore.records
    begun,      \* commits begun
    crossed     \* history: a reset came between two steps of a commit

auditVars == <<log, epochs, nextOplog, hashed, majority, oldest, chains, contract, cids, flow, runs, begun, crossed>>
world == <<majority, oldest, chains, contract>>

NoBatch == <<None, None, None>>
EmptyRoot == <<None, None>>
Flow(pc) == [pc |-> pc, epoch |-> None, batch |-> NoBatch, connected |-> FALSE,
             target |-> None, root |-> EmptyRoot, range |-> NoRange, first |-> 0]
NoFlow == Flow("idle")

AuditInit ==
    /\ log = [gen |-> 0, len |-> 0] /\ epochs = Fresh /\ nextOplog = 0 /\ hashed = <<>>
    /\ majority = 0 /\ oldest = 0 /\ chains = [bundled |-> <<>>, own |-> <<>>]
    /\ contract \in [name : {"bundled", "own"}, oplog : BOOLEAN]
    /\ cids = {} /\ flow = NoFlow /\ runs = <<>> /\ begun = 0 /\ crossed = FALSE

Configured == chains[contract.name]
Latest(chain) == IF chain = <<>> THEN EmptyRoot ELSE chain[Len(chain)].root
LiveRoot == IF log.len = 0 THEN EmptyRoot ELSE <<log.gen, log.len - 1>>
Sealed == {n \in 0..(Len(epochs) - 1) : ~IsOpen(epochs[n + 1])}

\* The contract takes a root once (RootAlreadyCommitted).
Accepts(root) == root \notin {Configured[i].root : i \in DOMAIN Configured}
Anchor(root, batch, range, first) ==
    chains' = [chains EXCEPT ![contract.name] =
                 Append(@, [root |-> root, batch |-> batch, oplog |-> range, first |-> first])]

-----------------------------------------------------------------------------
\* audit_record_event() and capture: the log first, then the epoch, whose
\* failure is only logged.
RecordAuditEvent ==
    /\ log.len < MaxEvents
    /\ log' = [log EXCEPT !.len = @ + 1]
    /\ epochs' = RecordEvent(epochs, log.len, log.len + 1)
    /\ UNCHANGED <<nextOplog, hashed, world, cids, flow, runs, begun, crossed>>

AuditCloseEpoch ==
    /\ epochs' = CloseCurrent(epochs, log.len) /\ epochs' # epochs
    /\ UNCHANGED <<log, nextOplog, hashed, world, cids, flow, runs, begun, crossed>>

\* audit_reset_data(): the log, the epochs, the verification history, the open
\* epoch's count.  The epochs are reset in memory even if their file cannot be
\* written, and the command stops there.
AuditResetData(saved) ==
    /\ log.gen < MaxResets
    /\ log' = [gen |-> log.gen + 1, len |-> 0]
    /\ epochs' = SyncOpen(Fresh, 0) /\ nextOplog' = 0 /\ hashed' = <<>>
    /\ runs' = IF saved THEN <<>> ELSE runs
    /\ crossed' = (crossed \/ flow.pc # "idle")
    /\ UNCHANGED <<world, cids, flow, begun>>

\* MongoDB: a write reaches the majority, the oldest entry is dropped.
MajorityAdvances ==
    /\ majority < MaxTs /\ majority' = majority + 1
    /\ UNCHANGED <<log, epochs, nextOplog, hashed, oldest, chains, contract, cids, flow, runs, begun, crossed>>

OplogRollsOver ==
    /\ oldest < majority /\ oldest' = oldest + 1
    /\ UNCHANGED <<log, epochs, nextOplog, hashed, majority, chains, contract, cids, flow, runs, begun, crossed>>

-----------------------------------------------------------------------------
BeginCommit == flow.pc = "idle" /\ begun < MaxCommits /\ begun' = begun + 1

\* extract_epoch_batch(): the lines of the log within the epoch's range.
ExtractEpochBatch(epoch) == <<log.gen, epoch.start, epoch.end>>

\* audit_publish_epoch_to_ipfs(), audit_publish_epoch_to_pinata(): a closed epoch
\* with events; the CID is kept.  The user interface goes on to the commit with
\* the CID as metadata.
PublishEpoch(n, connected) ==
    /\ BeginCommit /\ n \in Sealed /\ epochs[n + 1].start < log.len
    /\ cids' = cids \cup {n}
    /\ flow' = [Flow("preflight") EXCEPT !.epoch = n, !.connected = connected,
                                         !.batch = ExtractEpochBatch(epochs[n + 1])]
    /\ UNCHANGED <<log, epochs, nextOplog, hashed, world, runs, crossed>>

\* audit_commit_root_native(), audit_commit_root_production() on their own.
CommitUnpublished(connected) ==
    /\ BeginCommit
    /\ flow' = [Flow("preflight") EXCEPT !.connected = connected]
    /\ UNCHANGED <<log, epochs, nextOplog, hashed, world, cids, runs, crossed>>

\* audit_commit_root(): the live root, unless it is the latest one already.
AuditCommitRoot ==
    /\ BeginCommit /\ LiveRoot # Latest(Configured) /\ Accepts(LiveRoot)
    /\ Anchor(LiveRoot, NoBatch, NoRange, 0)
    /\ UNCHANGED <<log, epochs, nextOplog, hashed, majority, oldest, contract, cids, flow, runs, crossed>>

\* commit_latest_epoch_root() up to the selection: only a confirmed other admin
\* stops it.
Preflight(admin) ==
    /\ flow.pc = "preflight" /\ admin \in {"same", "other", "unread"}
    /\ flow' = IF admin = "other" THEN NoFlow ELSE [flow EXCEPT !.pc = "select"]
    /\ UNCHANGED <<log, epochs, nextOplog, hashed, world, cids, runs, begun, crossed>>

\* Mutant: an attached range is not taken over.
AttachedRange_Forgotten(epoch) == NoRange

\* The range a commit finds attached to its epoch.
AttachedRange(epoch) == epoch.oplog

\* The newest sealed epoch that is not committed, or else the live root; refused
\* when it is the latest root of the bundled contract.
SelectTarget ==
    LET open   == {n \in Sealed : ~epochs[n + 1].committed}
        target == IF open = {} THEN None ELSE Max(open)
        root   == IF target = None THEN LiveRoot ELSE <<log.gen, epochs[target + 1].root>>
        range  == IF target = None THEN NoRange ELSE AttachedRange(epochs[target + 1])
        first  == IF range = NoRange THEN 0 ELSE hashed[target]
    IN  /\ flow.pc = "select"
        /\ flow' = IF chains.bundled # <<>> /\ Latest(chains.bundled) = root THEN NoFlow
                   ELSE [flow EXCEPT !.target = target, !.root = root, !.range = range, !.first = first,
                             !.pc = IF target # None /\ flow.connected /\ range = NoRange THEN "range" ELSE "submit"]
        /\ UNCHANGED <<log, epochs, nextOplog, hashed, world, cids, runs, begun, crossed>>

ReadRangeStart ==
    /\ flow.pc = "range"
    /\ flow' = [flow EXCEPT !.pc = "attach", !.range.from = nextOplog]
    /\ UNCHANGED <<log, epochs, nextOplog, hashed, world, cids, runs, begun, crossed>>

\* compute_oplog_range_hash() up to the majority point, over the entries that are
\* left: nothing looks whether the start of the range has rolled over.  Then
\* attach_oplog_hash(), which refuses an unknown or open epoch.
AttachRange(reachable) ==
    LET attached == reachable /\ flow.target \in Sealed
        first    == IF oldest > flow.range.from THEN oldest ELSE flow.range.from
    IN  /\ flow.pc = "attach"
        /\ epochs' = IF attached THEN AttachOplogHash(epochs, flow.target, flow.range.from, majority) ELSE epochs
        /\ nextOplog' = IF attached THEN majority ELSE nextOplog
        /\ hashed' = IF attached THEN [n \in DOMAIN hashed \cup {flow.target} |->
                                         IF n = flow.target THEN first ELSE hashed[n]]
                     ELSE hashed
        /\ flow' = IF attached THEN [flow EXCEPT !.pc = "submit", !.range.to = majority, !.first = first]
                   ELSE NoFlow
        /\ UNCHANGED <<log, world, cids, runs, begun, crossed>>

\* commit_root_with_oplog, and commit_root where the contract is too old for it
\* or there is no range.
Submit(outcome) ==
    LET range == IF flow.connected /\ contract.oplog THEN flow.range ELSE NoRange
    IN  /\ flow.pc = "submit"
        /\ IF outcome # "failed" /\ Accepts(flow.root) THEN Anchor(flow.root, flow.batch, range, flow.first) ELSE UNCHANGED chains
        /\ flow' = IF outcome = "ok" /\ Accepts(flow.root) /\ flow.epoch # None
                     THEN [flow EXCEPT !.pc = "mark"] ELSE NoFlow
        /\ UNCHANGED <<log, epochs, nextOplog, hashed, majority, oldest, contract, cids, runs, begun, crossed>>

\* audit_mark_epoch_committed(), which the user interface calls for the epoch it
\* published.
AuditMarkEpochCommitted ==
    /\ flow.pc = "mark" /\ flow' = NoFlow
    /\ epochs' = IF flow.epoch < Len(epochs) THEN MarkCommitted(epochs, flow.epoch, "hash") ELSE epochs
    /\ UNCHANGED <<log, nextOplog, hashed, world, cids, runs, begun, crossed>>

-----------------------------------------------------------------------------
\* verify_with_onchain_root(): the latest root is looked for among the roots of
\* the local events.
ReaderVerdict ==
    IF Configured = <<>> THEN "uncommitted"
    ELSE IF \E i \in 0..(log.len - 1) : Latest(Configured) = <<log.gen, i>> THEN "intact"
    ELSE IF log.len = 0 THEN "empty" ELSE "tamper"

\* VerificationStore::record(): the oldest run goes when there are too many.
RecordRun(verdict) ==
    LET all == Append(runs, verdict) IN IF Len(all) > MaxRecords THEN Tail(all) ELSE all

AuditVerifyReaderMode ==
    /\ runs' = RecordRun(ReaderVerdict)
    /\ UNCHANGED <<log, epochs, nextOplog, hashed, world, cids, flow, begun, crossed>>

\* fetch_cid() for each commitment with a CID: the batch, nothing, or other bytes
\* that still read as events.
FetchOutcome == {"ok", "failed", "forged"}
BatchLines(entry, outcome) ==
    {[gen |-> entry.batch[1], index |-> i, genuine |-> outcome = "ok"] : i \in entry.batch[2]..entry.batch[3]}

\* Sorted by index and replayed: every index from 0 once.
Replays(history, fetched, lines) ==
    /\ {l.index : l \in lines} = 0..(Cardinality(lines) - 1)
    /\ \A i, j \in fetched : i # j => history[i].batch # history[j].batch

\* The rebuilt root is the root of exactly these events.
RootMatches(lines, root) ==
    /\ Cardinality(lines) = root[2] + 1
    /\ \A l \in lines : l.genuine /\ l.gen = root[1]

\* audit_rebuild_from_chain(), which writes nothing but its own directory.  The
\* history is newest first, and its last entry, which is compared, is the first
\* commitment.
AuditRebuildFromChain(fetch) ==
    LET history == Configured
        fetched == {i \in DOMAIN history : history[i].batch # NoBatch /\ fetch[i] # "failed"}
        lines   == UNION {BatchLines(history[i], fetch[i]) : i \in fetched}
        found   == history # <<>> /\ lines # {}
    IN  [lines |-> lines, found |-> found,
         verdict |-> IF ~found THEN "intact"
                     ELSE IF ~Replays(history, fetched, lines) THEN "error"
                     ELSE IF RootMatches(lines, history[1].root) THEN "intact" ELSE "tamper"]

\* Mutant: the member's majority point takes the place of the range's end.
RangeVerdict_ToMajority(entry, seen) ==
    LET held == {x \in entry.oplog.from..(seen - 1) : oldest <= x}
        told == entry.first..(entry.oplog.to - 1)
    IN  IF held = {} /\ told # {} THEN "stale" ELSE IF held = told THEN "complete" ELSE "mismatch"

\* The comparison of audit_verify_oplog_integrity(): what the member still has of the
\* range, up to the majority point it has seen, against what the commitment hashed.
RangeVerdict(entry, seen) ==
    LET held == {x \in entry.oplog.from..(entry.oplog.to - 1) : oldest <= x /\ x < seen}
        told == entry.first..(entry.oplog.to - 1)
    IN  IF held = {} /\ told # {} THEN "stale" ELSE IF held = told THEN "complete" ELSE "mismatch"

\* audit_verify_oplog_integrity(): the sequence comes from the bundled contract,
\* the commitment from the configured one.
AuditVerifyOplogIntegrity(reachable, seen) ==
    LET sequence == Len(chains.bundled)
        range == IF sequence \in DOMAIN Configured THEN Configured[sequence].oplog ELSE NoRange
    IN  [range |-> range,
         verdict |-> IF sequence = 0 THEN "no_commitment"
                     ELSE IF ~contract.oplog THEN "contract_outdated"
                     ELSE IF range = NoRange THEN "no_oplog_commitment"
                     ELSE IF ~reachable THEN "stale" ELSE RangeVerdict(Configured[sequence], seen)]

CommitNext ==
    \/ \E n \in Sealed, connected \in BOOLEAN : PublishEpoch(n, connected)
    \/ \E connected \in BOOLEAN : CommitUnpublished(connected)
    \/ AuditCommitRoot
    \/ \E admin \in {"same", "other", "unread"} : Preflight(admin)
    \/ SelectTarget \/ ReadRangeStart
    \/ \E reachable \in BOOLEAN : AttachRange(reachable)
    \/ \E outcome \in {"ok", "failed", "lost"} : Submit(outcome)
    \/ AuditMarkEpochCommitted

AuditNext ==
    \/ RecordAuditEvent \/ AuditCloseEpoch \/ MajorityAdvances \/ OplogRollsOver
    \/ \E saved \in BOOLEAN : AuditResetData(saved)
    \/ CommitNext \/ AuditVerifyReaderMode

AuditSpec == AuditInit /\ [][AuditNext]_auditVars

-----------------------------------------------------------------------------
EventsUpTo(root) == {[gen |-> root[1], index |-> k, genuine |-> TRUE] : k \in 0..root[2]}

\* The ranges the epochs carry cover the oplog from its beginning without a gap
\* and without an overlap, through commits that fail after the attachment and are
\* made again, unless a reset came into the middle of a commit.
OplogRangesTile ==
    LET ranged == {n \in Sealed : epochs[n + 1].oplog # NoRange}
        span(n) == epochs[n + 1].oplog.from..(epochs[n + 1].oplog.to - 1)
    IN  ~crossed => /\ UNION {span(n) : n \in ranged} = 0..(nextOplog - 1)
                    /\ \A m, n \in ranged : m # n => span(m) \cap span(n) = {}

\* A member that has all of a committed range finds the commitment complete, however
\* long ago the range was hashed and on whatever way it came to the chain: no omission
\* is announced where nothing is gone.
WholeRangeIsComplete ==
    \A seen \in 0..majority :
        LET report == AuditVerifyOplogIntegrity(TRUE, seen)
        IN  (report.verdict \in {"complete", "mismatch", "stale"}
               /\ oldest <= report.range.from /\ report.range.to <= seen)
            => report.verdict = "complete"

\* No entry of the oplog escapes the epochs, and the check does not cry omission over
\* a range that is all there.
OplogAccounted == OplogRangesTile /\ WholeRangeIsComplete

\* What commands.rs:2341 says of the verdicts: "stale" is the one for an oplog that
\* has rolled over.  A range of which a part is gone is a mismatch, and one that had
\* begun to roll over before it was hashed is complete.
RolledOverIsStale ==
    \A seen \in 0..majority :
        LET report == AuditVerifyOplogIntegrity(TRUE, seen)
        IN  (report.verdict \in {"complete", "mismatch", "stale"}
               /\ report.range.from < report.range.to /\ oldest > report.range.from)
            => report.verdict = "stale"

\* What commands.rs:1150 says of a rebuild: it verifies that the rebuilt root
\* matches the latest commitment.  Claimed when every commitment has its batch
\* and all were fetched as they are.
RebuildMatchesLatest ==
    LET report == AuditRebuildFromChain([i \in DOMAIN Configured |-> "ok"])
    IN  (report.found /\ report.lines = EventsUpTo(Latest(Configured))) => report.verdict = "intact"
=============================================================================
