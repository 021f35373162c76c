----------------------------- MODULE AuditDaemon ------------------------------
(***************************************************************************)
(* The publisher daemon (audit-service/src/auditd/mod.rs, publisher.rs):   *)
(* the auto-commit loop that feeds recorded events to the epoch manager    *)
(* and anchors each closed epoch, the HTTP requests that close, publish    *)
(* and commit epochs by hand, the epochs.json file and the contract.       *)
(*                                                                         *)
(* The loop and each request are processes on tokio's threads.  A step is  *)
(* what one process does between two points where it gives up its locks or *)
(* awaits; save() takes a consistent snapshot under the locks and writes   *)
(* it without them.  The audit log is the one of module AuditLog, seen     *)
(* through the number of its events: they survive a restart.               *)
(***************************************************************************)
EXTENDS EpochManager, FiniteSets

CONSTANTS
  Request,       \* HTTP requests in flight at a time
  MaxLeaves,     \* bound on recorded events
  MaxTs,         \* bound on the majority-committed oplog timestamp
  MaxCrashes,    \* bound on crashes
  MaxRequests,   \* bound on HTTP requests
  HistoryLimit,  \* how many on-chain roots commit_epoch looks through
  SaveFaults,    \* whether writing epochs.json may fail
  IpfsFaults     \* whether publishing a batch may fail

ASSUME DaemonAssumption ==
  /\ MaxLeaves \in Nat /\ MaxTs \in Nat /\ MaxCrashes \in Nat /\ MaxRequests \in Nat
  /\ HistoryLimit \in Nat \ {0} /\ SaveFaults \in BOOLEAN /\ IpfsFaults \in BOOLEAN
  /\ "auto" \notin Request

VARIABLES
  mode,        \* "up" or "down"
  leaves,      \* events in the audit log
  majority,    \* MongoDB's majority-committed oplog timestamp
  epochs,      \* EpochManager.epochs
  nextOplog,   \* next_oplog_start_ts; 0 is None
  file,        \* epochs.json
  cids,        \* epochs with an IPFS CID in the sled store
  chain,       \* roots the contract holds, with their metadata
  loop,        \* the range the for loop is in; last_event_count is its end
  proc,        \* what each process is doing
  requests, crashes,
  \* history: events arrived between the two reads of the log's length at a
  \* start; a request anchored an epoch before the file had it as closed, or
  \* a save failed, was cut off or was replaced by an older one
  overlap, lost

manager == <<epochs, nextOplog>>
world == <<leaves, majority, chain>>
history == <<overlap, lost>>
vars == <<mode, world, manager, file, cids, loop, proc, requests, crashes, history>>

Process == Request \cup {"auto"}

(* epoch: the epoch worked on; view: the copy of it that was read; cid:    *)
(* whether a CID for it was on file; stage: which call is saving; save:    *)
(* the snapshot it writes; old: a newer one was written since.             *)
Local(pc) ==
  [pc |-> pc, epoch |-> 0, view |-> NewEpoch(0), cid |-> FALSE,
   from |-> 0, to |-> 0, tx |-> "none",
   stage |-> "none", save |-> [epochs |-> Fresh, next |-> 0], old |-> FALSE]

Goto(p, pc) == proc' = [proc EXCEPT ![p] = Local(pc)]

(* Continue the work on the epoch.  A process that is done with it, and    *)
(* back in its own loop or idle, forgets it.                               *)
Continue(p, pc) ==
  IF pc \in {"feed", "idle"} THEN Local(pc) ELSE [Local(pc) EXCEPT !.epoch = proc[p].epoch]

(* Where a process goes when its work on an epoch is over. *)
Done(p) == IF p = "auto" THEN "feed" ELSE "idle"

(* Where it goes when the oplog hash is attached or could not be.  The     *)
(* loop goes on to publish and commit; POST /epoch/close answers.          *)
AfterAttach(p) == IF p = "auto" THEN "publish" ELSE "idle"

NoFile == [epochs |-> Fresh, next |-> 0]

Init ==
  /\ mode = "up"
  /\ leaves = 0 /\ majority = 0
  /\ epochs = Fresh /\ nextOplog = 0
  /\ file = NoFile
  /\ cids = {}
  /\ chain = <<>>
  /\ loop = [at |-> 0, upto |-> 0]
  /\ proc = [p \in Process |-> Local(IF p = "auto" THEN "boot" ELSE "idle")]
  /\ requests = 0 /\ crashes = 0
  /\ overlap = FALSE /\ lost = FALSE

-----------------------------------------------------------------------------
(* The world around the daemon *)

(* The change-stream listener records an event. *)
Record ==
  /\ mode = "up"
  /\ leaves < MaxLeaves
  /\ leaves' = leaves + 1
  /\ UNCHANGED <<mode, majority, manager, file, cids, chain, loop, proc, requests, crashes,
                 history>>

AdvanceMajority ==
  /\ majority < MaxTs
  /\ majority' = majority + 1
  /\ UNCHANGED <<mode, leaves, manager, file, cids, chain, loop, proc, requests, crashes,
                 history>>

-----------------------------------------------------------------------------
(* save() *)

Snapshot(p) ==
  /\ proc[p].pc = "snapshot"
  /\ proc' = [proc EXCEPT ![p] =
       [@ EXCEPT !.pc = "write", !.save = [epochs |-> epochs, next |-> nextOplog],
                 !.old = FALSE]]
  /\ UNCHANGED <<mode, world, manager, file, cids, loop, requests, crashes, history>>

(* Every other snapshot still waiting to be written is now out of date. *)
Write(p) ==
  LET next == CASE proc[p].stage = "sync" -> "feed"
                [] proc[p].stage = "close" -> "read_start"
                [] proc[p].stage = "attach" -> AfterAttach(p)
                [] OTHER -> Done(p)
  IN  /\ proc[p].pc = "write"
      /\ file' = proc[p].save
      /\ lost' = (lost \/ proc[p].old)
      /\ proc' = [q \in Process |->
           IF q = p THEN Continue(p, next)
           ELSE IF proc[q].pc = "write" THEN [proc[q] EXCEPT !.old = TRUE]
           ELSE proc[q]]
      /\ UNCHANGED <<mode, world, manager, cids, loop, requests, crashes, overlap>>

(* The write returns an error; std::fs::write may have truncated the file. *)
(* What the process meant to do after a close is skipped.                  *)
WriteFails(p) ==
  LET next == CASE proc[p].stage = "attach" -> AfterAttach(p)
                [] OTHER -> Done(p)
  IN  /\ SaveFaults
      /\ proc[p].pc = "write"
      /\ file' \in {file, NoFile}
      /\ lost' = TRUE
      /\ proc' = [proc EXCEPT ![p] = Continue(p, next)]
      /\ UNCHANGED <<mode, world, manager, cids, loop, requests, crashes, overlap>>

(* Mutant: the epoch is handed out without being saved. *)
SaveClosed_NoSave(p) ==
  proc' = [proc EXCEPT ![p] = [Local("read_start") EXCEPT !.epoch = Len(epochs) - 1]]

(* The call has closed the epoch that was last, and saves. *)
SaveClosed(p) ==
  proc' = [proc EXCEPT ![p] = [Local("snapshot") EXCEPT !.stage = "close",
                                                        !.epoch = Len(epochs) - 1]]

-----------------------------------------------------------------------------
(* auto_commit_loop() *)

Boot ==
  /\ proc["auto"].pc = "boot"
  /\ loop' = [at |-> leaves, upto |-> leaves]
  /\ Goto("auto", "sync")
  /\ UNCHANGED <<mode, world, manager, file, cids, requests, crashes, history>>

Sync ==
  /\ proc["auto"].pc = "sync"
  /\ epochs' = SyncOpen(epochs, leaves)
  /\ overlap' = (overlap \/ leaves # loop.upto)
  /\ IF Len(epochs') > Len(epochs)
       THEN SaveClosed("auto")
       ELSE proc' = [proc EXCEPT !["auto"] = [Local("snapshot") EXCEPT !.stage = "sync"]]
  /\ UNCHANGED <<mode, world, nextOplog, file, cids, loop, requests, crashes, lost>>

(* Mutant: events that arrive while the loop feeds others are skipped. *)
Tick_Skips ==
  /\ proc["auto"].pc = "feed"
  /\ loop.at = loop.upto
  /\ leaves > loop.upto
  /\ loop' = [at |-> leaves - 1, upto |-> leaves]
  /\ UNCHANGED <<mode, world, manager, file, cids, proc, requests, crashes, history>>

(* The sleep is over and the log has grown past last_event_count. *)
Tick ==
  /\ proc["auto"].pc = "feed"
  /\ loop.at = loop.upto
  /\ leaves > loop.upto
  /\ loop' = [at |-> loop.upto, upto |-> leaves]
  /\ UNCHANGED <<mode, world, manager, file, cids, proc, requests, crashes, history>>

Feed ==
  /\ proc["auto"].pc = "feed"
  /\ loop.at < loop.upto
  /\ epochs' = RecordEvent(epochs, loop.at, leaves)
  /\ loop' = [loop EXCEPT !.at = @ + 1]
  /\ IF Len(epochs') > Len(epochs) THEN SaveClosed("auto") ELSE UNCHANGED proc
  /\ UNCHANGED <<mode, world, nextOplog, file, cids, requests, crashes, history>>

-----------------------------------------------------------------------------
(* compute_and_attach_oplog_hash(), for the loop and for POST /epoch/close *)

ReadStart(p) ==
  /\ proc[p].pc = "read_start"
  /\ proc' = [proc EXCEPT ![p] = [@ EXCEPT !.pc = "read_majority", !.from = nextOplog]]
  /\ UNCHANGED <<mode, world, manager, file, cids, loop, requests, crashes, history>>

ReadMajority(p) ==
  /\ proc[p].pc = "read_majority"
  /\ proc' = [proc EXCEPT ![p] = [@ EXCEPT !.pc = "attach", !.to = majority]]
  /\ UNCHANGED <<mode, world, manager, file, cids, loop, requests, crashes, history>>

Attach(p) ==
  /\ proc[p].pc = "attach"
  /\ epochs' = AttachOplogHash(epochs, proc[p].epoch, proc[p].from, proc[p].to)
  /\ nextOplog' = proc[p].to
  /\ proc' = [proc EXCEPT ![p] = [Local("snapshot") EXCEPT !.stage = "attach",
                                                           !.epoch = proc[p].epoch]]
  /\ UNCHANGED <<mode, world, file, cids, loop, requests, crashes, history>>

(* Mutant: the range counts as hashed although reading it failed. *)
AttachFails_Advances(p) ==
  /\ proc[p].pc = "attach"
  /\ nextOplog' = proc[p].to
  /\ proc' = [proc EXCEPT ![p] = Continue(p, AfterAttach(p))]
  /\ UNCHANGED <<mode, world, epochs, file, cids, loop, requests, crashes, history>>

(* MongoDB did not answer, or the range could not be read. *)
AttachFails(p) ==
  /\ proc[p].pc \in {"read_majority", "attach"}
  /\ proc' = [proc EXCEPT ![p] = Continue(p, AfterAttach(p))]
  /\ UNCHANGED <<mode, world, manager, file, cids, loop, requests, crashes, history>>

-----------------------------------------------------------------------------
(* publish_and_commit() and commit_epoch() *)

(* extract_epoch_batch(): the log's lines from start to end; none if an    *)
(* epoch ends before it starts.                                            *)
HasEvents(e) == e.start <= e.end

(* Reload the epoch, publish its batch and keep the CID; if that fails the *)
(* commit goes on without one.                                             *)
PublishBatch ==
  LET n == proc["auto"].epoch
  IN  /\ proc["auto"].pc = "publish"
      /\ \/ HasEvents(epochs[n + 1]) /\ cids' = cids \cup {n}
         \/ (IpfsFaults \/ ~HasEvents(epochs[n + 1])) /\ UNCHANGED cids
      /\ proc' = [proc EXCEPT !["auto"] =
           [@ EXCEPT !.pc = "submit", !.view = epochs[n + 1], !.cid = (n \in cids')]]
      /\ UNCHANGED <<mode, world, manager, file, loop, requests, crashes, history>>

OnChain(root) == \E i \in 1..Len(chain) : chain[i].root = root

(* The contract accepts a root it does not hold yet (commit_root,          *)
(* commit_root_with_oplog).                                                *)
Accept(p) ==
  /\ ~OnChain(proc[p].view.root)
  /\ chain' = Append(chain, [root |-> proc[p].view.root, epoch |-> proc[p].epoch,
                             oplog |-> proc[p].view.oplog, cid |-> proc[p].cid])
  /\ lost' = (lost \/ (p \in Request /\ Len(file.epochs) <= proc[p].epoch + 1))

Submit(p) ==
  /\ proc[p].pc = "submit"
  /\ Accept(p)
  /\ proc' = [proc EXCEPT ![p] = [Continue(p, "mark") EXCEPT !.tx = "hash"]]
  /\ UNCHANGED <<mode, leaves, majority, manager, file, cids, loop, requests, crashes,
                 overlap>>

(* The transaction goes through and its answer is lost. *)
SubmitUnanswered(p) ==
  /\ proc[p].pc = "submit"
  /\ Accept(p)
  /\ Goto(p, Done(p))
  /\ UNCHANGED <<mode, leaves, majority, manager, file, cids, loop, requests, crashes,
                 overlap>>

(* Mutant: every error is taken for RootAlreadyCommitted. *)
SubmitFails_Marks(p) ==
  /\ proc[p].pc = "submit"
  /\ proc' = [proc EXCEPT ![p] = [Continue(p, "mark") EXCEPT !.tx = "empty"]]
  /\ UNCHANGED <<mode, world, manager, file, cids, loop, requests, crashes, history>>

(* The RPC fails, or the contract answers RootAlreadyCommitted: the loop   *)
(* gives the epoch up.                                                     *)
SubmitFails(p) ==
  /\ proc[p].pc = "submit"
  /\ Goto(p, Done(p))
  /\ UNCHANGED <<mode, world, manager, file, cids, loop, requests, crashes, history>>

(* A request that is told RootAlreadyCommitted goes on to look the root up. *)
SubmitDuplicate(p) ==
  /\ p \in Request
  /\ proc[p].pc = "submit"
  /\ OnChain(proc[p].view.root)
  /\ proc' = [proc EXCEPT ![p] = [@ EXCEPT !.pc = "lookup"]]
  /\ UNCHANGED <<mode, world, manager, file, cids, loop, requests, crashes, history>>

(* get_root_history(20) and the search for the root in it. *)
Lookup(p) ==
  LET recent == {i \in 1..Len(chain) : i > Len(chain) - HistoryLimit}
  IN  /\ proc[p].pc = "lookup"
      /\ \/ /\ \E i \in recent : chain[i].root = proc[p].view.root
            /\ proc' = [proc EXCEPT ![p] = [Continue(p, "mark") EXCEPT !.tx = "empty"]]
         \/ Goto(p, "idle")
      /\ UNCHANGED <<mode, world, manager, file, cids, loop, requests, crashes, history>>

Mark(p) ==
  /\ proc[p].pc = "mark"
  /\ epochs' = MarkCommitted(epochs, proc[p].epoch, proc[p].tx)
  /\ proc' = [proc EXCEPT ![p] = [Local("snapshot") EXCEPT !.stage = "mark",
                                                           !.epoch = proc[p].epoch]]
  /\ UNCHANGED <<mode, world, nextOplog, file, cids, loop, requests, crashes, history>>

-----------------------------------------------------------------------------
(* HTTP requests *)

NewRequest(q) ==
  /\ mode = "up"
  /\ proc[q].pc = "idle"
  /\ requests < MaxRequests
  /\ requests' = requests + 1

(* POST /epoch/close *)
CloseEpoch(q) ==
  /\ NewRequest(q)
  /\ epochs' = CloseCurrent(epochs, leaves)
  /\ Len(epochs') > Len(epochs)
  /\ SaveClosed(q)
  /\ UNCHANGED <<mode, world, nextOplog, file, cids, loop, crashes, history>>

(* POST /epoch/:n/commit, unless the epoch is open or its result cached. *)
CommitEpoch(q, n) ==
  /\ NewRequest(q)
  /\ n + 1 \in DOMAIN epochs
  /\ ~IsOpen(epochs[n + 1])
  /\ ~(epochs[n + 1].committed /\ epochs[n + 1].tx # "none")
  /\ proc' = [proc EXCEPT ![q] =
       [Local("submit") EXCEPT !.epoch = n, !.view = epochs[n + 1], !.cid = (n \in cids)]]
  /\ UNCHANGED <<mode, world, manager, file, cids, loop, crashes, history>>

(* POST /epoch/:n/publish-ipfs *)
PublishIpfs(q, n) ==
  /\ NewRequest(q)
  /\ n + 1 \in DOMAIN epochs
  /\ ~IsOpen(epochs[n + 1]) /\ HasEvents(epochs[n + 1])
  /\ cids' = cids \cup {n}
  /\ UNCHANGED <<mode, world, manager, file, loop, proc, crashes, history>>

-----------------------------------------------------------------------------
(* Crash and restart *)

(* A crash while epochs.json is written leaves a file that does not load. *)
Crash ==
  /\ mode = "up"
  /\ crashes < MaxCrashes
  /\ crashes' = crashes + 1
  /\ mode' = "down"
  /\ \/ UNCHANGED <<file, lost>>
     \/ (\E p \in Process : proc[p].pc = "write") /\ file' = NoFile /\ lost' = TRUE
  /\ epochs' = Fresh /\ nextOplog' = 0
  /\ loop' = [at |-> 0, upto |-> 0]
  /\ proc' = [p \in Process |-> Local("idle")]
  /\ UNCHANGED <<world, cids, requests, overlap>>

(* EpochManager::new_with_persistence(), then the server and the loop. *)
Restart ==
  /\ mode = "down"
  /\ mode' = "up"
  /\ epochs' = file.epochs
  /\ nextOplog' = file.next
  /\ Goto("auto", "boot")
  /\ UNCHANGED <<world, file, cids, loop, requests, crashes, history>>

-----------------------------------------------------------------------------
SaveSteps(p) == Snapshot(p) \/ Write(p) \/ WriteFails(p)
AttachSteps(p) == ReadStart(p) \/ ReadMajority(p) \/ Attach(p) \/ AttachFails(p)
CommitSteps(p) ==
  Submit(p) \/ SubmitUnanswered(p) \/ SubmitFails(p) \/ SubmitDuplicate(p) \/ Mark(p)

ProcessStep(p) == SaveSteps(p) \/ AttachSteps(p) \/ CommitSteps(p)
AutoStep == Boot \/ Sync \/ Tick \/ Feed \/ PublishBatch \/ ProcessStep("auto")

Next ==
  \/ Record
  \/ AdvanceMajority
  \/ AutoStep
  \/ \E q \in Request : ProcessStep(q) \/ Lookup(q)
  \/ \E q \in Request : CloseEpoch(q)
  \/ \E q \in Request, n \in 0..MaxLeaves : CommitEpoch(q, n) \/ PublishIpfs(q, n)
  \/ Crash
  \/ Restart

(* The loop's task is polled, and a stopped daemon is started again        *)
(* (docker-compose: restart unless-stopped).  Clients and MongoDB are not  *)
(* assumed to do anything.                                                 *)
Fairness == WF_vars(AutoStep) /\ WF_vars(Restart)

Spec == Init /\ [][Next]_vars
FairSpec == Spec /\ Fairness

-----------------------------------------------------------------------------
(* Properties *)

Anchor ==
  [root : Nat \cup {None}, epoch : Nat, cid : BOOLEAN,
   oplog : [from : Nat \cup {None}, to : Nat \cup {None}]]

SavedState == [epochs : Seq(Epoch) \ {<<>>}, next : Nat]

LocalState ==
  [pc : {"idle", "boot", "sync", "feed", "snapshot", "write", "read_start",
         "read_majority", "attach", "publish", "submit", "lookup", "mark"},
   epoch : Nat, view : Epoch, cid : BOOLEAN, from : Nat, to : Nat,
   tx : {"none", "empty", "hash"}, stage : {"none", "sync", "close", "attach", "mark"},
   save : SavedState, old : BOOLEAN]

(* Every variable has its type, and there is always a last epoch. *)
TypeOK ==
  /\ mode \in {"up", "down"}
  /\ leaves \in Nat /\ majority \in Nat /\ nextOplog \in Nat
  /\ epochs \in Seq(Epoch) /\ epochs # <<>>
  /\ file \in SavedState
  /\ cids \subseteq Nat
  /\ chain \in Seq(Anchor)
  /\ loop \in [at : Nat, upto : Nat]
  /\ proc \in [Process -> LocalState]
  /\ requests \in Nat /\ crashes \in Nat
  /\ overlap \in BOOLEAN /\ lost \in BOOLEAN

(* Closed epochs cut the log into consecutive, non-empty ranges, each with *)
(* the root of its own last event and its own number of events, and only   *)
(* the last epoch is open.                                                 *)
Partition(list) ==
  /\ list[1].start = 0
  /\ IsOpen(list[Len(list)])
  /\ list[Len(list)].start + list[Len(list)].count <= leaves
  /\ \A i \in 1..(Len(list) - 1) :
       /\ ~IsOpen(list[i])
       /\ list[i].start <= list[i].end /\ list[i].end < leaves
       /\ list[i].root = RootAfter(list[i].end)
       /\ list[i].count = list[i].end - list[i].start + 1
       /\ list[i + 1].start = list[i].end + 1

(* That holds of the manager and of the file it reloads, whatever the loop *)
(* and the requests do at once, unless events were counted twice.          *)
EpochsPartition == ~overlap => Partition(epochs) /\ Partition(file.epochs)

(* No closed epoch counts an event twice (the tests of the change-stream   *)
(* listener insist on it for the daemon's loop).                           *)
CountsMatchRanges ==
  \A i \in 1..(Len(epochs) - 1) :
    epochs[i].count = epochs[i].end - epochs[i].start + 1

(* An epoch is marked committed only if the contract holds its root, also  *)
(* when its own submission was refused as a duplicate, and also in what a  *)
(* restart reads back.                                                     *)
CommittedOnChain ==
  \A e \in {epochs[i] : i \in 1..Len(epochs)} \cup
           {file.epochs[i] : i \in 1..Len(file.epochs)} :
    e.committed => OnChain(e.root)

(* An epoch's root is frozen when it closes: what the contract holds for   *)
(* epoch n is the root the running daemon has for epoch n.                 *)
AnchorsMatchEpochs ==
  mode = "up" =>
    \A i \in 1..Len(chain) :
      /\ chain[i].epoch + 1 < Len(epochs)
      /\ epochs[chain[i].epoch + 1].root = chain[i].root

(* The same unless a request anchored an epoch that was not saved yet, a   *)
(* save was replaced by an older one, or one failed or was cut off: since  *)
(* the loop saves an epoch before it anchors it, nothing else can make the *)
(* chain and a restarted daemon disagree.                                  *)
AnchorsMatchSavedEpochs == ~lost => AnchorsMatchEpochs

(* Completeness of the oplog hashes: every oplog position before the start *)
(* of the next range lies in the range of some epoch, however the attaching *)
(* processes interleave and wherever a crash falls.                        *)
Covered(list, next) ==
  \A t \in 0..(next - 1) :
    \E i \in 1..Len(list) : list[i].oplog.from <= t /\ t < list[i].oplog.to

OplogCovered == Covered(epochs, nextOplog) /\ Covered(file.epochs, file.next)

(* The open epoch has as many events as the threshold. *)
Full ==
  mode = "up" /\ Threshold > 0 /\ leaves - epochs[Len(epochs)].start >= Threshold

(* A full epoch does not stay open: events that arrive while the loop      *)
(* publishes or waits for the chain are fed to it in the end.              *)
FullEpochCloses == Full ~> ~Full
=============================================================================
