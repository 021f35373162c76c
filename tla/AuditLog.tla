------------------------------- MODULE AuditLog -------------------------------
(***************************************************************************)
(* The audit log (audit-service/src/audit/mod.rs, sled_store.rs): an       *)
(* in-memory Merkle tree with the root after every leaf, the list of       *)
(* events shown to users, the JSONL file that backs them, the sled store   *)
(* that speeds up a start, legal holds and retention, and recovery.        *)
(*                                                                         *)
(* Threads interleave at the code's lock boundaries: record() holds the    *)
(* tree lock from the insert to its return, and the events and persistence *)
(* locks from the event push to its return; prune_domain() holds the       *)
(* events lock; clear() takes one lock after the other.  A crash may fall  *)
(* between any two steps.  A Merkle root is the sequence of leaves it      *)
(* commits to (the hash is collision free), and leaves are numbered in the *)
(* order in which their recording begins.                                  *)
(***************************************************************************)
EXTENDS Naturals, Sequences, FiniteSets

CONSTANTS
  Domain,      \* (deployment, database) pairs
  Recorder,    \* threads that record: change-stream listeners, commands
  MaxEvents,   \* bound on record() calls
  MaxMeta,     \* bound on legal-hold and prune lines
  MaxCrashes,  \* bound on crashes
  MaxClears,   \* bound on clear() calls
  MaxErrors,   \* bound on appends that return an error
  Faults       \* which of "append", "torn", "sled" errors the disk may return

ASSUME AuditLogAssumption ==
  /\ MaxEvents \in Nat /\ MaxMeta \in Nat /\ MaxCrashes \in Nat /\ MaxClears \in Nat
  /\ MaxErrors \in Nat
  /\ Faults \subseteq {"append", "torn", "sled"}

VARIABLES
  mode,        \* "up", "down" (crashed) or "refused" (start returned an error)
  tree,        \* leaves of the in-memory tree
  rootAfter,   \* root_after_by_index
  events,      \* in-memory event list
  sequences,   \* next sequence number per domain
  holds,       \* legal_holds
  retained,    \* max_index of every retained root, per domain
  jsonl,       \* events.jsonl: its lines, and whether it ends in a line break
  sled,        \* [leaves, count]; count 0 is an absent meta:leaf_count
  rec,         \* what each recorder is doing
  pruning,     \* the domain prune_domain() has checked and not yet pruned
  clearing,    \* progress of clear()
  nextLeaf, metaLines, crashes, clears,
  \* history: records acknowledged since the last clear(); how many appends
  \* returned an error; whether every append began on a line of its own
  acked, errors, intact

memory == <<tree, rootAfter, events, sequences, holds, retained>>
disk == <<jsonl, sled>>
bounds == <<nextLeaf, metaLines, crashes, clears>>
history == <<acked, errors, intact>>
vars == <<mode, memory, disk, rec, pruning, clearing, bounds, history>>

NoDomain == "none"
Idle == [pc |-> "idle"]

-----------------------------------------------------------------------------
(* Lines of the file *)

EventLine(i, d, leaf, root) ==
  [kind |-> "event", index |-> i, dom |-> d, leaf |-> leaf, root |-> root]
HoldLine(d, on) == [kind |-> "hold", dom |-> d, on |-> on]
PruneLine(d, max) == [kind |-> "pruned", dom |-> d, max |-> max]
TornLine == [kind |-> "torn"]

(* writeln!(): what is appended to a file without a final line break joins *)
(* its last line, and the two together do not parse.                       *)
LinesWith(file, line) ==
  IF file.eol THEN Append(file.lines, line)
  ELSE [file.lines EXCEPT ![Len(file.lines)] = TornLine]

Appended(file, line) == [lines |-> LinesWith(file, line), eol |-> TRUE]

(* A writeln!() that stops inside the line, or before its line break (the  *)
(* two are separate writes).                                               *)
CutOff(file, line) ==
  {[lines |-> LinesWith(file, l), eol |-> FALSE] : l \in {line, TornLine}}

EmptyFile == [lines |-> <<>>, eol |-> TRUE]

WriteLine(line) ==
  /\ jsonl' = Appended(jsonl, line)
  /\ intact' = (intact /\ jsonl.eol)
  /\ UNCHANGED errors

(* An append that returns an error: nothing or everything was written (only *)
(* the fsync failed) or, where the disk allows it, a part of the line.     *)
FailedWrite(line) ==
  /\ errors < MaxErrors
  /\ \/ "append" \in Faults /\ jsonl' \in {jsonl, Appended(jsonl, line)}
     \/ "torn" \in Faults /\ jsonl' \in CutOff(jsonl, line)
  /\ intact' = (intact /\ (jsonl.eol \/ jsonl' = jsonl))
  /\ errors' = errors + 1

(* Locks.  A recorder past the insert holds the tree lock; past the event  *)
(* push it also holds the events and the persistence locks.                *)
TreeFree == \A r \in Recorder : rec[r].pc \notin {"inserted", "appended"}
EventsFree == \A r \in Recorder : rec[r].pc # "appended"

-----------------------------------------------------------------------------
EmptyMemory ==
  /\ tree' = <<>>
  /\ rootAfter' = <<>>
  /\ events' = <<>>
  /\ sequences' = [d \in Domain |-> 0]
  /\ holds' = {}
  /\ retained' = [d \in Domain |-> {}]

(* A fresh data directory, opened for the first time. *)
Init ==
  /\ mode = "up"
  /\ tree = <<>>
  /\ rootAfter = <<>>
  /\ events = <<>>
  /\ sequences = [d \in Domain |-> 0]
  /\ holds = {}
  /\ retained = [d \in Domain |-> {}]
  /\ jsonl = EmptyFile
  /\ sled = [leaves |-> [i \in {} |-> 0], count |-> 0]
  /\ rec = [r \in Recorder |-> Idle]
  /\ pruning = NoDomain
  /\ clearing = "idle"
  /\ nextLeaf = 1 /\ metaLines = 0 /\ crashes = 0 /\ clears = 0
  /\ acked = {} /\ errors = 0 /\ intact = TRUE

-----------------------------------------------------------------------------
(* record_inner() *)

(* The per-domain sequence number is taken before the tree lock. *)
BeginRecord(r, d) ==
  /\ mode = "up"
  /\ rec[r].pc = "idle"
  /\ nextLeaf <= MaxEvents
  /\ rec' = [rec EXCEPT ![r] =
               [pc |-> "numbered", dom |-> d, leaf |-> nextLeaf, sequence |-> sequences[d]]]
  /\ sequences' = [sequences EXCEPT ![d] = @ + 1]
  /\ nextLeaf' = nextLeaf + 1
  /\ UNCHANGED <<mode, tree, rootAfter, events, holds, retained, disk, pruning, clearing,
                 metaLines, crashes, clears, history>>

(* Insert, compute the root and push it, all under the tree lock. *)
InsertLeaf(r) ==
  /\ rec[r].pc = "numbered"
  /\ TreeFree
  /\ tree' = Append(tree, rec[r].leaf)
  /\ rootAfter' = Append(rootAfter, tree')
  /\ rec' = [rec EXCEPT ![r] =
               [pc |-> "inserted", dom |-> rec[r].dom, leaf |-> rec[r].leaf,
                sequence |-> rec[r].sequence, index |-> Len(tree), root |-> tree']]
  /\ UNCHANGED <<mode, events, sequences, holds, retained, disk, pruning, clearing, bounds,
                 history>>

PushEvent(r) ==
  events' = Append(events, [index |-> rec[r].index, dom |-> rec[r].dom,
                            sequence |-> rec[r].sequence])

LineOf(r) == EventLine(rec[r].index, rec[r].dom, rec[r].leaf, rec[r].root)

(* Append one line and fsync it. *)
AppendLine(r) ==
  /\ rec[r].pc = "inserted"
  /\ EventsFree
  /\ PushEvent(r)
  /\ WriteLine(LineOf(r))
  /\ rec' = [rec EXCEPT ![r].pc = "appended"]
  /\ UNCHANGED <<mode, tree, rootAfter, sequences, holds, retained, sled, pruning, clearing,
                 bounds, acked>>

(* The append or the fsync returns an error and record() with it: the leaf *)
(* and the event stay in memory.                                           *)
AppendFails(r) ==
  /\ rec[r].pc = "inserted"
  /\ EventsFree
  /\ PushEvent(r)
  /\ FailedWrite(LineOf(r))
  /\ rec' = [rec EXCEPT ![r] = Idle]
  /\ UNCHANGED <<mode, tree, rootAfter, sequences, holds, retained, sled, pruning, clearing,
                 bounds, acked>>

(* save_leaf(): the leaf, then meta:leaf_count, then flush. *)
SledPut(i, leaf, count) ==
  [leaves |-> [j \in DOMAIN sled.leaves \cup {i} |->
                 IF j = i THEN leaf ELSE sled.leaves[j]],
   count |-> count]

(* record() returns the index; an error of the sled store is only logged.  *)
(* A record that a running clear() overlaps belongs to the cleared log.    *)
SaveLeaf(r) ==
  /\ rec[r].pc = "appended"
  /\ \/ sled' = SledPut(rec[r].index, rec[r].leaf, rec[r].index + 1)
     \/ "sled" \in Faults /\ sled' = sled
  /\ acked' = IF clearing = "idle"
                THEN acked \cup {[index |-> rec[r].index, leaf |-> rec[r].leaf]}
                ELSE acked
  /\ rec' = [rec EXCEPT ![r] = Idle]
  /\ UNCHANGED <<mode, memory, jsonl, pruning, clearing, bounds, errors, intact>>

-----------------------------------------------------------------------------
(* Legal holds and retention *)

(* set_legal_hold(): the set changes, then its line is appended.           *)
SetLegalHold(d, on) ==
  /\ mode = "up"
  /\ metaLines < MaxMeta
  /\ EventsFree
  /\ holds' = IF on THEN holds \cup {d} ELSE holds \ {d}
  /\ WriteLine(HoldLine(d, on)) \/ FailedWrite(HoldLine(d, on))
  /\ metaLines' = metaLines + 1
  /\ UNCHANGED <<mode, tree, rootAfter, events, sequences, retained, sled, rec, pruning,
                 clearing, nextLeaf, crashes, clears, acked>>

(* prune_domain() looks at the hold before it takes the events lock. *)
PruneCheck(d) ==
  /\ mode = "up"
  /\ pruning = NoDomain
  /\ metaLines < MaxMeta
  /\ d \notin holds
  /\ pruning' = d
  /\ metaLines' = metaLines + 1
  /\ UNCHANGED <<mode, memory, disk, rec, clearing, nextLeaf, crashes, clears, history>>

IndicesOf(d) == {events[i].index : i \in {j \in 1..Len(events) : events[j].dom = d}}

MaxOf(S) == CHOOSE m \in S : \A n \in S : n <= m
MinOf(S) == CHOOSE m \in S : \A n \in S : m <= n

(* What a filter keeps of sequence s: the elements at positions I, in order. *)
Nth(I, n) == CHOOSE i \in I : Cardinality({j \in I : j <= i}) = n
Kept(s, I) == [n \in 1..Cardinality(I) |-> s[Nth(I, n)]]

EventsOutside(d) == Kept(events, {i \in 1..Len(events) : events[i].dom # d})

(* Mutant: the commitment is kept in memory only. *)
PruneApply_NotPersisted ==
  LET d == pruning
  IN  /\ pruning # NoDomain
      /\ EventsFree
      /\ pruning' = NoDomain
      /\ IF IndicesOf(d) = {} THEN UNCHANGED <<events, retained>>
         ELSE /\ retained' = [retained EXCEPT ![d] = @ \cup {MaxOf(IndicesOf(d))}]
              /\ events' = EventsOutside(d)
      /\ UNCHANGED <<mode, tree, rootAfter, sequences, holds, disk, rec, clearing, bounds,
                     history>>

(* Under the events lock: commit to the segment, persist the commitment,   *)
(* drop the events it covers.  If the append fails nothing changes.        *)
PruneApply ==
  LET d == pruning
  IN  /\ pruning # NoDomain
      /\ EventsFree
      /\ pruning' = NoDomain
      /\ \/ IndicesOf(d) = {} /\ UNCHANGED <<events, retained, jsonl, errors, intact>>
         \/ /\ IndicesOf(d) # {}
            /\ WriteLine(PruneLine(d, MaxOf(IndicesOf(d))))
            /\ retained' = [retained EXCEPT ![d] = @ \cup {MaxOf(IndicesOf(d))}]
            /\ events' = EventsOutside(d)
         \/ /\ IndicesOf(d) # {}
            /\ FailedWrite(PruneLine(d, MaxOf(IndicesOf(d))))
            /\ UNCHANGED <<events, retained>>
      /\ UNCHANGED <<mode, tree, rootAfter, sequences, holds, sled, rec, clearing, bounds,
                     acked>>

-----------------------------------------------------------------------------
(* clear(): each part under its own lock *)

ClearTree ==
  /\ mode = "up" /\ clearing = "idle"
  /\ clears < MaxClears
  /\ TreeFree
  /\ tree' = <<>>
  /\ clearing' = "tree"
  /\ clears' = clears + 1
  /\ acked' = {}
  /\ UNCHANGED <<mode, rootAfter, events, sequences, holds, retained, disk, rec, pruning,
                 nextLeaf, metaLines, crashes, errors, intact>>

ClearMemory ==
  /\ clearing = "tree"
  /\ EventsFree
  /\ events' = <<>>
  /\ sequences' = [d \in Domain |-> 0]
  /\ holds' = {}
  /\ retained' = [d \in Domain |-> {}]
  /\ clearing' = "memory"
  /\ UNCHANGED <<mode, tree, rootAfter, disk, rec, pruning, bounds, history>>

ClearSled ==
  /\ clearing = "memory"
  /\ sled' = [leaves |-> [i \in {} |-> 0], count |-> 0]
  /\ clearing' = "sled"
  /\ UNCHANGED <<mode, memory, jsonl, rec, pruning, bounds, history>>

ClearFile ==
  /\ clearing = "sled"
  /\ EventsFree
  /\ jsonl' = EmptyFile
  /\ clearing' = "idle"
  /\ UNCHANGED <<mode, memory, sled, rec, pruning, bounds, history>>

-----------------------------------------------------------------------------
(* Crash and recovery *)

(* The lines a thread may be in the middle of appending. *)
InFlight ==
  IF ~EventsFree THEN {}
  ELSE {LineOf(r) : r \in {q \in Recorder : rec[q].pc = "inserted"}}
       \cup (IF metaLines < MaxMeta THEN {HoldLine(d, TRUE) : d \in Domain} ELSE {})
       \cup {PruneLine(d, MaxOf(IndicesOf(d))) :
               d \in {e \in Domain : e = pruning /\ IndicesOf(e) # {}}}

(* Memory is lost.  A line being appended may be cut off, and a            *)
(* save_leaf() under way may have stored its leaf without the new count.   *)
Crash ==
  /\ mode = "up"
  /\ crashes < MaxCrashes
  /\ crashes' = crashes + 1
  /\ mode' = "down"
  /\ EmptyMemory
  /\ \/ UNCHANGED <<jsonl, intact>>
     \/ /\ \E line \in InFlight : jsonl' \in CutOff(jsonl, line)
        /\ intact' = (intact /\ jsonl.eol)
  /\ \/ sled' = sled
     \/ \E r \in Recorder :
          /\ rec[r].pc = "appended"
          /\ sled' = SledPut(rec[r].index, rec[r].leaf, sled.count)
  /\ rec' = [r \in Recorder |-> Idle]
  /\ pruning' = NoDomain
  /\ clearing' = "idle"
  /\ UNCHANGED <<nextLeaf, metaLines, clears, acked, errors>>

(* Truncated before the first line that does not parse and rewritten with  *)
(* a final line break; a file whose lines all parse is left as it is.      *)
Repaired(file) ==
  LET bad == {i \in 1..Len(file.lines) : file.lines[i] = TornLine}
  IN  IF bad = {} THEN file
      ELSE [lines |-> SubSeq(file.lines, 1, MinOf(bad) - 1), eol |-> TRUE]

LinesAt(file, kind) == {i \in 1..Len(file.lines) : file.lines[i].kind = kind}
EventLines(file) == Kept(file.lines, LinesAt(file, "event"))

(* replay_metadata_lines(): the last hold line of a domain decides. *)
HoldsIn(file) ==
  {d \in Domain :
     \E i \in LinesAt(file, "hold") :
       /\ file.lines[i].dom = d /\ file.lines[i].on
       /\ \A j \in LinesAt(file, "hold") : j > i => file.lines[j].dom # d}

RetainedIn(file) ==
  [d \in Domain |->
     {file.lines[i].max : i \in {j \in LinesAt(file, "pruned") : file.lines[j].dom = d}}]

(* Sequence numbers are recounted in file order, then                      *)
(* apply_retention_to_events() drops what a retained root covers.          *)
EventsIn(file) ==
  LET lines == EventLines(file)
      all == [i \in 1..Len(lines) |->
                [index |-> lines[i].index, dom |-> lines[i].dom,
                 sequence |-> Cardinality({j \in 1..(i - 1) : lines[j].dom = lines[i].dom})]]
  IN  Kept(all, {i \in 1..Len(lines) :
                   ~ \E m \in RetainedIn(file)[lines[i].dom] : lines[i].index <= m})

(* Mutant: only events that survive retention are counted. *)
SequencesIn_CountsKept(file) ==
  [d \in Domain |->
     Cardinality({i \in 1..Len(EventsIn(file)) : EventsIn(file)[i].dom = d})]

SequencesIn(file) ==
  [d \in Domain |->
     Cardinality({i \in 1..Len(EventLines(file)) : EventLines(file)[i].dom = d})]

(* load_tree(): fails if a leaf below the count is missing. *)
SledLoads == sled.count > 0 /\ \A i \in 0..(sled.count - 1) : i \in DOMAIN sled.leaves
SledTree == [i \in 1..sled.count |-> sled.leaves[i - 1]]

(* Mutant: a tree that lags behind the file is accepted. *)
VerifiesAgainstSled_Lenient(lines) == TRUE

(* verify_against_tree(): every line within the sled tree, and the last    *)
(* line's root the sled tree's root.                                       *)
VerifiesAgainstSled(lines) ==
  /\ \A i \in 1..Len(lines) : lines[i].index < sled.count
  /\ lines # <<>> => lines[Len(lines)].root = SledTree

(* replay_file(): each line lands at its own index with its own root. *)
Replays(lines) ==
  \A i \in 1..Len(lines) :
    /\ lines[i].index = i - 1
    /\ lines[i].root = [j \in 1..i |-> lines[j].leaf]

RootsIn(lines) == [i \in 1..Len(lines) |-> lines[i].root]

(* set_persistence_dir() on the files a crash left. *)
Restart ==
  LET file == Repaired(jsonl)
      lines == EventLines(file)
      accepted == IF SledLoads THEN VerifiesAgainstSled(lines) ELSE Replays(lines)
  IN  /\ mode = "down"
      /\ jsonl' = file
      /\ IF accepted
           THEN /\ mode' = "up"
                /\ tree' = IF SledLoads THEN SledTree
                           ELSE [i \in 1..Len(lines) |-> lines[i].leaf]
                /\ rootAfter' = RootsIn(lines)
                /\ events' = EventsIn(file)
                /\ sequences' = SequencesIn(file)
                /\ holds' = HoldsIn(file)
                /\ retained' = RetainedIn(file)
           ELSE mode' = "refused" /\ UNCHANGED memory
      /\ UNCHANGED <<sled, rec, pruning, clearing, bounds, history>>

-----------------------------------------------------------------------------
Next ==
  \/ \E r \in Recorder, d \in Domain : BeginRecord(r, d)
  \/ \E r \in Recorder : InsertLeaf(r)
  \/ \E r \in Recorder : AppendLine(r)
  \/ \E r \in Recorder : AppendFails(r)
  \/ \E r \in Recorder : SaveLeaf(r)
  \/ \E d \in Domain, on \in BOOLEAN : SetLegalHold(d, on)
  \/ \E d \in Domain : PruneCheck(d)
  \/ PruneApply
  \/ ClearTree \/ ClearMemory \/ ClearSled \/ ClearFile
  \/ Crash
  \/ Restart

Spec == Init /\ [][Next]_vars

-----------------------------------------------------------------------------
(* Properties *)

Numbered ==
  [pc : {"numbered"}, dom : Domain, leaf : 1..MaxEvents, sequence : 0..(MaxEvents - 1)]
Inserted ==
  [pc : {"inserted", "appended"}, dom : Domain, leaf : 1..MaxEvents,
   sequence : 0..(MaxEvents - 1), index : 0..(MaxEvents - 1), root : Seq(1..MaxEvents)]

(* Indices are positions of the tree, leaves and lines are what record()   *)
(* and the metadata writers produce.                                       *)
TypeOK ==
  /\ mode \in {"up", "down", "refused"}
  /\ tree \in Seq(1..MaxEvents)
  /\ \A i \in 1..Len(rootAfter) : rootAfter[i] \in Seq(1..MaxEvents)
  /\ \A i \in 1..Len(events) :
       events[i] \in [index : 0..(MaxEvents - 1), dom : Domain, sequence : 0..(MaxEvents - 1)]
  /\ sequences \in [Domain -> 0..MaxEvents]
  /\ holds \subseteq Domain
  /\ retained \in [Domain -> SUBSET (0..(MaxEvents - 1))]
  /\ \A i \in 1..Len(jsonl.lines) : jsonl.lines[i].kind \in {"event", "hold", "pruned", "torn"}
  /\ DOMAIN sled.leaves \subseteq 0..(MaxEvents - 1) /\ sled.count \in 0..MaxEvents
  /\ rec \in [Recorder -> {Idle} \cup Numbered \cup Inserted]
  /\ pruning \in Domain \cup {NoDomain}
  /\ clearing \in {"idle", "tree", "memory", "sled"}

(* A record() that returned Ok is in the tree, at the index it returned,   *)
(* in every later run of the process that starts: no crash and no failure  *)
(* of the disk loses or moves it silently, the guarantee for which         *)
(* record_inner() fsyncs the line before it returns.                       *)
AckedDurable ==
  mode = "up" =>
    \A a \in acked : a.index < Len(tree) /\ tree[a.index + 1] = a.leaf

(* The same, as long as no line was joined to an unterminated one. *)
AckedDurableWhileIntact == intact => AckedDurable

(* root_after_by_index stays index-aligned with the tree, the assertion in *)
(* record_inner(): entry i is the root right after leaf i went in.         *)
RootHistoryAligned ==
  mode = "up" /\ clearing = "idle" => rootAfter = [i \in 1..Len(tree) |-> SubSeq(tree, 1, i)]

(* The same, as long as nobody calls clear() and no lines were joined. *)
RootHistoryAlignedUntilClear == clears = 0 /\ intact => RootHistoryAligned

(* Within a domain no two events share a sequence number, across crashes,  *)
(* recounting and retention, and the next number is still unused.          *)
SequencesDistinct ==
  clears = 0 /\ mode = "up" =>
    \A i \in 1..Len(events) :
      /\ events[i].sequence < sequences[events[i].dom]
      /\ \A j \in 1..Len(events) :
           /\ i # j
           /\ events[i].dom = events[j].dom
           => events[i].sequence # events[j].sequence

(* Retention and holds mean the same before and after a restart: memory    *)
(* holds what the file's metadata says, and of the events in the file      *)
(* exactly those are hidden that a retained root of their domain covers.   *)
RetentionMatchesFile ==
  clears = 0 /\ mode = "up" /\ errors = 0 /\ intact =>
    LET file == Repaired(jsonl)
        shown == {events[i].index : i \in 1..Len(events)}
    IN  /\ holds = HoldsIn(file)
        /\ retained = RetainedIn(file)
        /\ \A i \in 1..Len(EventLines(file)) :
             LET l == EventLines(file)[i]
             IN  l.index \in shown <=> ~ \E m \in retained[l.dom] : l.index <= m

(* Memory and file tell the same of roots and retention, at every moment   *)
(* between crashes, failed appends and replays.                            *)
MemoryMatchesFile == TypeOK /\ RootHistoryAlignedUntilClear /\ RetentionMatchesFile

(* Files that only this code wrote are never rejected as tampered with.    *)
NeverRefused == mode # "refused"
=============================================================================
