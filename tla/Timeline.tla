------------------------------ MODULE Timeline ------------------------------
(***************************************************************************)
(* The Data Timeline (timeline_store.rs, operation_recorder.rs,            *)
(* commands/timeline.rs): a list of entries in memory, an index from       *)
(* profile to positions in that list, and a file that is rewritten as a    *)
(* whole after every change.  Entries and index have a lock each and no    *)
(* operation holds both to change them: an append pushes the entry, lets   *)
(* go, and then pushes the position; a removal drops entries, lets go,     *)
(* reads the list again to build an index, lets go, and stores it.  save() *)
(* keeps the read lock on the entries while it writes the file.            *)
(*                                                                         *)
(* An entry's id is drawn when its operation builds it, so ids also order  *)
(* the created_at times.                                                   *)
(***************************************************************************)
EXTENDS Naturals, Sequences, FiniteSets, SequencesExt

CONSTANTS Profiles,     \* profile ids
          Tasks,        \* commands of the application running at once
          MaxEntries,   \* bound on entries ever recorded
          MaxRemovals,  \* bound on deletions and prunes
          MaxFaults     \* bound on failing saves and restarts

ASSUME TimelineAssumption ==
    /\ MaxEntries \in Nat /\ MaxRemovals \in Nat /\ MaxFaults \in Nat

VARIABLES entries,   \* the list in memory
          index,     \* profile -> positions, in the order they were pushed
          file,      \* the lines that a restart would read
          task,      \* what each task is doing
          drawn,     \* ids drawn so far
          removals, faults,
          marks      \* what the properties remember, see MarksInit

tlVars == <<entries, index, file, task, drawn, removals, faults, marks>>

Idle == [st |-> "idle"]
NoScript == [op |-> "none"]
Busy(t) == task[t].st # "idle"

MarksInit == [acked |-> {},       \* ids whose append returned
              removed |-> {},     \* ids that a removal took out
              gone |-> {},        \* ids whose removal returned
              overlap |-> FALSE,  \* a removal met another change before its index was stored
              torn |-> FALSE]     \* a save failed or was cut off

ReadKinds == {"find", "aggregate"}
WriteKinds == {"insertOne", "insertMany", "updateOne", "updateMany", "replaceOne", "deleteOne", "deleteMany"}
SchemaKinds == {"indexCreate", "indexDrop", "collectionCreate", "collectionDrop", "collectionRename"}
BulkKinds == {"import", "export", "dump", "restore"}

\* The n-th of the positions I, and the elements of s at these positions, in order.
Nth(I, n) == CHOOSE i \in I : Cardinality({j \in I : j <= i}) = n
Kept(s, I) == [n \in 1..Cardinality(I) |-> s[Nth(I, n)]]

\* build_index()
BuildIndex(list) ==
    [p \in Profiles |-> Kept([i \in DOMAIN list |-> i], {i \in DOMAIN list : list[i].profile = p})]

\* list() for a profile: the index is trusted, positions beyond the list are dropped,
\* newest first by a sort that is stable.
List(p) ==
    LET found == {k \in DOMAIN index[p] : index[p][k] \in DOMAIN entries}
        entry(k) == entries[index[p][k]]
        upTo(k) == {j \in found : entry(j).id > entry(k).id \/ (entry(j).id = entry(k).id /\ j <= k)}
    IN [n \in 1..Cardinality(found) |-> entry(CHOOSE k \in found : Cardinality(upTo(k)) = n)]

\* save() holds the read lock while it writes: the entries cannot change.
Writable == \A t \in Tasks : task[t].st # "writing"

\* The tasks between their change of the entries and their change of the index.
Unindexed == {t \in Tasks : task[t].st \in {"index", "rebuild", "store"}}
Removing(t) == task[t].st \in {"rebuild", "store"}

----------------------------------------------------------------------------
(* Recording an operation.                                                 *)

\* TimelineEntry::builder: the entry of an operation that was executed.
BuildEntry(t, p, kind, script) ==
    /\ ~Busy(t) /\ drawn < MaxEntries
    /\ drawn' = drawn + 1
    /\ task' = [task EXCEPT ![t] = [st |-> "built", entry |-> [id |-> drawn', profile |-> p, kind |-> kind,
                                                             script |-> script, noted |-> FALSE]]]
    /\ UNCHANGED <<entries, index, file, removals, faults, marks>>

RecordRead(t, p) == \E kind \in ReadKinds : BuildEntry(t, p, kind, NoScript)
RecordWrite(t, p, kind, script) == kind \in WriteKinds /\ BuildEntry(t, p, kind, script)
RecordSchema(t, p) == \E kind \in SchemaKinds : BuildEntry(t, p, kind, NoScript)
RecordBulk(t, p) == \E kind \in BulkKinds : BuildEntry(t, p, kind, NoScript)

\* append_batch(), first part: the entry goes to the end of the list.
Push(t) ==
    /\ task[t].st = "built" /\ Writable
    /\ entries' = Append(entries, task[t].entry)
    /\ task' = [task EXCEPT ![t] = [st |-> "index", entry |-> @.entry, at |-> Len(entries) + 1]]
    /\ marks' = [marks EXCEPT !.overlap = @ \/ \E u \in Unindexed : Removing(u)]
    /\ UNCHANGED <<index, file, drawn, removals, faults>>

\* append_batch(), second part: the position it had goes to the index.
PushIndex(t) ==
    /\ task[t].st = "index"
    /\ index' = [index EXCEPT ![task[t].entry.profile] = Append(@, task[t].at)]
    /\ task' = [task EXCEPT ![t] = [st |-> "save", acks |-> {@.entry.id}, gone |-> {}]]
    /\ UNCHANGED <<entries, file, drawn, removals, faults, marks>>

----------------------------------------------------------------------------
(* Removing entries.                                                       *)

\* delete() and prune(), first part: keep some entries; nothing more when all are kept.
Retain(t, kept) ==
    LET keep == {i \in DOMAIN entries : entries[i] \in kept}
        out == {entries[i].id : i \in DOMAIN entries \ keep}
    IN /\ ~Busy(t) /\ Writable /\ removals < MaxRemovals
       /\ removals' = removals + 1
       /\ IF out = {} THEN UNCHANGED <<entries, task, marks>>
          ELSE /\ entries' = Kept(entries, keep)
               /\ task' = [task EXCEPT ![t] = [st |-> "rebuild", gone |-> out]]
               /\ marks' = [marks EXCEPT !.removed = @ \cup out, !.overlap = @ \/ Unindexed # {}]
       /\ UNCHANGED <<index, file, drawn, faults>>

Delete(t) == \E id \in 1..drawn : Retain(t, {e \in ToSet(entries) : e.id # id})

\* The newest `count` entries of each profile are kept whatever their age.
Recent(count) ==
    {e \in ToSet(entries) :
        Cardinality({f \in ToSet(entries) : f.profile = e.profile /\ f.id > e.id}) < count}

Prune(t) ==
    \E cutoff \in 1..drawn + 1, count \in 0..1 :
        Retain(t, {e \in ToSet(entries) : e.id >= cutoff} \cup Recent(count))

\* Second part: build an index of the list as it is now.
Rebuild(t) ==
    /\ task[t].st = "rebuild"
    /\ task' = [task EXCEPT ![t] = [st |-> "store", gone |-> @.gone, built |-> BuildIndex(entries)]]
    /\ UNCHANGED <<entries, index, file, drawn, removals, faults, marks>>

\* Mutant: the positions of the removed entries are dropped, the others are not shifted.
StoreIndex_NotShifted(t) ==
    /\ task[t].st = "store"
    /\ index' = [p \in Profiles |-> Kept(index[p], {k \in DOMAIN index[p] : index[p][k] \in DOMAIN entries})]
    /\ task' = [task EXCEPT ![t] = [st |-> "save", acks |-> {}, gone |-> @.gone]]
    /\ UNCHANGED <<entries, file, drawn, removals, faults, marks>>

\* Third part: store it.  With nobody else at work this also repairs the index.
StoreIndex(t) ==
    /\ task[t].st = "store"
    /\ index' = task[t].built
    /\ task' = [task EXCEPT ![t] = [st |-> "save", acks |-> {}, gone |-> @.gone]]
    /\ marks' = [marks EXCEPT !.overlap = @ /\ (Unindexed # {t} \/ task[t].built # BuildIndex(entries))]
    /\ UNCHANGED <<entries, file, drawn, removals, faults>>

----------------------------------------------------------------------------
\* update_notes(): an entry that is there gets a note.
UpdateNotes(t) ==
    /\ ~Busy(t) /\ Writable
    /\ \E i \in DOMAIN entries :
          /\ ~entries[i].noted
          /\ entries' = [entries EXCEPT ![i].noted = TRUE]
    /\ task' = [task EXCEPT ![t] = [st |-> "save", acks |-> {}, gone |-> {}]]
    /\ UNCHANGED <<index, file, drawn, removals, faults, marks>>

----------------------------------------------------------------------------
(* Saving.                                                                 *)

\* std::fs::write empties the file first.
SaveBegin(t) ==
    /\ task[t].st = "save"
    /\ file' = <<>>
    /\ task' = [task EXCEPT ![t].st = "writing"]
    /\ UNCHANGED <<entries, index, drawn, removals, faults, marks>>

Acknowledge(t) ==
    /\ task' = [task EXCEPT ![t] = Idle]
    /\ marks' = [marks EXCEPT !.acked = @ \cup task[t].acks, !.gone = @ \cup task[t].gone]

SaveEnd(t) ==
    /\ task[t].st = "writing"
    /\ file' = entries
    /\ Acknowledge(t)
    /\ UNCHANGED <<entries, index, drawn, removals, faults>>

\* The write fails half way, some lines made it; the error is dropped and the operation acknowledged.
SaveFails(t) ==
    /\ task[t].st = "writing" /\ faults < MaxFaults
    /\ faults' = faults + 1
    /\ file' \in Prefixes(entries)
    /\ task' = [task EXCEPT ![t] = Idle]
    /\ marks' = [marks EXCEPT !.acked = @ \cup task[t].acks, !.gone = @ \cup task[t].gone, !.torn = TRUE]
    /\ UNCHANGED <<entries, index, drawn, removals>>

\* The application ends at any point and starts again: with_path() reads what lines there are.
Restart ==
    /\ faults < MaxFaults
    /\ faults' = faults + 1
    /\ file' \in (IF Writable THEN {file} ELSE Prefixes(entries))
    /\ entries' = file'
    /\ index' = BuildIndex(file')
    /\ task' = [t \in Tasks |-> Idle]
    /\ marks' = [marks EXCEPT !.overlap = FALSE, !.torn = @ \/ ~Writable]
    /\ UNCHANGED <<drawn, removals>>

----------------------------------------------------------------------------
TimelineInit ==
    /\ entries = <<>> /\ file = <<>> /\ index = [p \in Profiles |-> <<>>]
    /\ task = [t \in Tasks |-> Idle]
    /\ drawn = 0 /\ removals = 0 /\ faults = 0
    /\ marks = MarksInit

\* The steps of a task that has begun.
TaskNext(t) ==
    \/ Push(t) \/ PushIndex(t) \/ Rebuild(t) \/ StoreIndex(t)
    \/ SaveBegin(t) \/ SaveEnd(t) \/ SaveFails(t)

Record(t) ==
    \E p \in Profiles :
        \/ RecordRead(t, p) \/ RecordSchema(t, p) \/ RecordBulk(t, p)
        \/ \E kind \in WriteKinds : RecordWrite(t, p, kind, NoScript)

TimelineNext ==
    \/ \E t \in Tasks : TaskNext(t) \/ Record(t) \/ Delete(t) \/ Prune(t) \/ UpdateNotes(t)
    \/ Restart

TimelineSpec == TimelineInit /\ [][TimelineNext]_tlVars

----------------------------------------------------------------------------
\* A profile is shown its own entries, newest first, each once, and every entry whose
\* recording returned, unless a removal is under way or met another change before it had
\* stored its index; the next removal that runs alone, or a restart, repairs that.
ListExact ==
    (~marks.overlap /\ \A t \in Tasks : ~Removing(t)) =>
        \A p \in Profiles :
            LET shown == List(p) IN
            /\ ToSet(shown) \subseteq {e \in ToSet(entries) : e.profile = p}
            /\ \A e \in ToSet(entries) : e.profile = p /\ e.id \in marks.acked => e \in ToSet(shown)
            /\ \A i, j \in DOMAIN shown : i < j => shown[i].id > shown[j].id

\* What was acknowledged survives restarts: a recorded entry is in the list until it is
\* removed, a removed one does not come back, unless a save failed or was cut off.
RestartRestoresAcked ==
    ~marks.torn =>
        LET ids == {e.id : e \in ToSet(entries)} IN
        /\ marks.acked \ marks.removed \subseteq ids
        /\ ids \cap marks.gone = {}

\* The timeline shows and keeps what was acknowledged.
TimelineKept == ListExact /\ RestartRestoresAcked
=============================================================================
