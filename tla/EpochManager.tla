----------------------------- MODULE EpochManager -----------------------------
(***************************************************************************)
(* The epoch manager (audit-service/src/audit/epoch.rs) as operators on    *)
(* its state: the list of epochs, the last of which is open.  Epoch number *)
(* n is entry n + 1.  The operators are what one call does while it holds  *)
(* the manager's lock; the save() that follows is a step of the caller.    *)
(*                                                                         *)
(* The audit log is seen through its length: event i exists iff i < leaves *)
(* and RootAfter(i) names the Merkle root right after event i.             *)
(***************************************************************************)
EXTENDS Integers, Sequences

CONSTANT Threshold   \* event_threshold; 0 disables closing by count

ASSUME ThresholdAssumption == Threshold \in Nat

None == -1
NoRange == [from |-> None, to |-> None]

(* Epoch::new() *)
NewEpoch(start) ==
  [start |-> start, end |-> None, root |-> None, count |-> 0,
   committed |-> FALSE, tx |-> "none", oplog |-> NoRange]

Epoch ==
  [start : Nat, end : Nat \cup {None}, root : Nat \cup {None}, count : Nat,
   committed : BOOLEAN, tx : {"none", "empty", "hash"},
   oplog : [from : Nat \cup {None}, to : Nat \cup {None}]]

IsOpen(e) == e.end = None

(* EpochManager::new(): also what a missing or unreadable file yields. *)
Fresh == <<NewEpoch(0)>>

(* AuditLog::root_after_at(i), defined for the events of the log. *)
RootAfter(i) == i

(* Mutant: the current root of the tree, whatever was recorded since. *)
FrozenRoot_Current(end, leaves) == RootAfter(leaves - 1)

(* The root an epoch that ends at end is frozen with. *)
FrozenRoot(end, leaves) == RootAfter(end)

(* Freeze the open epoch at end and open the next one. *)
CloseAt(epochs, end, leaves) ==
  Append([epochs EXCEPT ![Len(epochs)] =
            [@ EXCEPT !.end = end, !.root = FrozenRoot(end, leaves)]],
         NewEpoch(end + 1))

Reached(count) == Threshold > 0 /\ count >= Threshold

(* record_event(): count the event; at the threshold close the epoch at    *)
(* its index, or return an error if the log has no root for it.            *)
RecordEvent(epochs, index, leaves) ==
  LET counted == [epochs EXCEPT ![Len(epochs)].count = @ + 1]
  IN  IF Reached(counted[Len(epochs)].count) /\ index < leaves
        THEN CloseAt(counted, index, leaves)
        ELSE counted

(* close_current_epoch(): an error, and no change, when the epoch is empty *)
(* or the log does not reach the end its count implies.                    *)
CloseCurrent(epochs, leaves) ==
  LET current == epochs[Len(epochs)]
      end == current.start + current.count - 1
  IN  IF current.count > 0 /\ end < leaves
        THEN CloseAt(epochs, end, leaves)
        ELSE epochs

(* sync_open_epoch_with_audit_log(): recount from the log's length. *)
SyncOpen(epochs, leaves) ==
  LET start == epochs[Len(epochs)].start
      count == IF leaves > start THEN leaves - start ELSE 0
      synced == [epochs EXCEPT ![Len(epochs)].count = count]
  IN  IF Reached(count) THEN CloseAt(synced, start + count - 1, leaves) ELSE synced

(* attach_oplog_hash() on a closed epoch; the range's end becomes          *)
(* next_oplog_start_ts.                                                    *)
AttachOplogHash(epochs, n, from, to) ==
  [epochs EXCEPT ![n + 1].oplog = [from |-> from, to |-> to]]

(* mark_committed(): an empty hash never replaces a real one. *)
MarkCommitted(epochs, n, tx) ==
  [epochs EXCEPT ![n + 1].committed = TRUE,
                 ![n + 1].tx = IF tx = "empty" /\ @ = "hash" THEN @ ELSE tx]
=============================================================================
