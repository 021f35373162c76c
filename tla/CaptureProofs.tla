---------------------------- MODULE CaptureProofs ----------------------------
(***************************************************************************)
(* Theorems about the two paths of a write into the audit log, for any     *)
(* connections and any number of writes, calls and faults.                 *)
(***************************************************************************)
EXTENDS Capture, FiniteSetTheorems, SequenceTheorems, TLAPS

Type ==
    {"insert", "update", "replace", "delete", "drop", "dropDatabase", "rename", "createIndexes",
     "dropIndexes", "modify"}
Operation ==
    {None, "insert", "update", "delete", "drop_collection", "drop_database", "rename",
     "create_index", "drop_index"}
OpKind ==
    {None, "insertOne", "insertMany", "updateOne", "updateMany", "replaceOne", "deleteOne",
     "deleteMany", "collectionDrop", "collectionRename", "indexCreate", "indexDrop"}
Topology == {"rs", "sharded", "standalone"}
State ==
    {"none", "spawned", "opening", "watching", "saving", "backoff", "retry", "stopped", "ended"}

Listeners == [st : State, tok : Nat, pos : Nat]
WriteRecs == [type : Type, conn : Conns \cup {None}, dep : Topology \cup {EmptyId, None}]
AuditRecs == [ws : SUBSET Nat, via : Ids \cup {"call"}, op : Operation]
Pushed == [kind : OpKind, ws : SUBSET Nat]
OpRecs ==
    [at : {"script", "applied"}, conn : Conns, dep : Topology \cup {EmptyId}, shell : BOOLEAN,
     ws : SUBSET Nat, recs : Seq(AuditRecs), kind : OpKind,
     done : Seq(Pushed)]
GhostRecs ==
    [skipped : [Ids -> SUBSET Nat], unheard : [Ids -> SUBSET Nat], unrecorded : SUBSET Nat,
     unsaved : Nat, restarts : Nat, unread : [Ids -> SUBSET Nat], unaudited : SUBSET Nat, acked : SUBSET Nat]

Types ==
    /\ topology \in Topology
    /\ writes \in Seq(WriteRecs) /\ audit \in Seq(AuditRecs)
    /\ entries \in [Conns -> {None, EmptyId, topology}]
    /\ drawn \subseteq Conns /\ closing \subseteq Conns
    /\ opening \subseteq [c : Conns, dep : {EmptyId, topology}]
    /\ lis \in [Ids -> Listeners] /\ tokens \in [Ids -> Nat]
    /\ cancelled \subseteq Ids
    /\ op = Idle \/ (op \in OpRecs /\ op.dep \in {EmptyId, topology})
    /\ ghost \in GhostRecs

-----------------------------------------------------------------------------
(* The inductive invariants *)

(* An id is used for one connection, whose listener is stopped only after  *)
(* the connection was closed: as long as a streaming connection is open it *)
(* has a listener, or its start is about to come.                          *)
Opening(o) == o.c \in drawn /\ lis[o.c].st = "none" /\ entries[o.c] \in {None, o.dep}
Fresh(c) == lis[c].st = "none" /\ entries[c] = None /\ c \notin closing \cup cancelled
HasListener(c) ==
    \/ ~SupportsChangeStreams(entries[c])
    \/ \E o \in opening : o.c = c
    \/ lis[c].st \notin {"none", "stopped"}

ConnInv ==
    /\ \A c \in Conns : c \notin drawn => Fresh(c)
    /\ \A c \in Conns : c \in closing \cup cancelled => entries[c] = None
    /\ \A o \in opening : Opening(o)
    /\ \A o, p \in opening : o.c = p.c => o = p
    /\ \A c \in Conns : HasListener(c)

(* The writes of a connection carry the deployment id it was opened with.  *)
Attributed(c, dep) == c \in drawn /\ entries[c] \in {None, dep}

EntryInv ==
    /\ \A w \in 1..Len(writes) : writes[w].dep # None => Attributed(writes[w].conn, writes[w].dep)
    /\ op.at # "idle" => Attributed(op.conn, op.dep)

(* The writes the listener of id has read or passed over. *)
Heard(id) == Streamed(id) \cup ghost.unheard[id] \cup ghost.skipped[id] \cup ghost.unread[id]

(* The position of a stream is the token, or what was read after it. *)
StreamInv ==
    \A id \in Ids :
        /\ 1..tokens[id] \subseteq Heard(id) /\ tokens[id] <= Len(writes)
        /\ lis[id].st = "opening" => lis[id].tok \in {0, tokens[id]}
        /\ lis[id].st \in {"watching", "saving"} => lis[id].pos <= Len(writes) /\ 1..lis[id].pos \subseteq Heard(id)
        /\ lis[id].st = "watching" => tokens[id] <= lis[id].pos
        /\ lis[id].st = "saving" => tokens[id] < lis[id].pos

(* How often the listener of id recorded write w. *)
Places(id, w) == {k \in DOMAIN audit : audit[k].via = id /\ w \in audit[k].ws}
Times(id, w) == Cardinality(Places(id, w))
Lost == ghost.unsaved + ghost.restarts

(* Each repetition was paid for by a lost token, and so was each record    *)
(* beyond the token that is saved, but the one being saved.                *)
RepeatInv ==
    \A id \in Ids, w \in Nat :
        /\ Times(id, w) <= 1 + Lost
        /\ w > tokens[id] /\ ~(lis[id].st = "saving" /\ lis[id].pos = w) => Times(id, w) <= Lost

(* What a call records are its own writes, on a deployment that does not   *)
(* stream; a record of a listener means that the server streams.           *)
CallInv ==
    op.at = "applied" =>
        /\ op.ws \subseteq 1..Len(writes) /\ \A w \in op.ws : writes[w].dep = op.dep
        /\ \A i \in 1..Len(op.recs) : op.recs[i].via = "call" /\ op.recs[i].ws \subseteq op.ws
        /\ \A w \in op.ws :
             \/ SupportsChangeStreams(op.dep)
             \/ w \in Called \cup ghost.unrecorded \cup ghost.unaudited
             \/ \E i \in 1..Len(op.recs) : w \in op.recs[i].ws

CallCaptured ==
    \A w \in ghost.acked :
        w \in Called \cup ghost.unrecorded \cup ghost.unaudited \/ SupportsChangeStreams(writes[w].dep)

PathInv ==
    /\ \A w \in Called :
         w \in 1..Len(writes) /\ writes[w].dep \in {EmptyId, topology} /\ ~SupportsChangeStreams(writes[w].dep)
    /\ \A k \in 1..Len(audit) : audit[k].via # "call" => topology # "standalone"
    /\ \A id \in Ids : lis[id].st \in {"watching", "saving"} => topology # "standalone"
    /\ CallInv
    /\ ghost.acked \subseteq 1..Len(writes) /\ CallCaptured

-----------------------------------------------------------------------------
(* The audit log *)

LEMMA StreamedBy ==
    ASSUME NEW x, NEW w
    PROVE  w \in Streamed(x) <=> \E k \in DOMAIN audit : audit[k].via = x /\ w \in audit[k].ws
BY DEF Streamed

LEMMA RecordAppended ==
    ASSUME Types, NEW r \in AuditRecs, audit' = Append(audit, r)
    PROVE  /\ audit' \in Seq(AuditRecs) /\ Len(audit') = Len(audit) + 1 /\ Len(audit) \in Nat
           /\ \A k \in 1..Len(audit) : audit'[k] = audit[k]
           /\ audit'[Len(audit) + 1] = r
           /\ \A x, w : w \in Streamed(x)' <=> (w \in Streamed(x) \/ (r.via = x /\ w \in r.ws))
           /\ \A id, w : Places(id, w)' =
                IF r.via = id /\ w \in r.ws THEN Places(id, w) \cup {Len(audit) + 1} ELSE Places(id, w)
<1>1. /\ audit' \in Seq(AuditRecs) /\ Len(audit') = Len(audit) + 1 /\ Len(audit) \in Nat
      /\ \A k \in 1..Len(audit) : audit'[k] = audit[k]
      /\ audit'[Len(audit) + 1] = r
      /\ DOMAIN audit = 1..Len(audit) /\ DOMAIN audit' = 1..(Len(audit) + 1)
  BY DEF Types
<1>2. 1..(Len(audit) + 1) = (1..Len(audit)) \cup {Len(audit) + 1}
  BY <1>1
<1>3. ASSUME NEW x, NEW w
      PROVE  w \in Streamed(x)' <=> (w \in Streamed(x) \/ (r.via = x /\ w \in r.ws))
  BY <1>1, <1>2 DEF Streamed
<1>4. ASSUME NEW id, NEW w
      PROVE  Places(id, w)' =
               IF r.via = id /\ w \in r.ws THEN Places(id, w) \cup {Len(audit) + 1} ELSE Places(id, w)
  BY <1>1, <1>2 DEF Places
<1> QED
  BY <1>1, <1>3, <1>4

(* A record more is one place more, or none. *)
LEMMA PlacesCounted ==
    ASSUME Types, NEW id, NEW w
    PROVE  Times(id, w) \in Nat /\ IsFiniteSet(Places(id, w)) /\ Places(id, w) \subseteq 1..Len(audit)
<1>1. Places(id, w) \subseteq 1..Len(audit) /\ Len(audit) \in Nat
  BY DEF Places, Types
<1>2. IsFiniteSet(1..Len(audit))
  BY <1>1, FS_Interval
<1>3. IsFiniteSet(Places(id, w))
  BY <1>1, <1>2, FS_Subset
<1> QED
  BY <1>1, <1>3, FS_CardinalityType DEF Times

LEMMA TimesAppended ==
    ASSUME Types, NEW r \in AuditRecs, audit' = Append(audit, r), NEW id, NEW w
    PROVE  Times(id, w)' = IF r.via = id /\ w \in r.ws THEN Times(id, w) + 1 ELSE Times(id, w)
<1>1. Len(audit) \in Nat
  BY DEF Types
<1>2. ~(Len(audit) + 1 \in Places(id, w))
  BY <1>1, PlacesCounted
<1>3. Cardinality(Places(id, w) \cup {Len(audit) + 1}) = Cardinality(Places(id, w)) + 1
  BY <1>2, PlacesCounted, FS_AddElement
<1>4. Places(id, w)' =
        IF r.via = id /\ w \in r.ws THEN Places(id, w) \cup {Len(audit) + 1} ELSE Places(id, w)
  BY RecordAppended
<1> QED
  BY <1>3, <1>4 DEF Times

-----------------------------------------------------------------------------
(* The server's log *)

LEMMA WritesApplied ==
    ASSUME Types, NEW c \in Conns \cup {None}, NEW dep \in Topology \cup {EmptyId, None},
           NEW types \in Seq(Type), Apply(c, dep, types)
    PROVE  /\ writes' \in Seq(WriteRecs) /\ Len(writes) \in Nat /\ Len(types) \in Nat
           /\ Len(writes') = Len(writes) + Len(types)
           /\ \A w \in 1..Len(writes) : writes'[w] = writes[w]
           /\ New(types) \subseteq 1..Len(writes') /\ New(types) \subseteq Nat
           /\ \A w \in New(types) : writes'[w].dep = dep /\ writes'[w].conn = c
           /\ \A w \in 1..Len(writes') : w \in 1..Len(writes) \/ w \in New(types)
<1> DEFINE new == [i \in DOMAIN types |-> [type |-> types[i], conn |-> c, dep |-> dep]]
<1>0. Len(types) \in Nat /\ DOMAIN types = 1..Len(types) /\ \A i \in 1..Len(types) : types[i] \in Type
  OBVIOUS
<1>1. new \in Seq(WriteRecs) /\ Len(new) = Len(types) /\ Len(types) \in Nat
  <2>1. \A i \in 1..Len(types) : [type |-> types[i], conn |-> c, dep |-> dep] \in WriteRecs
    BY <1>0 DEF WriteRecs
  <2>2. new \in [1..Len(types) -> WriteRecs]
    BY <1>0, <2>1
  <2> QED
    BY <1>0, <2>2
<1>2. \A i \in 1..Len(types) : new[i].dep = dep /\ new[i].conn = c
  OBVIOUS
<1>3. writes' = writes \o new
  BY DEF Apply
<1> HIDE DEF new
<1>4. writes \in Seq(WriteRecs) /\ Len(writes) \in Nat
  BY DEF Types
<1>5. /\ writes' \in Seq(WriteRecs) /\ Len(writes') = Len(writes) + Len(types)
      /\ \A w \in 1..Len(writes) : writes'[w] = writes[w]
      /\ \A w \in (Len(writes) + 1)..(Len(writes) + Len(types)) : writes'[w] = new[w - Len(writes)]
  <2>1. /\ writes \o new \in Seq(WriteRecs) /\ Len(writes \o new) = Len(writes) + Len(new)
        /\ \A i \in 1..(Len(writes) + Len(new)) :
             (writes \o new)[i] = IF i <= Len(writes) THEN writes[i] ELSE new[i - Len(writes)]
    BY <1>1, <1>4, ConcatProperties
  <2> QED
    BY <1>1, <1>3, <1>4, <2>1
<1>6. ASSUME NEW w \in New(types)
      PROVE  w - Len(writes) \in 1..Len(types) /\ w \in 1..Len(writes') /\ w \in Nat
  <2>1. w \in (Len(writes) + 1)..(Len(writes) + Len(types))
    BY <1>6 DEF New
  <2> QED
    BY <1>0, <1>4, <1>5, <2>1
<1>7. \A w \in New(types) : writes'[w].dep = dep /\ writes'[w].conn = c
  BY <1>2, <1>5, <1>6 DEF New
<1>8. \A w \in 1..Len(writes') : w \in 1..Len(writes) \/ w \in New(types)
  BY <1>1, <1>4, <1>5 DEF New
<1> QED
  BY <1>1, <1>4, <1>5, <1>6, <1>7, <1>8

-----------------------------------------------------------------------------
(* Types *)

LEMMA EventTypes ==
    /\ <<>> \in Seq(Type) /\ \A t \in Type : <<t>> \in Seq(Type)
    /\ <<"insert", "insert">> \in Seq(Type)
    /\ UpdateEvents \subseteq Seq(Type) /\ ReplaceEvents \subseteq Seq(Type)
    /\ DeleteEvents \subseteq Seq(Type)
BY DEF Type, UpdateEvents, ReplaceEvents, DeleteEvents

LEMMA InitTypes == Init => Types
BY DEF Init, Types, Topology, Listeners, State, NoListener, GhostInit, GhostRecs

LEMMA ListenerTypes ==
    ASSUME Types, NEW id \in Ids,
           \/ BeginWatch(id) \/ OpenStream(id) \/ OpenRefused(id) \/ NextEvent(id) \/ SaveToken(id)
           \/ StreamError(id) \/ BackoffOver(id) \/ StreamEnds(id) \/ ExitCancelled(id)
    PROVE  Types'
<1>1. /\ lis[id] \in Listeners /\ tokens[id] \in Nat /\ Len(writes) \in Nat
      /\ lis \in [Ids -> Listeners]
  BY DEF Types
<1>2. UNCHANGED <<topology, writes, entries, drawn, closing, opening, op>>
  BY DEF BeginWatch, OpenStream, OpenRefused, NextEvent, SaveToken, StreamError, BackoffOver, StreamEnds,
         ExitCancelled, conVars, appVars
<1>3. lis' \in [Ids -> Listeners]
  <2>1. CASE BeginWatch(id)
    <3>1. PICK tok \in Nat : lis' = [lis EXCEPT ![id].st = "opening", ![id].tok = tok]
      BY <1>1, <2>1 DEF BeginWatch
    <3> QED
      BY <1>1, <3>1 DEF Listeners, State
  <2>2. CASE OpenStream(id)
    BY <1>1, <2>2 DEF OpenStream, Listeners, State
  <2>3. CASE NextEvent(id)
    BY <1>1, <2>3 DEF NextEvent, Listeners, State
  <2>4. CASE ~BeginWatch(id) /\ ~OpenStream(id) /\ ~NextEvent(id)
    BY <1>1, <2>4 DEF OpenRefused, SaveToken, StreamError, BackoffOver, StreamEnds, ExitCancelled,
                      Listeners, State
  <2> QED
    BY <2>1, <2>2, <2>3, <2>4
<1>4. tokens' \in [Ids -> Nat]
  BY <1>1 DEF BeginWatch, OpenStream, OpenRefused, NextEvent, SaveToken, StreamError, BackoffOver, StreamEnds,
         ExitCancelled, Types, Listeners
<1>5. cancelled' \subseteq Ids
  BY DEF BeginWatch, OpenStream, OpenRefused, NextEvent, SaveToken, StreamError, BackoffOver, StreamEnds,
         ExitCancelled, Types, DropWakeup
<1>6. audit' \in Seq(AuditRecs)
  <2>1. CASE NextEvent(id)
    <3> DEFINE w == lis[id].pos + 1
               operation == EventOp(writes[w].type)
    <3>1. operation \in Operation /\ w \in Nat
      BY <1>1 DEF EventOp, Operation, Listeners
    <3>2. Recorded({w}, id, operation) \in AuditRecs
      BY <3>1 DEF Recorded, AuditRecs
    <3>3. audit' = audit \/ audit' = Append(audit, Recorded({w}, id, operation))
      BY <2>1 DEF NextEvent
    <3> QED
      BY <3>2, <3>3 DEF Types
  <2>2. CASE ~NextEvent(id)
    BY <2>2 DEF BeginWatch, OpenStream, OpenRefused, SaveToken, StreamError, BackoffOver, StreamEnds,
                ExitCancelled, Types
  <2> QED
    BY <2>1, <2>2
<1>7. ghost' \in GhostRecs
  <2>1. ghost \in GhostRecs /\ lis[id].pos \in Nat /\ lis[id].tok \in Nat
    BY <1>1 DEF Types, Listeners
  <2>2. CASE OpenStream(id)
    <3> DEFINE from == IF lis[id].tok = 0 THEN Len(writes) ELSE lis[id].tok
    <3>1. 1..from \subseteq Nat /\ tokens[id] + 1 .. from \subseteq Nat
      BY <1>1, <2>1
    <3>2. \/ ghost' = ghost \/ ghost' = [ghost EXCEPT !.skipped[id] = @ \cup (1..from)]
          \/ ghost' = [ghost EXCEPT !.unread[id] = @ \cup (tokens[id] + 1 .. from)]
      BY <2>2 DEF OpenStream
    <3> HIDE DEF from
    <3> QED
      BY <2>1, <3>1, <3>2 DEF GhostRecs
  <2>3. CASE NextEvent(id)
    <3>1. ghost' = ghost \/ ghost' = [ghost EXCEPT !.unheard[id] = @ \cup {lis[id].pos + 1}]
      BY <2>3 DEF NextEvent
    <3> QED
      BY <2>1, <3>1 DEF GhostRecs
  <2>4. CASE SaveToken(id)
    BY <2>1, <2>4 DEF SaveToken, GhostRecs
  <2>5. CASE StreamError(id) \/ BackoffOver(id) \/ OpenRefused(id)
    BY <2>1, <2>5 DEF StreamError, BackoffOver, OpenRefused, DropWakeup, GhostRecs
  <2>6. CASE BeginWatch(id) \/ StreamEnds(id) \/ ExitCancelled(id)
    BY <2>1, <2>6 DEF BeginWatch, StreamEnds, ExitCancelled
  <2> QED
    BY <2>2, <2>3, <2>4, <2>5, <2>6
<1> QED
  BY <1>2, <1>3, <1>4, <1>5, <1>6, <1>7 DEF Types

LEMMA ConnectionTypes ==
    ASSUME Types, ConnectionNext
    PROVE  Types'
<1>1. CASE \E c \in Conns : OpenConnection(c)
  BY <1>1 DEF OpenConnection, FetchDeploymentId, Types, capVars, appVars
<1>2. CASE \E c \in Conns : CloseConnection(c)
  BY <1>2 DEF CloseConnection, Types, capVars, appVars
<1>3. CASE \E c \in Conns : StopFor(c)
  <2>1. PICK c \in Conns : StopFor(c)
    BY <1>3
  <2>2. c \in Ids
    BY DEF Ids
  <2>3. cancelled' \subseteq Ids /\ closing' \subseteq Conns
    BY <2>1, <2>2 DEF StopFor, Types
  <2>4. UNCHANGED <<topology, writes, audit, entries, drawn, opening, lis, tokens, op, ghost>>
    BY <2>1 DEF StopFor, appVars
  <2> QED
    BY <2>3, <2>4 DEF Types
<1>4. CASE \E o \in opening : StartFor(o)
  <2>1. PICK o \in opening : StartFor(o)
    BY <1>4
  <2>2. o.c \in Ids /\ [NoListener EXCEPT !.st = "spawned"] \in Listeners
    <3>1. o \in [c : Conns, dep : {EmptyId, topology}]
      BY DEF Types
    <3> QED
      BY <3>1 DEF Ids, NoListener, Listeners, State
  <2>3. lis' \in [Ids -> Listeners] /\ opening' \subseteq opening
    BY <2>1, <2>2 DEF StartFor, Types
  <2>4. UNCHANGED <<topology, writes, audit, entries, drawn, closing, cancelled, tokens, op, ghost>>
    BY <2>1 DEF StartFor, appVars
  <2> QED
    BY <2>3, <2>4 DEF Types
<1> QED
  BY <1>1, <1>2, <1>3, <1>4 DEF ConnectionNext

LEMMA CommandTypes ==
    ASSUME Types, NEW c \in Conns, NEW types \in Seq(Type), NEW operation \in Operation,
           NEW kind \in OpKind, Command(c, types, operation, kind)
    PROVE  Types' /\ op' \in OpRecs
<1>1. entries[c] \in {EmptyId, topology} /\ topology \in Topology
  BY DEF Command, Types
<1>a. Apply(c, entries[c], types) /\ c \in Conns \cup {None} /\ entries[c] \in Topology \cup {EmptyId, None}
  BY <1>1 DEF Command
<1>2. writes' \in Seq(WriteRecs) /\ New(types) \subseteq Nat
  BY <1>a, WritesApplied
<1>3. Recorded(New(types), "call", operation) \in AuditRecs
  BY <1>2 DEF Recorded, AuditRecs
<1>4. /\ op' \in OpRecs /\ op'.dep = entries[c]
  BY <1>1, <1>2, <1>3 DEF Command, OpRecs
<1>5. UNCHANGED <<topology, audit, entries, drawn, closing, opening, lis, tokens, cancelled, ghost>>
  BY DEF Command, conVars, capVars
<1> QED
  BY <1>1, <1>2, <1>4, <1>5 DEF Types

LEMMA DispatchTypes ==
    ASSUME Types, NEW types \in Seq(Type), NEW operation \in Operation, NEW kind \in OpKind,
           Dispatch(types, operation, kind)
    PROVE  Types' /\ op' \in OpRecs /\ op \in OpRecs /\ op.dep \in {EmptyId, topology}
<1>1. op \in OpRecs /\ op.dep \in {EmptyId, topology} /\ topology \in Topology
  BY DEF Dispatch, Types, Idle
<1>2. op.conn \in Conns /\ op.dep \in Topology \cup {EmptyId}
  BY <1>1 DEF OpRecs
<1>3. writes' \in Seq(WriteRecs) /\ New(types) \subseteq Nat
  BY <1>2, WritesApplied DEF Dispatch
<1>4. Recorded(New(types), "call", operation) \in AuditRecs
  BY <1>3 DEF Recorded, AuditRecs
<1> DEFINE recs == IF operation = None THEN <<>> ELSE <<Recorded(New(types), "call", operation)>>
<1>5. recs \in Seq(AuditRecs)
  BY <1>4
<1>6. op' = [op EXCEPT !.at = "applied", !.ws = New(types), !.kind = kind, !.recs = recs]
  BY DEF Dispatch
<1> HIDE DEF recs
<1>7. op' \in OpRecs /\ op'.dep = op.dep
  BY <1>1, <1>3, <1>5, <1>6 DEF OpRecs
<1>8. ghost' \in GhostRecs
  BY <1>3 DEF Dispatch, Types, GhostRecs
<1>9. UNCHANGED <<topology, audit, entries, drawn, closing, opening, lis, tokens, cancelled>>
  BY DEF Dispatch, conVars, capVars
<1> QED
  BY <1>1, <1>3, <1>7, <1>8, <1>9 DEF Types

(* The calls in one form. *)
AnyCommand ==
    \E c \in Conns, types \in Seq(Type), operation \in Operation, kind \in OpKind :
        Command(c, types, operation, kind)
AnyDispatch ==
    \E types \in Seq(Type), operation \in Operation, kind \in OpKind :
        Dispatch(types, operation, kind)

LEMMA CallForms ==
    ASSUME CommandNext \/ ShellNext
    PROVE  \/ AnyCommand \/ AnyDispatch \/ ShellInsertMany
           \/ \E c \in Conns : InsertManyFails(c) \/ EvalShell(c)
<1>1. /\ {"insert", "update", "delete", "drop_collection", "drop_database", "rename",
          "create_index", "drop_index", None} \subseteq Operation
      /\ {None, "insertOne", "insertMany", "updateOne", "updateMany", "replaceOne", "deleteOne",
          "deleteMany", "collectionDrop", "collectionRename", "indexCreate", "indexDrop"} \subseteq OpKind
      /\ {"insert", "delete", "drop", "dropDatabase", "rename", "createIndexes", "dropIndexes"}
           \subseteq Type
  BY DEF Operation, OpKind, Type
<1>2. CASE CommandNext
  <2>1. PICK c \in Conns :
          \/ InsertDocument(c) \/ UpdateDocuments(c) \/ ReplaceDocument(c) \/ DeleteDocuments(c)
          \/ CreateIndex(c) \/ DropIndex(c) \/ InsertManyDocuments(c) \/ InsertManyFails(c)
          \/ EvalShell(c)
    BY <1>2 DEF CommandNext
  <2>2. CASE InsertDocument(c) \/ CreateIndex(c) \/ DropIndex(c) \/ InsertManyDocuments(c)
    BY <2>2, <1>1, EventTypes DEF InsertDocument, CreateIndex, DropIndex, InsertManyDocuments, AnyCommand
  <2>3. CASE UpdateDocuments(c)
    BY <2>3, <1>1, EventTypes DEF UpdateDocuments, AnyCommand
  <2>4. CASE ReplaceDocument(c)
    BY <2>4, <1>1, EventTypes DEF ReplaceDocument, AnyCommand
  <2>5. CASE DeleteDocuments(c)
    BY <2>5, <1>1, EventTypes DEF DeleteDocuments, AnyCommand
  <2> QED
    BY <2>1, <2>2, <2>3, <2>4, <2>5
<1>3. CASE ShellNext
  <2>1. CASE \/ ShellInsertOne \/ ShellDrop \/ ShellCreateIndex \/ ShellDropIndex \/ ShellRename
             \/ ShellDropDatabase \/ ShellAggregate
    BY <2>1, <1>1, EventTypes
       DEF ShellInsertOne, ShellDrop, ShellCreateIndex, ShellDropIndex, ShellRename,
           ShellDropDatabase, ShellAggregate, AnyDispatch
  <2>2. CASE ShellUpdate \/ ShellDelete \/ ShellRunCommand
    BY <2>2, <1>1, EventTypes DEF ShellUpdate, ShellDelete, ShellRunCommand, AnyDispatch
  <2>3. CASE ShellReplaceOne \/ FindOneAndUpdate \/ FindOneAndDelete \/ FindOneAndReplace
    BY <2>3, <1>1, EventTypes
       DEF ShellReplaceOne, FindOneAndUpdate, FindOneAndDelete, FindOneAndReplace, AnyDispatch
  <2>4. CASE ShellBulkWrite
    BY <2>4, <1>1, EventTypes DEF ShellBulkWrite, AnyDispatch
  <2> QED
    BY <1>3, <2>1, <2>2, <2>3, <2>4 DEF ShellNext
<1> QED
  BY <1>2, <1>3

LEMMA InsertManyTypes ==
    ASSUME Types, ShellInsertMany
    PROVE  Types' /\ op \in OpRecs /\ op.dep \in {EmptyId, topology}
<1>1. op \in OpRecs /\ op.dep \in {EmptyId, topology} /\ topology \in Topology
  BY DEF ShellInsertMany, Types, Idle
<1>2. op.conn \in Conns /\ op.dep \in Topology \cup {EmptyId}
  BY <1>1 DEF OpRecs
<1> DEFINE types == <<"insert", "insert">>
<1>3. types \in Seq(Type)
  BY EventTypes
<1>4. Apply(op.conn, op.dep, types) /\ op' = [op EXCEPT !.at = "applied", !.ws = New(types), !.kind = "insertMany",
                        !.recs = [i \in 1..2 |-> Recorded({Len(writes) + i}, "call", "insert")]]
  BY DEF ShellInsertMany
<1> HIDE DEF types
<1>5. writes' \in Seq(WriteRecs) /\ New(types) \subseteq Nat /\ Len(writes) \in Nat
  BY <1>2, <1>3, <1>4, WritesApplied
<1>6. \A i \in 1..2 : Recorded({Len(writes) + i}, "call", "insert") \in AuditRecs
  BY <1>5 DEF Recorded, AuditRecs, Operation
<1>7. [i \in 1..2 |-> Recorded({Len(writes) + i}, "call", "insert")] \in Seq(AuditRecs)
  BY <1>6
<1>8. op' \in OpRecs /\ op'.dep = op.dep
  BY <1>1, <1>4, <1>5, <1>7 DEF OpRecs, OpKind
<1>9. UNCHANGED <<topology, audit, entries, drawn, closing, opening, lis, tokens, cancelled, ghost>>
  BY DEF ShellInsertMany, conVars, capVars
<1> QED
  BY <1>1, <1>5, <1>8, <1>9 DEF Types

LEMMA RecordTypes ==
    ASSUME Types, RecordCall
    PROVE  /\ Types' /\ op \in OpRecs /\ op.dep \in {EmptyId, topology} /\ Len(op.recs) \in Nat
           /\ Head(op.recs) \in AuditRecs /\ Head(op.recs) = op.recs[1] /\ Len(op.recs) > 0
           /\ Tail(op.recs) \in Seq(AuditRecs) /\ Len(Tail(op.recs)) = Len(op.recs) - 1
           /\ \A i \in 1..(Len(op.recs) - 1) : Tail(op.recs)[i] = op.recs[i + 1]
<1>1. op \in OpRecs /\ op.dep \in {EmptyId, topology} /\ topology \in Topology
  BY DEF RecordCall, Types, Idle
<1>2. op.recs \in Seq(AuditRecs) /\ op.recs # <<>>
  BY <1>1 DEF OpRecs, RecordCall
<1>3. /\ Len(op.recs) \in Nat /\ Len(op.recs) > 0
      /\ Head(op.recs) \in AuditRecs /\ Head(op.recs) = op.recs[1]
      /\ Tail(op.recs) \in Seq(AuditRecs) /\ Len(Tail(op.recs)) = Len(op.recs) - 1
      /\ \A i \in 1..(Len(op.recs) - 1) : Tail(op.recs)[i] = op.recs[i + 1]
  BY <1>2, HeadTailProperties
<1>4. op' \in OpRecs /\ op'.dep = op.dep
  BY <1>1, <1>3 DEF RecordCall, OpRecs
<1>5. audit' \in Seq(AuditRecs)
  <2>1. audit \in Seq(AuditRecs)
    BY DEF Types
  <2>2. audit' = audit \/ audit' = Append(audit, Head(op.recs))
    BY DEF RecordCall
  <2> QED
    BY <1>3, <2>1, <2>2
<1>6. ghost' \in GhostRecs
  <2>1. Head(op.recs).ws \subseteq Nat
    BY <1>3 DEF AuditRecs
  <2>2. ghost' = ghost \/ ghost' = [ghost EXCEPT !.unrecorded = @ \cup Head(op.recs).ws]
    BY DEF RecordCall
  <2>3. ghost \in GhostRecs
    BY DEF Types
  <2> QED
    BY <2>1, <2>2, <2>3 DEF GhostRecs
<1>7. UNCHANGED <<topology, writes, entries, drawn, closing, opening, lis, tokens, cancelled>>
  BY DEF RecordCall, conVars, capVars
<1> QED
  BY <1>1, <1>3, <1>4, <1>5, <1>6, <1>7 DEF Types

LEMMA ReturnTypes ==
    ASSUME Types, CallReturns
    PROVE  Types' /\ op \in OpRecs /\ op.dep \in {EmptyId, topology}
<1>1. op \in OpRecs /\ op.dep \in {EmptyId, topology} /\ topology \in Topology
  BY DEF CallReturns, Types, Idle
<1>2. op' = Idle \/ (op' \in OpRecs /\ op'.dep = op.dep)
  <2> DEFINE entry == [kind |-> op.kind, ws |-> op.ws]
             pushed == IF op.kind = None THEN op.done ELSE Append(op.done, entry)
  <2>1. pushed \in Seq(Pushed)
    <3>1. op.kind \in OpKind /\ op.ws \in SUBSET Nat /\ op.done \in Seq(Pushed)
      BY <1>1 DEF OpRecs
    <3>2. entry \in Pushed
      BY <3>1 DEF Pushed
    <3> HIDE DEF entry
    <3> QED
      BY <3>1, <3>2
  <2>2. \/ op' = Idle
        \/ op' = [op EXCEPT !.at = "script", !.ws = {}, !.recs = <<>>, !.kind = None, !.done = pushed]
    BY DEF CallReturns
  <2> HIDE DEF pushed
  <2>3. None \in OpKind /\ <<>> \in Seq(AuditRecs) /\ {} \in SUBSET Nat
    BY DEF OpKind
  <2> HIDE DEF OpKind
  <2> QED
    BY <1>1, <2>1, <2>2, <2>3 DEF OpRecs
<1>3. ghost' \in GhostRecs
  <2>1. op.ws \subseteq Nat
    BY <1>1 DEF OpRecs
  <2> QED
    BY <2>1 DEF CallReturns, Types, GhostRecs
<1>4. UNCHANGED <<topology, writes, audit, entries, drawn, closing, opening, lis, tokens, cancelled>>
  BY DEF CallReturns, conVars, capVars
<1> QED
  BY <1>1, <1>2, <1>3, <1>4 DEF Types

LEMMA OtherTypes ==
    ASSUME Types,
           \/ \E c \in Conns : InsertManyFails(c) \/ EvalShell(c)
           \/ ShellReturns \/ OtherWrite
    PROVE  Types'
<1>1. CASE \E c \in Conns : InsertManyFails(c)
  <2>1. PICK c \in Conns : InsertManyFails(c)
    BY <1>1
  <2>2. entries[c] \in Topology \cup {EmptyId, None} /\ <<"insert">> \in Seq(Type)
    BY EventTypes DEF Types, Type
  <2>3. writes' \in Seq(WriteRecs)
    BY <2>1, <2>2, WritesApplied DEF InsertManyFails
  <2>4. UNCHANGED <<topology, audit, entries, drawn, closing, opening, lis, tokens, cancelled, ghost, op>>
    BY <2>1 DEF InsertManyFails, conVars, capVars
  <2> QED
    BY <2>3, <2>4 DEF Types
<1>2. CASE \E c \in Conns : EvalShell(c)
  <2>1. PICK c \in Conns : EvalShell(c)
    BY <1>2
  <2>2. entries[c] \in {EmptyId, topology} /\ topology \in Topology
    BY <2>1 DEF Types, EvalShell
  <2>3. op' \in OpRecs /\ op'.dep = entries[c]
    BY <2>1, <2>2 DEF EvalShell, OpRecs, OpKind
  <2>4. UNCHANGED <<topology, writes, audit, entries, drawn, closing, opening, lis, tokens, cancelled, ghost>>
    BY <2>1 DEF EvalShell, conVars, capVars
  <2> QED
    BY <2>2, <2>3, <2>4 DEF Types
<1>3. CASE ShellReturns
  BY <1>3 DEF ShellReturns, Types, conVars, capVars
<1>4. CASE OtherWrite
  <2>1. PICK type \in {"update", "modify"} : Apply(None, None, <<type>>)
    BY <1>4 DEF OtherWrite
  <2>2. <<type>> \in Seq(Type)
    BY EventTypes DEF Type
  <2>3. writes' \in Seq(WriteRecs)
    BY <2>1, <2>2, WritesApplied
  <2>4. UNCHANGED <<topology, audit, entries, drawn, closing, opening, lis, tokens, cancelled, ghost, op>>
    BY <1>4 DEF OtherWrite, conVars, capVars, appVars
  <2> QED
    BY <2>3, <2>4 DEF Types
<1> QED
  BY <1>1, <1>2, <1>3, <1>4

LEMMA RestartTypes ==
    ASSUME Types, Restart
    PROVE  Types'
<1>1. lis' \in [Ids -> Listeners]
  <2>1. NoListener \in Listeners /\ [NoListener EXCEPT !.st = "spawned"] \in Listeners
    BY DEF NoListener, Listeners, State
  <2> QED
    BY <2>1 DEF Restart
<1>2. ghost' \in GhostRecs
  <2>1. ghost \in GhostRecs
    BY DEF Types
  <2> QED
    BY <2>1 DEF Restart, GhostRecs
<1> QED
  BY <1>1, <1>2 DEF Restart, Types

LEMMA ExpiryTypes ==
    ASSUME Types, NEW id \in Ids, TokenExpires(id)
    PROVE  Types'
BY DEF TokenExpires, Types, conVars, appVars

LEMMA NextTypes ==
    ASSUME Types, [Next]_vars
    PROVE  Types'
<1>1. CASE UNCHANGED vars
  BY <1>1 DEF vars, conVars, capVars, appVars, Types
<1>2. CASE ListenerNext
  BY <1>2, ListenerTypes DEF ListenerNext
<1>3. CASE AnyCommand \/ AnyDispatch
  BY <1>3, CommandTypes, DispatchTypes DEF AnyCommand, AnyDispatch
<1> QED
  BY <1>1, <1>2, <1>3, CallForms, ConnectionTypes, InsertManyTypes, RecordTypes, ReturnTypes,
     OtherTypes, RestartTypes, ExpiryTypes DEF Next

-----------------------------------------------------------------------------
(* Connections and their listeners *)

(* A step of the listener of id: it ends as stopped only if it was woken.  *)
ListenerStep(id) ==
    /\ \A j \in Ids : j # id => lis'[j] = lis[j]
    /\ Live(id) /\ lis'[id].st # "none"
    /\ lis'[id].st = "stopped" => id \in cancelled
    /\ UNCHANGED <<topology, writes, entries, drawn, opening, closing, op>>
    /\ cancelled' \subseteq cancelled
    /\ ghost'.acked = ghost.acked /\ ghost'.unrecorded = ghost.unrecorded
    /\ ghost'.unaudited = ghost.unaudited

LEMMA ListenerSteps ==
    ASSUME Types, NEW id \in Ids,
           \/ BeginWatch(id) \/ OpenStream(id) \/ OpenRefused(id) \/ NextEvent(id) \/ SaveToken(id)
           \/ StreamError(id) \/ BackoffOver(id) \/ StreamEnds(id) \/ ExitCancelled(id)
    PROVE  ListenerStep(id)
<1>1. lis \in [Ids -> Listeners] /\ ghost \in GhostRecs
  BY DEF Types
<1>2. UNCHANGED <<topology, writes, entries, drawn, opening, closing, op>>
  BY DEF BeginWatch, OpenStream, OpenRefused, NextEvent, SaveToken, StreamError, BackoffOver,
         StreamEnds, ExitCancelled, conVars, appVars
<1>3. /\ \A j \in Ids : j # id => lis'[j] = lis[j]
      /\ Live(id) /\ lis'[id].st # "none"
      /\ lis'[id].st = "stopped" => id \in cancelled
  BY <1>1 DEF BeginWatch, OpenStream, OpenRefused, NextEvent, SaveToken, StreamError, BackoffOver,
         StreamEnds, ExitCancelled, Live, Listeners
<1>4. /\ ghost'.acked = ghost.acked /\ ghost'.unrecorded = ghost.unrecorded
      /\ ghost'.unaudited = ghost.unaudited
  <2>1. CASE OpenStream(id)
    BY <1>1, <2>1 DEF OpenStream, GhostRecs
  <2>2. CASE NextEvent(id) \/ SaveToken(id)
    BY <1>1, <2>2 DEF NextEvent, SaveToken, GhostRecs
  <2>3. CASE ~OpenStream(id) /\ ~NextEvent(id) /\ ~SaveToken(id)
    BY <2>3 DEF BeginWatch, StreamError, BackoffOver, OpenRefused, StreamEnds, ExitCancelled, DropWakeup
  <2> QED
    BY <2>1, <2>2, <2>3
<1>5. cancelled' \subseteq cancelled
  BY DEF BeginWatch, OpenStream, OpenRefused, NextEvent, SaveToken, StreamError, BackoffOver,
         StreamEnds, ExitCancelled, DropWakeup
<1> QED
  BY <1>2, <1>3, <1>4, <1>5 DEF ListenerStep

LEMMA InitConnInv == Init => ConnInv
<1> SUFFICES ASSUME Init PROVE ConnInv
  OBVIOUS
<1>1. \A c \in Conns : lis[c].st = "none" /\ entries[c] = None
  BY CaptureAssumption DEF Init, Ids, NoListener
<1> QED
  BY <1>1 DEF Init, ConnInv, Fresh, HasListener, SupportsChangeStreams, None

LEMMA ListenerConnInv ==
    ASSUME Types, ConnInv, NEW id \in Ids, ListenerStep(id)
    PROVE  ConnInv'
<1>1. ASSUME NEW c \in Conns, c \notin drawn' PROVE Fresh(c)'
  BY <1>1 DEF ConnInv, ListenerStep, Ids, Live, Fresh
<1>2. ASSUME NEW c \in Conns, c \in closing' \cup cancelled' PROVE entries'[c] = None
  BY <1>2 DEF ConnInv, ListenerStep
<1>3. ASSUME NEW o \in opening' PROVE Opening(o)'
  <2>1. o \in opening /\ Opening(o) /\ o.c \in Conns
    BY <1>3 DEF ConnInv, ListenerStep, Types
  <2>2. o.c # id /\ lis'[o.c] = lis[o.c]
    BY <2>1 DEF Opening, ListenerStep, Live, Ids
  <2> QED
    BY <2>1, <2>2 DEF Opening, ListenerStep
<1>4. \A o, p \in opening' : o.c = p.c => o = p
  BY DEF ConnInv, ListenerStep
<1>5. ASSUME NEW c \in Conns PROVE HasListener(c)'
  <2>1. HasListener(c) /\ c \in Ids /\ (c \in cancelled => entries[c] = None)
    BY DEF ConnInv, Ids
  <2>2. CASE c # id
    BY <2>1, <2>2 DEF HasListener, ListenerStep, SupportsChangeStreams
  <2>3. CASE c = id
    BY <2>1, <2>3 DEF HasListener, ListenerStep, SupportsChangeStreams, None
  <2> QED
    BY <2>2, <2>3
<1> QED
  BY <1>1, <1>2, <1>3, <1>4, <1>5 DEF ConnInv

LEMMA QuietConnInv ==
    ASSUME ConnInv, UNCHANGED <<entries, drawn, opening, closing, lis, cancelled>>
    PROVE  ConnInv'
BY DEF ConnInv, Opening, Fresh, HasListener, SupportsChangeStreams

LEMMA ConnectionConnInv ==
    ASSUME Types, ConnInv, ConnectionNext
    PROVE  ConnInv'
<1>1. ASSUME NEW c \in Conns, OpenConnection(c) PROVE ConnInv'
  <2>1. PICK dep \in FetchDeploymentId :
          /\ entries' = [entries EXCEPT ![c] = dep]
          /\ opening' = opening \cup {[c |-> c, dep |-> dep]}
    BY <1>1 DEF OpenConnection
  <2>2. /\ c \notin drawn /\ drawn' = drawn \cup {c}
        /\ UNCHANGED <<closing, lis, cancelled, ghost>>
    BY <1>1 DEF OpenConnection, capVars
  <2>3. entries'[c] = dep /\ \A d \in Conns : d # c => entries'[d] = entries[d]
    BY <2>1 DEF Types
  <2>4. Fresh(c) /\ \A o \in opening : o.c # c /\ o.c \in Conns
    BY <2>2 DEF ConnInv, Opening, Types
  <2>5. ASSUME NEW o \in opening' PROVE Opening(o)'
    <3>1. CASE o \in opening
      BY <3>1, <2>2, <2>3, <2>4 DEF ConnInv, Opening
    <3>2. CASE o = [c |-> c, dep |-> dep]
      BY <3>2, <2>2, <2>3, <2>4 DEF Opening, Fresh
    <3> QED
      BY <2>1, <3>1, <3>2
  <2>6. \A o, p \in opening' : o.c = p.c => o = p
    BY <2>1, <2>4 DEF ConnInv
  <2>7. \A d \in Conns : d \notin drawn' => Fresh(d)'
    BY <2>2, <2>3 DEF ConnInv, Fresh
  <2>8. \A d \in Conns : d \in closing' \cup cancelled' => entries'[d] = None
    BY <2>2, <2>3, <2>4 DEF ConnInv, Fresh
  <2>9. ASSUME NEW d \in Conns PROVE HasListener(d)'
    <3>1. CASE d = c
      <4>1. [c |-> c, dep |-> dep] \in opening' /\ [c |-> c, dep |-> dep].c = d
        BY <2>1, <3>1
      <4> QED
        BY <4>1 DEF HasListener
    <3>2. CASE d # c
      BY <3>2, <2>1, <2>2, <2>3 DEF ConnInv, HasListener, SupportsChangeStreams
    <3> QED
      BY <3>1, <3>2
  <2> QED
    BY <2>5, <2>6, <2>7, <2>8, <2>9 DEF ConnInv
<1>2. ASSUME NEW c \in Conns, CloseConnection(c) PROVE ConnInv'
  <2>1. /\ closing' = closing \cup {c} /\ \A d \in Conns : d # c => entries'[d] = entries[d]
        /\ entries'[c] = None /\ entries[c] # None
        /\ UNCHANGED <<drawn, opening, lis, cancelled>>
    BY <1>2 DEF CloseConnection, capVars, Types
  <2>2. \A o \in opening : o.c \in Conns
    BY DEF Types
  <2>3. \A o \in opening' : Opening(o)'
    BY <2>1, <2>2 DEF ConnInv, Opening
  <2>4. \A d \in Conns : d \notin drawn' => Fresh(d)'
    BY <2>1 DEF ConnInv, Fresh
  <2>5. \A d \in Conns : d \in closing' \cup cancelled' => entries'[d] = None
    BY <2>1 DEF ConnInv
  <2>6. \A d \in Conns : HasListener(d)'
    BY <2>1 DEF ConnInv, HasListener, SupportsChangeStreams, None
  <2> QED
    BY <2>1, <2>3, <2>4, <2>5, <2>6 DEF ConnInv
<1>3. ASSUME NEW c \in Conns, StopFor(c) PROVE ConnInv'
  <2>1. /\ c \in closing /\ closing' = closing \ {c} /\ UNCHANGED <<entries, drawn, opening, lis>>
        /\ cancelled' \subseteq cancelled \cup {c}
    BY <1>3 DEF StopFor
  <2>2. \A o \in opening' : Opening(o)'
    BY <2>1 DEF ConnInv, Opening
  <2>3. \A d \in Conns : d \notin drawn' => Fresh(d)'
    BY <2>1 DEF ConnInv, Fresh
  <2>4. \A d \in Conns : d \in closing' \cup cancelled' => entries'[d] = None
    BY <2>1 DEF ConnInv
  <2>5. \A d \in Conns : HasListener(d)'
    BY <2>1 DEF ConnInv, HasListener, SupportsChangeStreams
  <2> QED
    BY <2>1, <2>2, <2>3, <2>4, <2>5 DEF ConnInv
<1>4. ASSUME NEW o \in opening, StartFor(o) PROVE ConnInv'
  <2>1. o.c \in Conns /\ o.c \in Ids /\ Opening(o)
    BY DEF Types, ConnInv, Ids
  <2>2. /\ opening' = opening \ {o}
        /\ UNCHANGED <<entries, drawn, closing, cancelled>>
        /\ \A j \in Ids : j # o.c => lis'[j] = lis[j]
        /\ SupportsChangeStreams(o.dep) => lis'[o.c].st = "spawned"
    BY <1>4, <2>1 DEF StartFor, Types, NoListener
  <2>3. \A p \in opening' : p.c # o.c /\ p.c \in Ids
    BY <2>2 DEF ConnInv, Types, Ids
  <2>4. \A p \in opening' : Opening(p)'
    BY <2>2, <2>3 DEF ConnInv, Opening
  <2>5. \A d \in Conns : d \notin drawn' => Fresh(d)'
    BY <2>1, <2>2 DEF ConnInv, Opening, Ids, Fresh
  <2>6. ASSUME NEW d \in Conns PROVE HasListener(d)'
    <3>1. CASE d = o.c
      BY <2>1, <2>2, <3>1 DEF Opening, HasListener, SupportsChangeStreams, None
    <3>2. CASE d # o.c
      <4>1. HasListener(d) /\ lis'[d] = lis[d] /\ entries'[d] = entries[d]
        BY <2>2, <3>2 DEF ConnInv, Ids
      <4>2. \A p \in opening : p.c = d => p \in opening'
        BY <2>2, <3>2
      <4> QED
        BY <4>1, <4>2 DEF HasListener, SupportsChangeStreams
    <3> QED
      BY <3>1, <3>2
  <2> QED
    BY <2>2, <2>4, <2>5, <2>6 DEF ConnInv
<1> QED
  BY <1>1, <1>2, <1>3, <1>4 DEF ConnectionNext

(* A step of a call, or of another client: connections and listeners stay  *)
(* as they are, and at most one record is made, which no listener made.    *)
CallRecorded == audit' = audit \/ \E r \in AuditRecs : r.via = "call" /\ audit' = Append(audit, r)
StreamsQuiet ==
    /\ UNCHANGED <<lis, tokens>> /\ CallRecorded
    /\ ghost'.skipped = ghost.skipped /\ ghost'.unheard = ghost.unheard /\ ghost'.unread = ghost.unread
    /\ ghost'.unsaved = ghost.unsaved /\ ghost'.restarts = ghost.restarts
AppStep ==
    /\ UNCHANGED <<topology, entries, drawn, opening, closing, cancelled>>
    /\ StreamsQuiet

LEMMA AppSteps ==
    ASSUME Types, CallInv,
           \/ UNCHANGED vars \/ CommandNext \/ ShellNext \/ RecordCall \/ CallReturns
           \/ ShellReturns \/ OtherWrite
    PROVE  AppStep
<1>1. ghost \in GhostRecs
  BY DEF Types
<1>2. CASE AnyCommand
  BY <1>2 DEF AnyCommand, Command, conVars, capVars, AppStep, StreamsQuiet, CallRecorded
<1>3. CASE AnyDispatch
  <2>1. PICK types \in Seq(Type), operation \in Operation, kind \in OpKind :
          Dispatch(types, operation, kind)
    BY <1>3 DEF AnyDispatch
  <2>2. ghost' = ghost \/ ghost' = [ghost EXCEPT !.unaudited = @ \cup New(types)]
    BY <2>1 DEF Dispatch
  <2>3. /\ ghost'.skipped = ghost.skipped /\ ghost'.unheard = ghost.unheard
        /\ ghost'.unsaved = ghost.unsaved /\ ghost'.restarts = ghost.restarts
        /\ ghost'.unread = ghost.unread
    BY <1>1, <2>2 DEF GhostRecs
  <2> QED
    BY <2>1, <2>3 DEF Dispatch, conVars, capVars, AppStep, StreamsQuiet, CallRecorded
<1>4. CASE ShellInsertMany
  BY <1>4 DEF ShellInsertMany, conVars, capVars, AppStep, StreamsQuiet, CallRecorded
<1>5. CASE \E c \in Conns : InsertManyFails(c) \/ EvalShell(c)
  BY <1>5 DEF InsertManyFails, EvalShell, conVars, capVars, AppStep, StreamsQuiet, CallRecorded
<1>6. CASE RecordCall
  <2>1. Head(op.recs) \in AuditRecs /\ Head(op.recs).via = "call"
    BY <1>6, RecordTypes DEF RecordCall, CallInv
  <2>2. audit' = audit \/ audit' = Append(audit, Head(op.recs))
    BY <1>6 DEF RecordCall
  <2>3. ghost' = ghost \/ ghost' = [ghost EXCEPT !.unrecorded = @ \cup Head(op.recs).ws]
    BY <1>6 DEF RecordCall
  <2>4. /\ ghost'.skipped = ghost.skipped /\ ghost'.unheard = ghost.unheard
        /\ ghost'.unsaved = ghost.unsaved /\ ghost'.restarts = ghost.restarts
        /\ ghost'.unread = ghost.unread
    BY <1>1, <2>3 DEF GhostRecs
  <2>5. CallRecorded
    BY <2>1, <2>2 DEF CallRecorded
  <2> QED
    BY <1>6, <2>4, <2>5 DEF RecordCall, conVars, capVars, AppStep, StreamsQuiet
<1>7. CASE CallReturns
  <2>1. ghost' = [ghost EXCEPT !.acked = @ \cup op.ws]
    BY <1>7 DEF CallReturns
  <2>2. /\ ghost'.skipped = ghost.skipped /\ ghost'.unheard = ghost.unheard
        /\ ghost'.unsaved = ghost.unsaved /\ ghost'.restarts = ghost.restarts
        /\ ghost'.unread = ghost.unread
    BY <1>1, <2>1 DEF GhostRecs
  <2> QED
    BY <1>7, <2>2 DEF CallReturns, conVars, capVars, AppStep, StreamsQuiet, CallRecorded
<1>8. CASE ShellReturns \/ OtherWrite \/ UNCHANGED vars
  BY <1>8 DEF ShellReturns, OtherWrite, vars, conVars, capVars, AppStep, StreamsQuiet, CallRecorded
<1> QED
  BY <1>2, <1>3, <1>4, <1>5, <1>6, <1>7, <1>8, CallForms

LEMMA RestartConnInv ==
    ASSUME Types, ConnInv, Restart
    PROVE  ConnInv'
<1>1. \A c \in Conns : lis'[c].st = "none" /\ entries'[c] = None
  BY CaptureAssumption DEF Restart, Ids, NoListener
<1>2. opening' = {} /\ closing' = {} /\ cancelled' = {}
  BY DEF Restart
<1> QED
  BY <1>1, <1>2 DEF ConnInv, Fresh, HasListener, SupportsChangeStreams, None

LEMMA NextConnInv ==
    ASSUME Types, CallInv, ConnInv, [Next]_vars
    PROVE  ConnInv'
<1>1. CASE ListenerNext
  BY <1>1, ListenerSteps, ListenerConnInv DEF ListenerNext
<1>2. CASE AppStep
  BY <1>2, QuietConnInv DEF AppStep, StreamsQuiet
<1>3. CASE \E id \in Ids : TokenExpires(id)
  BY <1>3, QuietConnInv DEF TokenExpires, conVars
<1> QED
  BY <1>1, <1>2, <1>3, AppSteps, ConnectionConnInv, RestartConnInv DEF Next

-----------------------------------------------------------------------------
(* The server's log grows, by writes of the connection of the call *)

LogGrows == Len(writes') \in Nat /\ Len(writes) \in Nat /\ Len(writes') >= Len(writes)

(* The writes added are those of an open connection, of the connection of  *)
(* the call under way, or of nobody the application knows.                 *)
LogStep ==
    /\ LogGrows
    /\ \A w \in 1..Len(writes') :
         \/ w \in 1..Len(writes) /\ writes'[w] = writes[w]
         \/ writes'[w].dep = None
         \/ writes'[w].conn \in Conns /\ entries[writes'[w].conn] # None
            /\ writes'[w].dep = entries[writes'[w].conn]
         \/ op.at = "script" /\ writes'[w].conn = op.conn /\ writes'[w].dep = op.dep

LEMMA AppliedLogStep ==
    ASSUME Types, NEW c \in Conns \cup {None}, NEW dep \in Topology \cup {EmptyId, None},
           NEW types \in Seq(Type), Apply(c, dep, types),
           \/ dep = None
           \/ c \in Conns /\ entries[c] # None /\ dep = entries[c]
           \/ op.at = "script" /\ c = op.conn /\ dep = op.dep
    PROVE  LogStep
<1>1. /\ Len(writes) \in Nat /\ Len(types) \in Nat /\ Len(writes') = Len(writes) + Len(types)
      /\ \A w \in 1..Len(writes) : writes'[w] = writes[w]
      /\ \A w \in New(types) : writes'[w].dep = dep /\ writes'[w].conn = c
      /\ \A w \in 1..Len(writes') : w \in 1..Len(writes) \/ w \in New(types)
  BY WritesApplied
<1>2. LogGrows
  BY <1>1 DEF LogGrows
<1> QED
  BY <1>1, <1>2 DEF LogStep

LEMMA NextLogStep ==
    ASSUME Types, [Next]_vars
    PROVE  LogStep
<1>1. CASE writes' = writes
  <2>1. Len(writes) \in Nat
    BY DEF Types
  <2> QED
    BY <1>1, <2>1 DEF LogStep, LogGrows
<1>2. CASE AnyCommand
  <2>1. PICK c \in Conns, types \in Seq(Type), operation \in Operation, kind \in OpKind :
          Command(c, types, operation, kind)
    BY <1>2 DEF AnyCommand
  <2>2. entries[c] \in Topology \cup {EmptyId, None} /\ entries[c] # None /\ Apply(c, entries[c], types)
    BY <2>1 DEF Command, Types
  <2> QED
    BY <2>2, AppliedLogStep
<1>3. CASE AnyDispatch
  <2>1. PICK types \in Seq(Type), operation \in Operation, kind \in OpKind :
          Dispatch(types, operation, kind)
    BY <1>3 DEF AnyDispatch
  <2>2. op \in OpRecs
    BY <2>1, DispatchTypes
  <2>3. /\ op.conn \in Conns /\ op.dep \in Topology \cup {EmptyId, None} /\ op.at = "script"
        /\ Apply(op.conn, op.dep, types)
    BY <2>1, <2>2 DEF Dispatch, OpRecs
  <2> QED
    BY <2>3, AppliedLogStep
<1>4. CASE ShellInsertMany
  <2> DEFINE types == <<"insert", "insert">>
  <2>1. types \in Seq(Type) /\ op \in OpRecs
    BY <1>4, EventTypes, InsertManyTypes
  <2>2. /\ op.conn \in Conns /\ op.dep \in Topology \cup {EmptyId, None} /\ op.at = "script"
        /\ Apply(op.conn, op.dep, types)
    BY <1>4, <2>1 DEF ShellInsertMany, OpRecs
  <2> HIDE DEF types
  <2> QED
    BY <2>1, <2>2, AppliedLogStep
<1>5. CASE \E c \in Conns : InsertManyFails(c)
  <2>1. PICK c \in Conns : InsertManyFails(c)
    BY <1>5
  <2>2. /\ entries[c] \in Topology \cup {EmptyId, None} /\ entries[c] # None
        /\ <<"insert">> \in Seq(Type) /\ Apply(c, entries[c], <<"insert">>)
    BY <2>1, EventTypes DEF Types, Type, InsertManyFails
  <2> QED
    BY <2>2, AppliedLogStep
<1>6. CASE OtherWrite
  <2>1. PICK type \in {"update", "modify"} : Apply(None, None, <<type>>)
    BY <1>6 DEF OtherWrite
  <2>2. <<type>> \in Seq(Type)
    BY EventTypes DEF Type
  <2> QED
    BY <2>1, <2>2, AppliedLogStep
<1>7. \/ AnyCommand \/ AnyDispatch \/ ShellInsertMany \/ OtherWrite \/ writes' = writes
      \/ \E c \in Conns : InsertManyFails(c)
  <2>1. CASE CommandNext \/ ShellNext
    <3>1. (\E c \in Conns : EvalShell(c)) => writes' = writes
      BY DEF EvalShell
    <3> QED
      BY <2>1, <3>1, CallForms
  <2>2. ListenerNext => writes' = writes
    BY DEF ListenerNext, BeginWatch, OpenStream, OpenRefused, NextEvent, SaveToken, StreamError,
           BackoffOver, StreamEnds, ExitCancelled
  <2>3. ConnectionNext => writes' = writes
    BY DEF ConnectionNext, OpenConnection, CloseConnection, StopFor, StartFor
  <2>4. RecordCall \/ CallReturns \/ ShellReturns \/ Restart \/ UNCHANGED vars => writes' = writes
    BY DEF RecordCall, CallReturns, ShellReturns, Restart, vars
  <2>5. (\E id \in Ids : TokenExpires(id)) => writes' = writes
    BY DEF TokenExpires
  <2> QED
    BY <2>1, <2>2, <2>3, <2>4, <2>5 DEF Next
<1> QED
  BY <1>1, <1>2, <1>3, <1>4, <1>5, <1>6, <1>7

(* The deployment ids of connections, and of the call under way. *)
EntriesKept ==
    /\ drawn \subseteq drawn'
    /\ \A c \in drawn : entries'[c] \in {None, entries[c]}
OpKept ==
    \/ op'.at = "idle"
    \/ op.at # "idle" /\ op'.conn = op.conn /\ op'.dep = op.dep
    \/ op'.conn \in Conns /\ entries[op'.conn] # None /\ op'.dep = entries[op'.conn]

LEMMA NextEntriesKept ==
    ASSUME Types, CallInv, ConnInv, [Next]_vars
    PROVE  EntriesKept
<1>0. drawn \subseteq Conns
  BY DEF Types
<1>1. CASE UNCHANGED <<entries, drawn>>
  BY <1>1 DEF EntriesKept
<1>2. ASSUME NEW c \in Conns, OpenConnection(c) PROVE EntriesKept
  BY <1>0, <1>2 DEF OpenConnection, EntriesKept, Types
<1>3. ASSUME NEW c \in Conns, CloseConnection(c) PROVE EntriesKept
  BY <1>0, <1>3 DEF CloseConnection, EntriesKept, Types
<1>4. CASE Restart
  BY <1>0, <1>4 DEF Restart, EntriesKept
<1>5. ListenerNext => UNCHANGED <<entries, drawn>>
  BY DEF ListenerNext, BeginWatch, OpenStream, OpenRefused, NextEvent, SaveToken, StreamError,
         BackoffOver, StreamEnds, ExitCancelled, conVars
<1>6. AppStep => UNCHANGED <<entries, drawn>>
  BY DEF AppStep
<1>7. (\E id \in Ids : TokenExpires(id)) => UNCHANGED <<entries, drawn>>
  BY DEF TokenExpires, conVars
<1>8. (\E c \in Conns : StopFor(c)) \/ (\E o \in opening : StartFor(o)) => UNCHANGED <<entries, drawn>>
  BY DEF StopFor, StartFor
<1> QED
  BY <1>1, <1>2, <1>3, <1>4, <1>5, <1>6, <1>7, <1>8, AppSteps DEF Next, ConnectionNext

LEMMA NextOpKept ==
    ASSUME Types, [Next]_vars
    PROVE  OpKept
<1>1. CASE op' = op
  BY <1>1 DEF OpKept
<1>2. CASE AnyCommand
  BY <1>2 DEF AnyCommand, Command, OpKept
<1>3. CASE AnyDispatch
  <2>1. PICK types \in Seq(Type), operation \in Operation, kind \in OpKind :
          Dispatch(types, operation, kind)
    BY <1>3 DEF AnyDispatch
  <2>2. op \in OpRecs /\ op.at = "script"
    BY <2>1, DispatchTypes DEF Dispatch
  <2>3. op'.conn = op.conn /\ op'.dep = op.dep
    BY <2>1, <2>2 DEF Dispatch, OpRecs
  <2> QED
    BY <2>2, <2>3 DEF OpKept
<1>4. CASE ShellInsertMany
  <2>1. op \in OpRecs /\ op.at = "script"
    BY <1>4, InsertManyTypes DEF ShellInsertMany
  <2>2. op'.conn = op.conn /\ op'.dep = op.dep
    BY <1>4, <2>1 DEF ShellInsertMany, OpRecs
  <2> QED
    BY <2>1, <2>2 DEF OpKept
<1>5. CASE \E c \in Conns : EvalShell(c)
  BY <1>5 DEF EvalShell, OpKept
<1>6. CASE RecordCall
  <2>1. op \in OpRecs /\ op.at = "applied"
    BY <1>6, RecordTypes DEF RecordCall
  <2>2. op'.conn = op.conn /\ op'.dep = op.dep
    BY <1>6, <2>1 DEF RecordCall, OpRecs
  <2> QED
    BY <2>1, <2>2 DEF OpKept
<1>7. CASE CallReturns
  <2>1. op \in OpRecs /\ op.at = "applied"
    BY <1>7, ReturnTypes DEF CallReturns
  <2>2. \/ op' = Idle
        \/ \E pushed : op' = [op EXCEPT !.at = "script", !.ws = {}, !.recs = <<>>,
                                       !.kind = None, !.done = pushed]
    BY <1>7, Zenon DEF CallReturns
  <2>3. \A pushed : LET p == [op EXCEPT !.at = "script", !.ws = {}, !.recs = <<>>,
                                        !.kind = None, !.done = pushed]
                    IN  p.conn = op.conn /\ p.dep = op.dep
    BY <2>1 DEF OpRecs
  <2>4. op' = Idle \/ (op'.conn = op.conn /\ op'.dep = op.dep)
    BY <2>2, <2>3, Zenon
  <2> QED
    BY <2>1, <2>4 DEF OpKept, Idle
<1>8. CASE ShellReturns \/ Restart
  BY <1>8 DEF ShellReturns, Restart, OpKept, Idle
<1>9. (\/ (\E c \in Conns : InsertManyFails(c)) \/ OtherWrite \/ UNCHANGED vars
       \/ (\E id \in Ids : TokenExpires(id))) => op' = op
  BY DEF InsertManyFails, OtherWrite, vars, TokenExpires, appVars
<1>10. ListenerNext => op' = op
  BY DEF ListenerNext, BeginWatch, OpenStream, OpenRefused, NextEvent, SaveToken, StreamError,
         BackoffOver, StreamEnds, ExitCancelled, appVars
<1>11. ConnectionNext => op' = op
  BY DEF ConnectionNext, OpenConnection, CloseConnection, StopFor, StartFor, appVars
<1>12. CASE CommandNext \/ ShellNext
  BY <1>1, <1>2, <1>3, <1>4, <1>5, <1>9, <1>12, CallForms
<1> QED
  BY <1>1, <1>6, <1>7, <1>8, <1>9, <1>10, <1>11, <1>12 DEF Next

LEMMA NextEntryInv ==
    ASSUME Types, CallInv, ConnInv, EntryInv, [Next]_vars
    PROVE  EntryInv'
<1>1. LogStep /\ EntriesKept /\ OpKept
  BY NextLogStep, NextEntriesKept, NextOpKept
<1>2. \A c, dep : Attributed(c, dep) => Attributed(c, dep)'
  BY <1>1 DEF Attributed, EntriesKept
<1>3. \A c \in Conns : entries[c] # None => Attributed(c, entries[c])
  BY DEF ConnInv, Fresh, Attributed
<1>4. ASSUME NEW w \in 1..Len(writes'), writes'[w].dep # None
      PROVE  Attributed(writes'[w].conn, writes'[w].dep)
  BY <1>1, <1>3, <1>4 DEF LogStep, EntryInv
<1>5. op'.at # "idle" => Attributed(op'.conn, op'.dep)
  BY <1>1, <1>3 DEF OpKept, EntryInv
<1> QED
  BY <1>2, <1>4, <1>5 DEF EntryInv, Attributed

-----------------------------------------------------------------------------
(* Tokens, positions and the audit log *)

LEMMA SameAudit ==
    ASSUME audit' = audit
    PROVE  \A id, w : Streamed(id)' = Streamed(id) /\ Times(id, w)' = Times(id, w)
BY DEF Streamed, Times, Places

(* Places in the log stay within it. *)
LEMMA LogRoom ==
    ASSUME Types, LogGrows
    PROVE  \A id \in Ids : /\ tokens[id] <= Len(writes) => tokens[id] <= Len(writes')
                           /\ lis[id].pos <= Len(writes) => lis[id].pos <= Len(writes')
<1>1. \A id \in Ids : tokens[id] \in Nat /\ lis[id].pos \in Nat
  BY DEF Types, Listeners
<1> QED
  BY <1>1 DEF LogGrows

LEMMA QuietStreamInv ==
    ASSUME Types, StreamInv, RepeatInv, StreamsQuiet, LogGrows
    PROVE  StreamInv' /\ RepeatInv'
<1>1. \A id \in Ids : id # "call"
  BY CaptureAssumption DEF Ids
<1>2. \A id \in Ids, w \in Nat : Streamed(id)' = Streamed(id) /\ Times(id, w)' = Times(id, w)
  <2>1. CASE audit' = audit
    BY <2>1, SameAudit
  <2>2. ASSUME NEW r \in AuditRecs, r.via = "call", audit' = Append(audit, r)
        PROVE  \A id \in Ids, w \in Nat : Streamed(id)' = Streamed(id) /\ Times(id, w)' = Times(id, w)
    <3>1. ASSUME NEW id \in Ids PROVE Streamed(id)' = Streamed(id)
      <4>1. \A w : w \in Streamed(id)' <=> w \in Streamed(id)
        BY <1>1, <2>2, RecordAppended
      <4> QED
        BY <4>1
    <3>2. ASSUME NEW id \in Ids, NEW w \in Nat PROVE Times(id, w)' = Times(id, w)
      BY <1>1, <2>2, TimesAppended
    <3> QED
      BY <3>1, <3>2
  <2> QED
    BY <2>1, <2>2 DEF StreamsQuiet, CallRecorded
<1>3. \A id \in Ids : Heard(id)' = Heard(id)
  BY <1>2 DEF Heard, StreamsQuiet
<1>4. StreamInv'
  BY <1>3, LogRoom DEF StreamInv, StreamsQuiet
<1>5. RepeatInv'
  BY <1>2 DEF RepeatInv, StreamsQuiet, Lost
<1> QED
  BY <1>4, <1>5

(* What a listener's step has to show: its own clauses. *)
OwnStream(id) ==
    /\ 1..tokens[id] \subseteq Heard(id) /\ tokens[id] <= Len(writes)
    /\ lis[id].st = "opening" => lis[id].tok \in {0, tokens[id]}
    /\ lis[id].st \in {"watching", "saving"} => lis[id].pos <= Len(writes) /\ 1..lis[id].pos \subseteq Heard(id)
    /\ lis[id].st = "watching" => tokens[id] <= lis[id].pos
    /\ lis[id].st = "saving" => tokens[id] < lis[id].pos

LEMMA OthersStreamInv ==
    ASSUME StreamInv, NEW id \in Ids, OwnStream(id)', writes' = writes,
           \A j \in Ids : j # id =>
             /\ lis'[j] = lis[j] /\ tokens'[j] = tokens[j] /\ Streamed(j)' = Streamed(j)
             /\ ghost'.unheard[j] = ghost.unheard[j] /\ ghost'.skipped[j] = ghost.skipped[j]
             /\ ghost'.unread[j] = ghost.unread[j]
    PROVE  StreamInv'
<1>1. ASSUME NEW j \in Ids, j # id PROVE OwnStream(j)'
  <2>1. Heard(j)' = Heard(j)
    BY <1>1 DEF Heard
  <2> QED
    BY <1>1, <2>1 DEF StreamInv, OwnStream
<1> QED
  BY <1>1 DEF StreamInv, OwnStream

LEMMA InitStreamInv == Init => StreamInv /\ RepeatInv
<1> SUFFICES ASSUME Init PROVE StreamInv /\ RepeatInv
  OBVIOUS
<1>1. \A id \in Ids : tokens[id] = 0 /\ lis[id].st \in {"none", "spawned"}
  BY DEF Init, NoListener
<1>2. 1..0 = {}
  OBVIOUS
<1>3. \A id, w : Places(id, w) = {}
  BY DEF Init, Places
<1>4. \A id, w : Times(id, w) = 0
  BY <1>3, FS_EmptySet DEF Times
<1>5. Lost = 0
  BY DEF Init, GhostInit, Lost
<1>6. StreamInv
  BY <1>1, <1>2 DEF StreamInv, Init
<1>7. RepeatInv
  BY <1>4, <1>5 DEF RepeatInv
<1> QED
  BY <1>6, <1>7

(* The steps of a listener that make no record. *)
LEMMA SilentStreamInv ==
    ASSUME Types, StreamInv, RepeatInv, NEW id \in Ids,
           \/ BeginWatch(id) \/ OpenRefused(id) \/ StreamError(id) \/ BackoffOver(id)
           \/ StreamEnds(id) \/ ExitCancelled(id)
    PROVE  StreamInv' /\ RepeatInv'
<1>1. /\ UNCHANGED <<writes, tokens, audit>> /\ ghost \in GhostRecs /\ lis \in [Ids -> Listeners]
  BY DEF BeginWatch, OpenRefused, StreamError, BackoffOver, StreamEnds, ExitCancelled, Types
<1>2. ghost' = ghost
  BY DEF BeginWatch, OpenRefused, StreamError, BackoffOver, StreamEnds, ExitCancelled, DropWakeup
<1>3. /\ \A j \in Ids : j # id => lis'[j] = lis[j]
      /\ lis[id].st # "saving" /\ lis'[id].st \notin {"watching", "saving"}
      /\ lis'[id].st = "opening" => lis'[id].tok \in {0, tokens[id]}
  BY <1>1 DEF BeginWatch, OpenRefused, StreamError, BackoffOver, StreamEnds, ExitCancelled, Listeners
<1>4. \A j, w : Streamed(j)' = Streamed(j) /\ Times(j, w)' = Times(j, w)
  BY <1>1, SameAudit
<1>5. OwnStream(id)'
  <2>1. Heard(id)' = Heard(id)
    BY <1>2, <1>4 DEF Heard
  <2> QED
    BY <1>1, <1>3, <2>1 DEF OwnStream, StreamInv
<1>6. StreamInv'
  BY <1>1, <1>2, <1>3, <1>4, <1>5, OthersStreamInv
<1>7. RepeatInv'
  BY <1>1, <1>2, <1>3, <1>4 DEF RepeatInv, Lost
<1> QED
  BY <1>6, <1>7

LEMMA OpenStreamInv ==
    ASSUME Types, StreamInv, RepeatInv, NEW id \in Ids, OpenStream(id)
    PROVE  StreamInv' /\ RepeatInv'
<1> DEFINE from == IF lis[id].tok = 0 THEN Len(writes) ELSE lis[id].tok
<1>1. /\ UNCHANGED <<writes, tokens, audit>> /\ ghost \in GhostRecs /\ lis \in [Ids -> Listeners]
      /\ tokens[id] \in Nat /\ Len(writes) \in Nat /\ lis[id].st = "opening" /\ lis[id].tok \in Nat
  BY DEF OpenStream, Types, Listeners
<1>2. lis[id].tok \in {0, tokens[id]} /\ tokens[id] <= Len(writes) /\ 1..tokens[id] \subseteq Heard(id)
  BY <1>1 DEF StreamInv
<1>3. /\ lis' = [lis EXCEPT ![id].st = "watching", ![id].pos = from]
      /\ ghost' = IF lis[id].tok # 0 THEN ghost
                  ELSE IF tokens[id] = 0 THEN [ghost EXCEPT !.skipped[id] = @ \cup (1..from)]
                  ELSE [ghost EXCEPT !.unread[id] = @ \cup (tokens[id] + 1 .. from)]
  BY DEF OpenStream
<1>4. /\ lis'[id].st = "watching" /\ lis'[id].pos = from
      /\ \A j \in Ids : j # id => lis'[j] = lis[j]
  BY <1>1, <1>3 DEF Listeners
<1>5. from \in Nat /\ tokens[id] <= from /\ from <= Len(writes)
  BY <1>1, <1>2
<1>f. lis[id].tok # 0 => from = tokens[id]
  BY <1>2
<1> HIDE DEF from
<1>6. /\ ghost'.unheard = ghost.unheard
      /\ ghost'.unsaved = ghost.unsaved /\ ghost'.restarts = ghost.restarts
      /\ \A j \in Ids : j # id => ghost'.skipped[j] = ghost.skipped[j] /\ ghost'.unread[j] = ghost.unread[j]
      /\ ghost.skipped[id] \subseteq ghost'.skipped[id] /\ ghost.unread[id] \subseteq ghost'.unread[id]
      /\ lis[id].tok = 0 => \/ 1..from \subseteq ghost'.skipped[id]
                            \/ tokens[id] + 1 .. from \subseteq ghost'.unread[id]
  BY <1>1, <1>3 DEF GhostRecs
<1>7. \A j, w : Streamed(j)' = Streamed(j) /\ Times(j, w)' = Times(j, w)
  BY <1>1, SameAudit
<1>8. OwnStream(id)'
  <2>1. /\ Heard(id) \subseteq Heard(id)' /\ ghost'.skipped[id] \subseteq Heard(id)'
        /\ ghost'.unread[id] \subseteq Heard(id)'
    BY <1>6, <1>7 DEF Heard
  <2>2. 1..from \subseteq Heard(id)'
    <3>1. CASE lis[id].tok = 0
      <4>1. 1..from \subseteq (1..tokens[id]) \cup (tokens[id] + 1 .. from)
        BY <1>1, <1>5
      <4> QED
        BY <1>2, <1>6, <2>1, <3>1, <4>1
    <3>2. CASE lis[id].tok # 0
      BY <1>2, <1>f, <2>1, <3>2
    <3> QED
      BY <3>1, <3>2
  <2> QED
    BY <1>1, <1>2, <1>4, <1>5, <2>1, <2>2 DEF OwnStream
<1>9. StreamInv'
  BY <1>1, <1>4, <1>6, <1>7, <1>8, OthersStreamInv
<1>10. RepeatInv'
  BY <1>1, <1>4, <1>6, <1>7 DEF RepeatInv, Lost
<1> QED
  BY <1>9, <1>10

(* The event is recorded, or remembered as not recorded; nothing else was  *)
(* recorded beyond the token without a lost token.                         *)
LEMMA NextEventInv ==
    ASSUME Types, StreamInv, RepeatInv, NEW id \in Ids, NEW w \in Nat, w = lis[id].pos + 1, NextEvent(id)
    PROVE  StreamInv' /\ RepeatInv'
<1> DEFINE operation == EventOp(writes[w].type)
           rcd == Recorded({w}, id, operation)
<1>1. /\ tokens' = tokens /\ writes' = writes /\ ghost \in GhostRecs /\ lis \in [Ids -> Listeners]
      /\ tokens \in [Ids -> Nat] /\ lis[id].st = "watching" /\ lis[id].pos \in Nat
      /\ lis[id].pos < Len(writes) /\ Len(writes) \in Nat
  BY DEF NextEvent, Types, Listeners
<1>2. /\ lis'[id].st = "saving" /\ lis'[id].pos = w
      /\ \A j \in Ids : j # id => lis'[j] = lis[j]
  BY <1>1 DEF NextEvent, Listeners
<1>3. rcd \in AuditRecs /\ rcd.via = id /\ rcd.ws = {w}
  BY <1>1 DEF Recorded, AuditRecs, EventOp, Operation
<1>4. \/ audit' = Append(audit, rcd) /\ ghost' = ghost
      \/ audit' = audit /\ ghost' = [ghost EXCEPT !.unheard[id] = @ \cup {w}]
  BY DEF NextEvent
<1>5. /\ tokens[id] <= lis[id].pos /\ 1..lis[id].pos \subseteq Heard(id)
      /\ 1..tokens[id] \subseteq Heard(id) /\ tokens[id] <= Len(writes)
  BY <1>1 DEF StreamInv
<1>6. w \in Nat /\ w > tokens[id] /\ tokens[id] \in Nat /\ w <= Len(writes)
  BY <1>1, <1>5
<1>7. 1..w = (1..lis[id].pos) \cup {w}
  BY <1>1
<1> HIDE DEF rcd, operation
<1>8. /\ ghost'.skipped = ghost.skipped /\ ghost'.unread = ghost.unread
      /\ ghost'.unsaved = ghost.unsaved /\ ghost'.restarts = ghost.restarts
      /\ \A j \in Ids : j # id => ghost'.unheard[j] = ghost.unheard[j]
      /\ ghost.unheard[id] \subseteq ghost'.unheard[id]
      /\ audit' = audit => w \in ghost'.unheard[id]
  <2>1. CASE ghost' = ghost /\ audit' = Append(audit, rcd)
    <3>1. audit' # audit
      BY <2>1 DEF Types
    <3> QED
      BY <2>1, <3>1
  <2>2. CASE ghost' = [ghost EXCEPT !.unheard[id] = @ \cup {w}]
    BY <1>1, <2>2 DEF GhostRecs
  <2> QED
    BY <1>4, <2>1, <2>2
<1>9. /\ \A j \in Ids : j # id => Streamed(j)' = Streamed(j)
      /\ Streamed(id) \subseteq Streamed(id)' /\ w \in Streamed(id)' \cup ghost'.unheard[id]
  <2>1. CASE audit' = Append(audit, rcd)
    <3>1. \A x, v : v \in Streamed(x)' <=> (v \in Streamed(x) \/ (id = x /\ v = w))
      BY <1>3, <2>1, RecordAppended
    <3>2. ASSUME NEW j \in Ids, j # id PROVE Streamed(j)' = Streamed(j)
      <4>1. \A v : v \in Streamed(j)' <=> v \in Streamed(j)
        BY <3>1, <3>2
      <4> QED
        BY <4>1
    <3> QED
      BY <3>1, <3>2
  <2>2. CASE audit' = audit
    BY <1>8, <2>2, SameAudit
  <2> QED
    BY <1>4, <2>1, <2>2
<1>10. \A j \in Ids, v \in Nat :
         /\ j # id \/ v # w => Times(j, v)' = Times(j, v)
         /\ Times(id, w)' \in {Times(id, w), Times(id, w) + 1}
  <2>1. CASE audit' = Append(audit, rcd)
    BY <1>3, <2>1, TimesAppended
  <2>2. CASE audit' = audit
    BY <2>2, SameAudit
  <2> QED
    BY <1>4, <2>1, <2>2
<1>11. OwnStream(id)'
  <2>1. Heard(id) \cup {w} \subseteq Heard(id)'
    BY <1>8, <1>9 DEF Heard
  <2>2. 1..w \subseteq Heard(id)' /\ 1..tokens[id] \subseteq Heard(id)'
    BY <1>5, <1>7, <2>1
  <2> QED
    BY <1>1, <1>2, <1>5, <1>6, <2>2 DEF OwnStream
<1>12. StreamInv'
  BY <1>1, <1>2, <1>8, <1>9, <1>11, OthersStreamInv
<1>13. RepeatInv'
  <2>1. Lost' = Lost /\ Lost \in Nat
    BY <1>1, <1>8 DEF Lost, GhostRecs
  <2>2. \A j, v : Times(j, v) \in Nat
    BY PlacesCounted
  <2>3. ASSUME NEW j \in Ids, NEW v \in Nat, j # id \/ v # w
        PROVE  /\ Times(j, v)' <= 1 + Lost'
               /\ v > tokens'[j] /\ ~(lis'[j].st = "saving" /\ lis'[j].pos = v) => Times(j, v)' <= Lost'
    <3>1. Times(j, v)' = Times(j, v) /\ Times(j, v) <= 1 + Lost
      BY <1>10, <2>3 DEF RepeatInv
    <3>2. v > tokens[j] /\ ~(lis[j].st = "saving" /\ lis[j].pos = v) => Times(j, v) <= Lost
      BY DEF RepeatInv
    <3>3. ~(lis'[j].st = "saving" /\ lis'[j].pos = v) => ~(lis[j].st = "saving" /\ lis[j].pos = v)
      BY <1>1, <1>2, <2>3
    <3> QED
      BY <1>1, <2>1, <3>1, <3>2, <3>3
  <2>4. Times(id, w)' <= 1 + Lost'
    <3>1. Times(id, w) <= Lost
      BY <1>1, <1>6 DEF RepeatInv
    <3> QED
      BY <1>6, <1>10, <2>1, <2>2, <3>1
  <2> QED
    BY <1>2, <2>3, <2>4 DEF RepeatInv
<1> QED
  BY <1>12, <1>13

LEMMA SaveTokenInv ==
    ASSUME Types, StreamInv, RepeatInv, NEW id \in Ids, SaveToken(id)
    PROVE  StreamInv' /\ RepeatInv'
<1>1. /\ audit' = audit /\ writes' = writes /\ ghost \in GhostRecs /\ lis \in [Ids -> Listeners]
      /\ tokens \in [Ids -> Nat] /\ lis[id].st = "saving" /\ lis[id].pos \in Nat
  BY DEF SaveToken, Types, Listeners
<1>2. /\ lis'[id].st = "watching" /\ lis'[id].pos = lis[id].pos
      /\ \A j \in Ids : j # id => lis'[j] = lis[j]
  BY <1>1 DEF SaveToken, Listeners
<1>3. /\ tokens[id] < lis[id].pos /\ 1..lis[id].pos \subseteq Heard(id) /\ 1..tokens[id] \subseteq Heard(id)
      /\ lis[id].pos <= Len(writes) /\ tokens[id] <= Len(writes)
  BY <1>1 DEF StreamInv
<1>4. \/ tokens' = [tokens EXCEPT ![id] = lis[id].pos] /\ ghost' = ghost
      \/ tokens' = tokens /\ ghost' = [ghost EXCEPT !.unsaved = @ + 1]
  BY DEF SaveToken
<1>5. /\ ghost'.skipped = ghost.skipped /\ ghost'.unheard = ghost.unheard
      /\ ghost'.unread = ghost.unread
  BY <1>1, <1>4 DEF GhostRecs
<1>6. \A j, w : Streamed(j)' = Streamed(j) /\ Times(j, w)' = Times(j, w)
  BY <1>1, SameAudit
<1>7. /\ tokens'[id] \in {tokens[id], lis[id].pos}
      /\ \A j \in Ids : j # id => tokens'[j] = tokens[j]
  BY <1>1, <1>4
<1>8. OwnStream(id)'
  <2>1. Heard(id)' = Heard(id)
    BY <1>5, <1>6 DEF Heard
  <2> QED
    BY <1>1, <1>2, <1>3, <1>7, <2>1 DEF OwnStream
<1>9. StreamInv'
  BY <1>1, <1>2, <1>5, <1>6, <1>7, <1>8, OthersStreamInv
<1>10. RepeatInv'
  <2>1. Lost \in Nat
    BY <1>1 DEF Lost, GhostRecs
  <2>2. \/ tokens'[id] = lis[id].pos /\ Lost' = Lost
        \/ tokens'[id] = tokens[id] /\ Lost' = Lost + 1
    BY <1>1, <1>4 DEF Lost, GhostRecs
  <2>3. \A j, v : Times(j, v) \in Nat
    BY PlacesCounted
  <2>4. ASSUME NEW j \in Ids, NEW v \in Nat
        PROVE  /\ Times(j, v) <= 1 + Lost'
               /\ v > tokens'[j] /\ ~(lis'[j].st = "saving" /\ lis'[j].pos = v) => Times(j, v) <= Lost'
    <3>1. /\ Times(j, v) <= 1 + Lost
          /\ v > tokens[j] /\ ~(lis[j].st = "saving" /\ lis[j].pos = v) => Times(j, v) <= Lost
      BY DEF RepeatInv
    <3>2. CASE j # id
      BY <1>2, <1>7, <2>1, <2>2, <2>3, <3>1, <3>2
    <3>3. CASE j = id
      BY <1>1, <1>3, <2>1, <2>2, <2>3, <3>1, <3>3
    <3> QED
      BY <3>2, <3>3
  <2> QED
    BY <1>6, <2>4 DEF RepeatInv
<1> QED
  BY <1>9, <1>10

LEMMA StartForInv ==
    ASSUME Types, ConnInv, StreamInv, RepeatInv, NEW o \in opening, StartFor(o)
    PROVE  StreamInv' /\ RepeatInv'
<1>1. /\ UNCHANGED <<writes, tokens, audit, ghost>> /\ lis \in [Ids -> Listeners]
      /\ o.c \in Ids /\ lis[o.c].st = "none"
  <2>1. o \in [c : Conns, dep : {EmptyId, topology}]
    BY DEF Types
  <2>2. lis[o.c].st = "none"
    BY DEF ConnInv, Opening
  <2> QED
    BY <2>1, <2>2 DEF StartFor, Types, Ids
<1>2. /\ \A j \in Ids : j # o.c => lis'[j] = lis[j]
      /\ lis'[o.c].st \in {"none", "spawned"}
  BY <1>1 DEF StartFor, NoListener
<1>3. \A j, w : Streamed(j)' = Streamed(j) /\ Times(j, w)' = Times(j, w)
  BY <1>1, SameAudit
<1>4. \A j \in Ids : Heard(j)' = Heard(j)
  BY <1>1, <1>3 DEF Heard
<1>5. StreamInv'
  BY <1>1, <1>2, <1>4 DEF StreamInv
<1>6. RepeatInv'
  BY <1>1, <1>2, <1>3 DEF RepeatInv, Lost
<1> QED
  BY <1>5, <1>6

LEMMA ConnectionStreamInv ==
    ASSUME Types, ConnInv, StreamInv, RepeatInv, ConnectionNext
    PROVE  StreamInv' /\ RepeatInv'
<1>1. ASSUME NEW c \in Conns, OpenConnection(c) \/ CloseConnection(c) \/ StopFor(c)
      PROVE  StreamsQuiet /\ LogGrows
  <2>1. UNCHANGED <<writes, lis, tokens, audit, ghost>> /\ Len(writes) \in Nat
    BY <1>1 DEF OpenConnection, CloseConnection, StopFor, capVars, Types
  <2> QED
    BY <2>1 DEF StreamsQuiet, CallRecorded, LogGrows
<1> QED
  BY <1>1, QuietStreamInv, StartForInv DEF ConnectionNext

(* A restart loses the token of an event being saved: one repetition more. *)
LEMMA RestartStreamInv ==
    ASSUME Types, StreamInv, RepeatInv, Restart
    PROVE  StreamInv' /\ RepeatInv'
<1>1. /\ UNCHANGED <<writes, tokens, audit>> /\ ghost \in GhostRecs /\ tokens \in [Ids -> Nat]
      /\ ghost' = [ghost EXCEPT !.restarts = @ + 1]
  BY DEF Restart, Types
<1>2. \A j \in Ids : lis'[j].st \in {"none", "spawned"}
  BY DEF Restart, NoListener
<1>3. \A j, w : Streamed(j)' = Streamed(j) /\ Times(j, w)' = Times(j, w)
  BY <1>1, SameAudit
<1>4. \A j \in Ids : Heard(j)' = Heard(j)
  BY <1>1, <1>3 DEF Heard, GhostRecs
<1>5. StreamInv'
  BY <1>1, <1>2, <1>4 DEF StreamInv
<1>6. Lost \in Nat /\ Lost' = Lost + 1
  BY <1>1 DEF Lost, GhostRecs
<1>7. ASSUME NEW j \in Ids, NEW v \in Nat
      PROVE  Times(j, v) <= 1 + Lost' /\ Times(j, v) <= Lost'
  <2>1. Times(j, v) <= 1 + Lost /\ Times(j, v) \in Nat
    BY PlacesCounted DEF RepeatInv
  <2> QED
    BY <1>6, <2>1
<1>8. RepeatInv'
  BY <1>3, <1>7 DEF RepeatInv
<1> QED
  BY <1>5, <1>8

LEMMA NextStreamInv ==
    ASSUME Types, CallInv, ConnInv, StreamInv, RepeatInv, [Next]_vars
    PROVE  StreamInv' /\ RepeatInv'
<1>1. CASE ListenerNext
  <2>1. PICK id \in Ids :
          \/ BeginWatch(id) \/ OpenStream(id) \/ OpenRefused(id) \/ NextEvent(id) \/ SaveToken(id)
          \/ StreamError(id) \/ BackoffOver(id) \/ StreamEnds(id) \/ ExitCancelled(id)
    BY <1>1 DEF ListenerNext
  <2>2. lis[id].pos + 1 \in Nat
    BY DEF Types, Listeners
  <2>3. CASE NextEvent(id)
    BY <2>2, <2>3, NextEventInv
  <2> QED
    BY <2>1, <2>3, SilentStreamInv, OpenStreamInv, SaveTokenInv
<1>2. CASE AppStep
  BY <1>2, NextLogStep, QuietStreamInv DEF AppStep, LogStep
<1>3. CASE \E id \in Ids : TokenExpires(id)
  <2>1. StreamsQuiet
    BY <1>3 DEF TokenExpires, StreamsQuiet, CallRecorded
  <2> QED
    BY <2>1, NextLogStep, QuietStreamInv DEF LogStep
<1> QED
  BY <1>1, <1>2, <1>3, AppSteps, ConnectionStreamInv, RestartStreamInv DEF Next

-----------------------------------------------------------------------------
(* Which writes a call records *)

LEMMA InitPathInv == Init => PathInv
<1> SUFFICES ASSUME Init PROVE PathInv
  OBVIOUS
<1>1. audit = <<>> /\ op = Idle /\ ghost.acked = {}
  BY DEF Init, GhostInit
<1>2. Called = {}
  BY <1>1 DEF Called, Streamed
<1>3. \A id \in Ids : lis[id].st \in {"none", "spawned"}
  BY DEF Init, NoListener
<1> QED
  BY <1>1, <1>2, <1>3 DEF PathInv, CallInv, CallCaptured, Idle

(* Writes are only added, and so is what was recorded of them. *)
LEMMA PathKept ==
    ASSUME Types, PathInv, UNCHANGED topology, Len(writes') \in Nat, Len(writes') >= Len(writes),
           \A w \in 1..Len(writes) : writes'[w] = writes[w],
           \A id \in Ids : lis'[id].st \in {"watching", "saving"} =>
             lis[id].st \in {"watching", "saving"} \/ topology # "standalone",
           audit' = audit, CallInv',
           ghost'.acked = ghost.acked, ghost.unrecorded \subseteq ghost'.unrecorded,
           ghost.unaudited \subseteq ghost'.unaudited
    PROVE  PathInv'
<1>1. Called' = Called
  BY SameAudit DEF Called
<1>2. Len(writes) \in Nat
  BY DEF Types
<1>3. CallCaptured'
  BY <1>1, <1>2 DEF PathInv, CallCaptured
<1>4. \A w \in Called' : /\ w \in 1..Len(writes') /\ writes'[w].dep \in {EmptyId, topology}
                         /\ ~SupportsChangeStreams(writes'[w].dep)
  BY <1>1, <1>2 DEF PathInv
<1> QED
  BY <1>2, <1>3, <1>4 DEF PathInv, SupportsChangeStreams

LEMMA SameCall ==
    ASSUME Types, CallInv, UNCHANGED op, Len(writes') \in Nat, Len(writes') >= Len(writes),
           \A w \in 1..Len(writes) : writes'[w] = writes[w], Called \subseteq Called',
           ghost.unrecorded \subseteq ghost'.unrecorded, ghost.unaudited \subseteq ghost'.unaudited
    PROVE  CallInv'
<1>1. Len(writes) \in Nat
  BY DEF Types
<1> QED
  BY <1>1 DEF CallInv, SupportsChangeStreams

(* Steps that leave writes, calls and records alone. *)
LEMMA AlonePathInv ==
    ASSUME Types, PathInv, UNCHANGED <<topology, writes, op, audit>>,
           \A id \in Ids : lis'[id].st \in {"watching", "saving"} =>
             lis[id].st \in {"watching", "saving"} \/ topology # "standalone",
           ghost'.acked = ghost.acked, ghost'.unrecorded = ghost.unrecorded,
           ghost'.unaudited = ghost.unaudited
    PROVE  PathInv'
<1>0. Called' = Called
  BY SameAudit DEF Called
<1>1. Len(writes) \in Nat /\ Called' = Called
  BY <1>0 DEF Types
<1>2. CallInv'
  BY <1>1, SameCall DEF PathInv
<1> QED
  BY <1>1, <1>2, PathKept

LEMMA ListenerPathInv ==
    ASSUME Types, PathInv, NEW id \in Ids,
           \/ BeginWatch(id) \/ OpenStream(id) \/ OpenRefused(id) \/ NextEvent(id) \/ SaveToken(id)
           \/ StreamError(id) \/ BackoffOver(id) \/ StreamEnds(id) \/ ExitCancelled(id)
    PROVE  PathInv'
<1>1. ListenerStep(id)
  BY ListenerSteps
<1>2. lis \in [Ids -> Listeners]
  BY DEF Types
<1>3. \A j \in Ids : lis'[j].st \in {"watching", "saving"} =>
        lis[j].st \in {"watching", "saving"} \/ topology # "standalone"
  <2>1. lis'[id].st \in {"watching", "saving"} =>
          lis[id].st \in {"watching", "saving"} \/ topology # "standalone"
    BY <1>2 DEF BeginWatch, OpenStream, OpenRefused, NextEvent, SaveToken, StreamError, BackoffOver, StreamEnds,
                ExitCancelled, Listeners
  <2> QED
    BY <1>1, <2>1 DEF ListenerStep
<1>4. CASE audit' = audit
  BY <1>1, <1>3, <1>4, AlonePathInv DEF ListenerStep
<1>5. CASE audit' # audit
  <2> DEFINE w == lis[id].pos + 1
             operation == EventOp(writes[w].type)
             rcd == Recorded({w}, id, operation)
  <2>1. NextEvent(id) /\ audit' = Append(audit, rcd) /\ lis[id].st = "watching"
    BY <1>5 DEF BeginWatch, OpenStream, OpenRefused, NextEvent, SaveToken, StreamError, BackoffOver, StreamEnds,
                ExitCancelled
  <2>2. rcd \in AuditRecs /\ rcd.via = id /\ id # "call"
    BY <1>2, CaptureAssumption DEF Recorded, AuditRecs, EventOp, Operation, Listeners, Ids
  <2> HIDE DEF rcd
  <2>3. Called' = Called
    <3>1. \A v : v \in Streamed("call")' <=> v \in Streamed("call")
      BY <2>1, <2>2, RecordAppended
    <3> QED
      BY <3>1 DEF Called
  <2>4. topology # "standalone"
    BY <2>1 DEF PathInv
  <2>5. Len(writes) \in Nat
    BY DEF Types
  <2>6. CallInv'
    BY <1>1, <2>3, <2>5, SameCall DEF PathInv, ListenerStep
  <2>7. CallCaptured'
    BY <1>1, <2>3 DEF PathInv, CallCaptured, ListenerStep
  <2> QED
    BY <1>1, <2>3, <2>4, <2>6, <2>7 DEF PathInv, ListenerStep, SupportsChangeStreams
<1> QED
  BY <1>4, <1>5

LEMMA ConnectionPathInv ==
    ASSUME Types, PathInv, ConnectionNext
    PROVE  PathInv'
<1>1. UNCHANGED <<topology, writes, op, audit>>
  BY DEF ConnectionNext, OpenConnection, CloseConnection, StopFor, StartFor, appVars
<1>2. ghost' = ghost
  BY DEF ConnectionNext, OpenConnection, CloseConnection, StopFor, StartFor
<1>3. \A id \in Ids : lis'[id].st \in {"watching", "saving"} => lis[id].st \in {"watching", "saving"}
  <2>1. CASE lis' = lis
    BY <2>1
  <2>2. CASE lis' # lis
    <3>1. PICK o \in opening : lis' = [lis EXCEPT ![o.c] = [NoListener EXCEPT !.st = "spawned"]]
      BY <2>2 DEF ConnectionNext, OpenConnection, CloseConnection, StopFor, StartFor, capVars
    <3>2. [NoListener EXCEPT !.st = "spawned"].st = "spawned" /\ lis \in [Ids -> Listeners]
      BY DEF NoListener, Types
    <3> QED
      BY <3>1, <3>2
  <2> QED
    BY <2>1, <2>2
<1> QED
  BY <1>1, <1>2, <1>3, AlonePathInv

(* Steps that add writes: what the new call has to show is CallInv. *)
LEMMA AppliedPathInv ==
    ASSUME Types, PathInv, UNCHANGED <<topology, lis, audit>>,
           NEW c \in Conns \cup {None}, NEW dep \in Topology \cup {EmptyId, None},
           NEW types \in Seq(Type), Apply(c, dep, types), CallInv',
           ghost'.acked = ghost.acked, ghost'.unrecorded = ghost.unrecorded,
           ghost.unaudited \subseteq ghost'.unaudited
    PROVE  PathInv'
<1>1. /\ Len(writes) \in Nat /\ Len(types) \in Nat /\ Len(writes') = Len(writes) + Len(types)
      /\ \A w \in 1..Len(writes) : writes'[w] = writes[w]
  BY WritesApplied
<1>2. Len(writes') \in Nat /\ Len(writes') >= Len(writes)
  BY <1>1
<1> QED
  BY <1>1, <1>2, PathKept

LEMMA CommandPathInv ==
    ASSUME Types, PathInv, NEW c \in Conns, NEW types \in Seq(Type), NEW operation \in Operation,
           NEW kind \in OpKind, Command(c, types, operation, kind)
    PROVE  PathInv'
<1>1. entries[c] \in Topology \cup {EmptyId, None} /\ UNCHANGED <<topology, lis, audit, ghost>>
  BY DEF Command, Types, capVars
<1>2. Apply(c, entries[c], types)
  BY DEF Command
<1>a. c \in Conns \cup {None}
  OBVIOUS
<1>b. New(types) \subseteq 1..Len(writes') /\ \A w \in New(types) : writes'[w].dep = entries[c] /\ writes'[w].conn = c
  BY <1>1, <1>2, <1>a, WritesApplied
<1>3. New(types) \subseteq 1..Len(writes') /\ \A w \in New(types) : writes'[w].dep = entries[c]
  BY <1>b
<1>4. /\ op'.at = "applied" /\ op'.ws = New(types) /\ op'.dep = entries[c]
      /\ op'.recs = <<Recorded(New(types), "call", operation)>>
  BY DEF Command
<1>5. /\ Len(op'.recs) = 1 /\ op'.recs[1].via = "call" /\ op'.recs[1].ws = New(types)
  BY <1>4 DEF Recorded
<1>6. CallInv'
  BY <1>3, <1>4, <1>5 DEF CallInv
<1> QED
  BY <1>1, <1>2, <1>6, AppliedPathInv

LEMMA DispatchPathInv ==
    ASSUME Types, PathInv, NEW types \in Seq(Type), NEW operation \in Operation, NEW kind \in OpKind,
           Dispatch(types, operation, kind)
    PROVE  PathInv'
<1>1. op \in OpRecs /\ UNCHANGED <<topology, lis, audit>> /\ ghost \in GhostRecs
  BY DispatchTypes DEF Dispatch, Types, capVars
<1>2. op.conn \in Conns \cup {None} /\ op.dep \in Topology \cup {EmptyId, None} /\ Apply(op.conn, op.dep, types)
  BY <1>1 DEF Dispatch, OpRecs
<1>b. New(types) \subseteq 1..Len(writes') /\ \A w \in New(types) : writes'[w].dep = op.dep /\ writes'[w].conn = op.conn
  BY <1>1, <1>2, WritesApplied
<1>3. New(types) \subseteq 1..Len(writes') /\ \A w \in New(types) : writes'[w].dep = op.dep
  BY <1>b
<1>4. /\ op'.at = "applied" /\ op'.ws = New(types) /\ op'.dep = op.dep
      /\ op'.recs = IF operation = None THEN <<>> ELSE <<Recorded(New(types), "call", operation)>>
  BY <1>1 DEF Dispatch, OpRecs
<1>5. /\ ghost'.acked = ghost.acked /\ ghost'.unrecorded = ghost.unrecorded
      /\ ghost.unaudited \subseteq ghost'.unaudited
      /\ operation = None => New(types) \subseteq ghost'.unaudited
  BY <1>1 DEF Dispatch, GhostRecs
<1>6. CallInv'
  <2>1. CASE operation = None
    BY <1>3, <1>4, <1>5, <2>1 DEF CallInv
  <2>2. CASE operation # None
    <3>1. /\ Len(op'.recs) = 1 /\ op'.recs[1].via = "call" /\ op'.recs[1].ws = New(types)
      BY <1>4, <2>2 DEF Recorded
    <3> QED
      BY <1>3, <1>4, <3>1 DEF CallInv
  <2> QED
    BY <2>1, <2>2
<1> QED
  BY <1>1, <1>2, <1>5, <1>6, AppliedPathInv

LEMMA InsertManyPathInv ==
    ASSUME Types, PathInv, ShellInsertMany
    PROVE  PathInv'
<1> DEFINE types == <<"insert", "insert">>
<1>1. op \in OpRecs /\ UNCHANGED <<topology, lis, audit, ghost>> /\ Len(writes) \in Nat
  BY InsertManyTypes DEF ShellInsertMany, Types, capVars
<1>2. op.conn \in Conns \cup {None} /\ op.dep \in Topology \cup {EmptyId, None} /\ Apply(op.conn, op.dep, types)
  BY <1>1 DEF ShellInsertMany, OpRecs
<1>3. New(types) = {Len(writes) + 1, Len(writes) + 2}
  BY <1>1 DEF New
<1>t. types \in Seq(Type)
  BY EventTypes
<1>4. /\ op'.at = "applied" /\ op'.ws = New(types) /\ op'.dep = op.dep
      /\ op'.recs = [i \in 1..2 |-> Recorded({Len(writes) + i}, "call", "insert")]
  BY <1>1 DEF ShellInsertMany, OpRecs
<1> HIDE DEF types
<1>b. New(types) \subseteq 1..Len(writes') /\ \A w \in New(types) : writes'[w].dep = op.dep /\ writes'[w].conn = op.conn
  BY <1>2, <1>t, WritesApplied
<1>5. New(types) \subseteq 1..Len(writes') /\ \A w \in New(types) : writes'[w].dep = op.dep
  BY <1>b
<1>6. /\ Len(op'.recs) = 2 /\ \A i \in 1..2 : op'.recs[i].via = "call" /\ op'.recs[i].ws = {Len(writes) + i}
  BY <1>4 DEF Recorded
<1>7. \A w \in New(types) : \E i \in 1..2 : w \in op'.recs[i].ws
  BY <1>3, <1>6
<1>8. \A i \in 1..2 : op'.recs[i].ws \subseteq New(types)
  BY <1>1, <1>3, <1>6
<1>9. CallInv'
  BY <1>4, <1>5, <1>6, <1>7, <1>8 DEF CallInv
<1> QED
  BY <1>1, <1>2, <1>t, <1>9, AppliedPathInv

LEMMA RecordPathInv ==
    ASSUME Types, PathInv, RecordCall
    PROVE  PathInv'
<1> DEFINE recs == op.recs
<1>1. /\ op \in OpRecs /\ Len(recs) \in Nat /\ Len(recs) > 0
      /\ Head(recs) \in AuditRecs /\ Head(recs) = recs[1]
      /\ Len(Tail(recs)) = Len(recs) - 1
      /\ \A i \in 1..(Len(recs) - 1) : Tail(recs)[i] = recs[i + 1]
  BY RecordTypes
<1>2. /\ UNCHANGED <<topology, writes, lis>> /\ ghost \in GhostRecs /\ op.at = "applied"
      /\ ~SupportsChangeStreams(op.dep) /\ op.dep \in {EmptyId, topology}
  BY RecordTypes DEF RecordCall, Types, capVars
<1>3. /\ op.ws \subseteq 1..Len(writes) /\ \A w \in op.ws : writes[w].dep = op.dep
      /\ \A i \in 1..Len(recs) : recs[i].via = "call" /\ recs[i].ws \subseteq op.ws
      /\ \A w \in op.ws :
           \/ w \in Called \cup ghost.unrecorded \cup ghost.unaudited
           \/ \E i \in 1..Len(recs) : w \in recs[i].ws
  BY <1>2 DEF PathInv, CallInv
<1>4. op'.at = "applied" /\ op'.ws = op.ws /\ op'.dep = op.dep /\ op'.recs = Tail(recs)
  BY <1>1, <1>2 DEF RecordCall, OpRecs
<1>5. Head(recs).via = "call" /\ Head(recs).ws \subseteq op.ws
  BY <1>1, <1>3
<1>6. \/ audit' = Append(audit, Head(recs)) /\ ghost' = ghost
      \/ audit' = audit /\ ghost' = [ghost EXCEPT !.unrecorded = @ \cup Head(recs).ws]
  BY DEF RecordCall
<1> HIDE DEF recs
<1>7. /\ ghost'.acked = ghost.acked /\ ghost'.unaudited = ghost.unaudited
      /\ ghost.unrecorded \subseteq ghost'.unrecorded
      /\ \/ audit' = Append(audit, Head(recs))
         \/ audit' = audit /\ Head(recs).ws \subseteq ghost'.unrecorded
  BY <1>2, <1>6 DEF GhostRecs
<1>8. /\ Called \subseteq Called' /\ Called' \subseteq Called \cup Head(recs).ws
      /\ Head(recs).ws \subseteq Called' \cup ghost'.unrecorded
  <2>1. CASE audit' = Append(audit, Head(recs))
    <3>1. \A v : v \in Streamed("call")' <=> (v \in Streamed("call") \/ v \in Head(recs).ws)
      BY <1>1, <1>5, <2>1, RecordAppended
    <3> QED
      BY <3>1 DEF Called
  <2>2. CASE audit' = audit /\ Head(recs).ws \subseteq ghost'.unrecorded
    BY <2>2, SameAudit DEF Called
  <2> QED
    BY <1>7, <2>1, <2>2
<1>9. /\ \A i \in 1..Len(op'.recs) : op'.recs[i].via = "call" /\ op'.recs[i].ws \subseteq op.ws
      /\ \A w \in op.ws : \/ w \in Called' \cup ghost'.unrecorded \cup ghost'.unaudited
                          \/ \E i \in 1..Len(op'.recs) : w \in op'.recs[i].ws
  <2>1. \A i \in 1..(Len(recs) - 1) : op'.recs[i] = recs[i + 1] /\ i + 1 \in 1..Len(recs)
    BY <1>1, <1>4
  <2>2. Len(op'.recs) = Len(recs) - 1
    BY <1>1, <1>4
  <2>3. ASSUME NEW w \in op.ws, NEW i \in 1..Len(recs), w \in recs[i].ws
        PROVE  \/ w \in Called' \cup ghost'.unrecorded
               \/ \E k \in 1..Len(op'.recs) : w \in op'.recs[k].ws
    <3>1. CASE i = 1
      BY <1>1, <1>8, <2>3, <3>1
    <3>2. CASE i # 1
      <4>1. i - 1 \in 1..(Len(recs) - 1) /\ (i - 1) + 1 = i
        BY <1>1, <3>2
      <4>2. op'.recs[i - 1] = recs[i]
        BY <2>1, <4>1
      <4> QED
        BY <2>2, <2>3, <4>1, <4>2
    <3> QED
      BY <3>1, <3>2
  <2>4. \A w \in op.ws : \/ w \in Called' \cup ghost'.unrecorded \cup ghost'.unaudited
                         \/ \E i \in 1..Len(op'.recs) : w \in op'.recs[i].ws
    BY <1>3, <1>7, <1>8, <2>3
  <2> QED
    BY <1>3, <2>1, <2>2, <2>4
<1>10. CallInv'
  BY <1>2, <1>3, <1>4, <1>9 DEF CallInv
<1>11. \A w \in Called' :
         w \in 1..Len(writes') /\ writes'[w].dep \in {EmptyId, topology'} /\ ~SupportsChangeStreams(writes'[w].dep)
  BY <1>2, <1>3, <1>5, <1>8 DEF PathInv
<1>12. \A k \in 1..Len(audit') : audit'[k].via # "call" => topology' # "standalone"
  <2>1. CASE audit' = Append(audit, Head(recs))
    <3>1. /\ Len(audit') = Len(audit) + 1 /\ Len(audit) \in Nat
          /\ \A k \in 1..Len(audit) : audit'[k] = audit[k]
          /\ audit'[Len(audit) + 1] = Head(recs)
      BY <1>1, <2>1, RecordAppended
    <3>2. \A k \in 1..Len(audit') : k \in 1..Len(audit) \/ k = Len(audit) + 1
      BY <3>1
    <3> QED
      BY <1>2, <1>5, <3>1, <3>2 DEF PathInv
  <2>2. CASE audit' = audit
    BY <1>2, <2>2 DEF PathInv
  <2> QED
    BY <1>6, <2>1, <2>2
<1>13. CallCaptured'
  BY <1>2, <1>7, <1>8 DEF PathInv, CallCaptured
<1> QED
  BY <1>2, <1>7, <1>10, <1>11, <1>12, <1>13 DEF PathInv, SupportsChangeStreams

LEMMA ReturnPathInv ==
    ASSUME Types, PathInv, CallReturns
    PROVE  PathInv'
<1>1. /\ op \in OpRecs /\ ghost \in GhostRecs /\ op.at = "applied"
      /\ op.recs = <<>> \/ SupportsChangeStreams(op.dep)
      /\ UNCHANGED <<topology, writes, lis, audit>>
  BY ReturnTypes DEF CallReturns, Types, capVars
<1>2. op'.at \in {"idle", "script"}
  <2>1. \/ op' = Idle
        \/ \E pushed : op' = [op EXCEPT !.at = "script", !.ws = {}, !.recs = <<>>,
                                       !.kind = None, !.done = pushed]
    BY Zenon DEF CallReturns
  <2>2. Idle.at = "idle"
    BY DEF Idle
  <2>3. \A pushed : [op EXCEPT !.at = "script", !.ws = {}, !.recs = <<>>,
                               !.kind = None, !.done = pushed].at = "script"
    BY <1>1 DEF OpRecs
  <2> QED
    BY <2>1, <2>2, <2>3, Zenon
<1>3. CallInv' /\ Called' = Called
  BY <1>1, <1>2, SameAudit DEF CallInv, Called
<1>4. /\ ghost'.acked = ghost.acked \cup op.ws
      /\ ghost'.unrecorded = ghost.unrecorded /\ ghost'.unaudited = ghost.unaudited
  BY <1>1 DEF CallReturns, GhostRecs
<1>5. /\ op.ws \subseteq 1..Len(writes)
      /\ \A w \in op.ws : \/ w \in Called \cup ghost.unrecorded \cup ghost.unaudited
                          \/ writes[w].dep \in {"rs", "sharded"}
  BY <1>1 DEF PathInv, CallInv, SupportsChangeStreams
<1>6. CallCaptured'
  BY <1>1, <1>3, <1>4, <1>5 DEF PathInv, CallCaptured, SupportsChangeStreams
<1> QED
  BY <1>1, <1>3, <1>4, <1>5, <1>6 DEF PathInv, SupportsChangeStreams

LEMMA OtherPathInv ==
    ASSUME Types, PathInv,
           \/ \E c \in Conns : InsertManyFails(c) \/ EvalShell(c)
           \/ ShellReturns \/ OtherWrite \/ UNCHANGED vars
    PROVE  PathInv'
<1>0. Len(writes) \in Nat
  BY DEF Types
<1>1. CASE \E c \in Conns : EvalShell(c)
  <2>1. op'.at = "script" /\ UNCHANGED <<topology, writes, lis, audit, ghost>>
    BY <1>1 DEF EvalShell, capVars
  <2> QED
    BY <1>0, <2>1, PathKept DEF CallInv
<1>2. CASE ShellReturns
  <2>1. op'.at = "idle" /\ UNCHANGED <<topology, writes, lis, audit, ghost>>
    BY <1>2 DEF ShellReturns, capVars, Idle
  <2> QED
    BY <1>0, <2>1, PathKept DEF CallInv
<1>3. CASE UNCHANGED vars
  BY <1>3, AlonePathInv DEF vars, capVars, appVars
<1>4. CASE OtherWrite
  <2>1. PICK type \in {"update", "modify"} : Apply(None, None, <<type>>)
    BY <1>4 DEF OtherWrite
  <2> DEFINE types == <<type>>
  <2>2. types \in Seq(Type) /\ Apply(None, None, types)
    BY <2>1, EventTypes DEF Type
  <2> HIDE DEF types
  <2>3. UNCHANGED <<topology, lis, audit, ghost, op>>
    BY <1>4 DEF OtherWrite, capVars, appVars
  <2>4. /\ Len(types) \in Nat /\ Len(writes') = Len(writes) + Len(types)
        /\ \A w \in 1..Len(writes) : writes'[w] = writes[w]
    BY <2>2, WritesApplied
  <2>5. Len(writes') \in Nat /\ Len(writes') >= Len(writes) /\ Called' = Called
    BY <1>0, <2>3, <2>4, SameAudit DEF Called
  <2>6. CallInv'
    BY <2>3, <2>4, <2>5, SameCall DEF PathInv
  <2> QED
    BY <2>3, <2>4, <2>5, <2>6, PathKept
<1>5. CASE \E c \in Conns : InsertManyFails(c)
  <2>1. PICK c \in Conns : InsertManyFails(c)
    BY <1>5
  <2>2. op' = op /\ op = Idle /\ UNCHANGED <<topology, lis, audit, ghost>>
    BY <2>1 DEF InsertManyFails, capVars
  <2>3. entries[c] \in Topology \cup {EmptyId, None} /\ <<"insert">> \in Seq(Type)
    BY EventTypes DEF Types, Type
  <2>4. CallInv'
    BY <2>2 DEF CallInv, Idle
  <2> QED
    BY <2>1, <2>2, <2>3, <2>4, AppliedPathInv DEF InsertManyFails
<1> QED
  BY <1>1, <1>2, <1>3, <1>4, <1>5

LEMMA RestartPathInv ==
    ASSUME Types, PathInv, Restart
    PROVE  PathInv'
<1>1. UNCHANGED <<topology, writes, audit>> /\ op'.at = "idle" /\ Len(writes) \in Nat
  BY DEF Restart, Types, Idle
<1>2. \A id \in Ids : lis'[id].st \in {"none", "spawned"}
  BY DEF Restart, NoListener
<1>3. /\ ghost'.acked = ghost.acked /\ ghost'.unrecorded = ghost.unrecorded
      /\ ghost'.unaudited = ghost.unaudited
  BY DEF Restart, Types, GhostRecs
<1> QED
  BY <1>1, <1>2, <1>3, PathKept DEF CallInv

LEMMA ExpiryPathInv ==
    ASSUME Types, PathInv, NEW id \in Ids, TokenExpires(id)
    PROVE  PathInv'
<1>1. UNCHANGED <<topology, writes, op, audit, lis, ghost>>
  BY DEF TokenExpires, appVars
<1> QED
  BY <1>1, AlonePathInv

LEMMA NextPathInv ==
    ASSUME Types, PathInv, [Next]_vars
    PROVE  PathInv'
<1>1. CASE ListenerNext
  BY <1>1, ListenerPathInv DEF ListenerNext
<1>2. CASE AnyCommand \/ AnyDispatch
  BY <1>2, CommandPathInv, DispatchPathInv DEF AnyCommand, AnyDispatch
<1> QED
  BY <1>1, <1>2, CallForms, ConnectionPathInv, InsertManyPathInv, RecordPathInv, ReturnPathInv,
     OtherPathInv, RestartPathInv, ExpiryPathInv DEF Next

-----------------------------------------------------------------------------
(* Theorems *)

CaptureInv == Types /\ ConnInv /\ EntryInv /\ StreamInv /\ RepeatInv /\ PathInv

LEMMA InitEntryInv == Init => EntryInv
BY DEF Init, EntryInv, Idle

LEMMA CaptureAlways == Spec => []CaptureInv
<1>1. Init => CaptureInv
  BY InitTypes, InitConnInv, InitEntryInv, InitStreamInv, InitPathInv DEF CaptureInv
<1>2. CaptureInv /\ [Next]_vars => CaptureInv'
  BY NextTypes, NextConnInv, NextEntryInv, NextStreamInv, NextPathInv DEF CaptureInv, PathInv
<1> QED
  BY <1>1, <1>2, PTL DEF Spec

(* A listener passes nothing over that it did not read or start behind,    *)
(* and records a write again only for a token that was lost, for any       *)
(* errors, failed saves, restarts and stops: watch_once saves the token    *)
(* after process_event, and run_listener reads it again before each watch. *)
THEOREM StreamsAlwaysTell == Spec => []StreamTellsWrites
<1>1. CaptureInv => StreamTellsWrites
  <2> SUFFICES ASSUME CaptureInv PROVE StreamTellsWrites
    OBVIOUS
  <2>1. ResumeLosesNothing
    BY DEF CaptureInv, StreamInv, Heard, ResumeLosesNothing
  <2>2. DOMAIN writes \subseteq Nat /\ ghost.unsaved \in Nat /\ ghost.restarts \in Nat
    BY DEF CaptureInv, Types, GhostRecs
  <2>3. ASSUME NEW id \in Ids, NEW w \in DOMAIN writes
        PROVE  Cardinality({k \in DOMAIN audit : audit[k].via = id /\ w \in audit[k].ws})
                 <= 1 + ghost.unsaved + ghost.restarts
    <3>1. Times(id, w) <= 1 + Lost /\ Times(id, w) \in Nat
      BY <2>2, PlacesCounted DEF CaptureInv, RepeatInv
    <3>2. Cardinality({k \in DOMAIN audit : audit[k].via = id /\ w \in audit[k].ws}) = Times(id, w)
      BY DEF Times, Places
    <3> QED
      BY <2>2, <3>1, <3>2 DEF Lost
  <2> QED
    BY <2>1, <2>3 DEF StreamTellsWrites, RepeatsOnlyAfterLostToken
<1> QED
  BY <1>1, CaptureAlways, PTL

(* A write the user was told of is recorded by its call, or is read, has   *)
(* been read or was passed over by the listener of its connection as long  *)
(* as that is open, and by one path if the deployment id of the connection *)
(* was read: every command and try_audit ask supports_change_streams       *)
(* before they record, and stop_for comes after clients.remove.            *)
THEOREM WritesAlwaysCaptured == Spec => []WritesCaptured
<1>1. CaptureInv => WritesCaptured
  <2> SUFFICES ASSUME CaptureInv PROVE WritesCaptured
    OBVIOUS
  <2>1. ASSUME NEW w \in Called, NEW id \in Ids, w \in Streamed(id)
        PROVE  writes[w].dep = EmptyId
    <3>1. PICK k \in DOMAIN audit : audit[k].via = id
      BY <2>1, StreamedBy
    <3>2. id # "call" /\ k \in 1..Len(audit)
      BY CaptureAssumption DEF Ids, CaptureInv, Types
    <3>3. topology # "standalone" /\ topology \in {"rs", "sharded", "standalone"}
      BY <3>1, <3>2 DEF CaptureInv, PathInv, Types, Topology
    <3>4. writes[w].dep \in {EmptyId, topology} /\ ~SupportsChangeStreams(writes[w].dep)
      BY DEF CaptureInv, PathInv
    <3> QED
      BY <3>3, <3>4 DEF SupportsChangeStreams
  <2>2. ASSUME NEW w \in ghost.acked, SupportsChangeStreams(writes[w].dep),
               entries[writes[w].conn] # None, ~InFront(writes[w].conn, w)
        PROVE  w \in Heard(writes[w].conn)
    <3> DEFINE c == writes[w].conn
    <3>1. w \in 1..Len(writes) /\ writes[w].dep # None /\ w \in Nat
      BY <2>2 DEF CaptureInv, PathInv, Types, SupportsChangeStreams, None
    <3>2. c \in drawn /\ entries[c] = writes[w].dep /\ c \in Conns /\ c \in Ids
      BY <2>2, <3>1 DEF CaptureInv, EntryInv, Attributed, Types, Ids
    <3>3. HasListener(c) /\ lis[c] \in Listeners
      BY <3>2 DEF CaptureInv, ConnInv, Types
    <3>4. lis[c].st \in {"watching", "saving"} /\ ~(lis[c].pos < w) /\ lis[c].pos \in Nat
      BY <2>2, <3>2, <3>3 DEF HasListener, InFront, Listeners, State
    <3>5. 1..lis[c].pos \subseteq Heard(c)
      BY <3>2, <3>4 DEF CaptureInv, StreamInv
    <3>6. w \in 1..lis[c].pos
      BY <3>1, <3>4
    <3> QED
      BY <3>5, <3>6
  <2>3. AckedCaptured
    <3>1. \A w \in ghost.acked : ~SupportsChangeStreams(writes[w].dep) =>
            w \in Called \cup ghost.unrecorded \cup ghost.unaudited
      BY DEF CaptureInv, PathInv, CallCaptured
    <3> QED
      BY <2>2, <3>1 DEF AckedCaptured, Heard
  <2> QED
    BY <2>1, <2>3 DEF WritesCaptured, OnePathPerWrite
<1> QED
  BY <1>1, CaptureAlways, PTL
=============================================================================
