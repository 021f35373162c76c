------------------------------ MODULE Capture ------------------------------
(***************************************************************************)
(* How a database write reaches the audit log.  Two paths exist.  On a     *)
(* replica set or a sharded cluster a change-stream listener follows the   *)
(* server and records every event (change_stream.rs); elsewhere the        *)
(* command or shell call that made the write records it itself             *)
(* (interceptor.rs, called from commands/mongo.rs and mongo/shell.rs).     *)
(* The desktop opens and closes connections, each with a listener of its   *)
(* own under a fresh id; the publisher daemon keeps one listener under the *)
(* fixed id Daemon.  Writes are numbered by their place in the server's    *)
(* log, a resume token is such a place, 0 means no token was saved.        *)
(***************************************************************************)
EXTENDS Naturals, Sequences, FiniteSets

CONSTANTS Conns,        \* connection ids the desktop may draw (fresh UUIDs)
          Daemon,       \* the daemon's fixed id, "audit" in the code
          MaxWrites,    \* bound on the server's log
          MaxCalls,     \* bound on commands and shell calls
          MaxFaults     \* bound on restarts, stream errors, failed saves and records

ASSUME CaptureAssumption ==
    /\ Daemon \notin Conns /\ "call" \notin Conns \cup {Daemon}
    /\ MaxWrites \in Nat /\ MaxCalls \in Nat /\ MaxFaults \in Nat

VARIABLES role,        \* "desktop" or "daemon"
          topology,    \* what the server is: "rs", "sharded" or "standalone"
          writes,      \* the server's log: [type, conn, dep] per event
          entries,     \* ClientRegistry: the deployment id of an open connection
          drawn,       \* connection ids drawn so far, never drawn again
          opening,     \* open_connection between clients.insert and start_for: [c, dep]
          closing,     \* close_connection between clients.remove and stop_for
          handles,     \* ChangeStreamRegistry: ids with a handle
          lis,         \* the listener tasks
          cancelled,   \* listeners whose waiting notified() was woken
          tokens,      \* sled: the saved resume token of each id
          expired,     \* ids whose saved token has fallen off the server's oplog
          audit,       \* what was recorded, in order: [ws, via, op]
          op,          \* the write command or shell script being executed
          timeline,    \* the Data Timeline: [kind, ws]
          calls,       \* commands and shell calls so far
          faults,      \* faults so far
          ghost        \* what the properties remember, see GhostInit

conVars == <<entries, drawn, opening, closing>>
capVars == <<handles, lis, cancelled, tokens, expired>>
appVars == <<op, timeline, calls>>
vars == <<role, topology, writes, conVars, capVars, audit, appVars, faults, ghost>>

Ids == Conns \cup {Daemon}
None == "none"
EmptyId == "empty"       \* the deployment id "" of a connection whose hello failed
NoListener == [st |-> "none", tok |-> 0, pos |-> 0]
Idle == [at |-> "idle"]

GhostInit == [skipped |-> [id \in Ids |-> {}],   \* writes before the first stream of an id was open
              unread |-> [id \in Ids |-> {}],    \* writes passed because the saved token was not read
              unheard |-> [id \in Ids |-> {}],   \* writes a stream brought that were not recorded
              unrecorded |-> {},                 \* writes whose call failed to record them
              unsaved |-> 0,                     \* tokens that were not saved
              restarts |-> 0,
              unaudited |-> {},                  \* writes of calls that have no interceptor
              acked |-> {}]                      \* writes whose call returned to the user

----------------------------------------------------------------------------
(* Deployment identity and the choice of the capture path.                 *)

SupportsChangeStreams(dep) == dep \in {"rs", "sharded"}

\* The id derived from hello; the empty id when the command fails.
FetchDeploymentId == {topology, EmptyId}

\* process_event: the operation recorded for an event; expanded events it does not
\* know, and events without the payload, are passed over.
EventOp(type) ==
    CASE type = "insert" -> "insert"
      [] type \in {"update", "replace"} -> "update"
      [] type = "delete" -> "delete"
      [] type = "drop" -> "drop_collection"
      [] type = "dropDatabase" -> "drop_database"
      [] type = "rename" -> "rename"
      [] type = "createIndexes" -> "create_index"
      [] type = "dropIndexes" -> "drop_index"
      [] OTHER -> None

\* record_*(): one event of the audit log per call, for the writes ws.
Recorded(ws, via, operation) == [ws |-> ws, via |-> via, op |-> operation]

----------------------------------------------------------------------------
(* The listener task.  A stop reaches it only while a notified() future of *)
(* its select exists: not before its first select, and not once a stream   *)
(* error or the end of the backoff has dropped the future.                 *)

Listening == {"opening", "watching", "saving", "backoff"}
Live(id) == lis[id].st \notin {"none", "stopped", "ended"}

\* A woken future is dropped before the task saw it: tokio's select takes either of
\* two branches that are ready, and notify_waiters() leaves nothing behind.
DropWakeup(id) == cancelled' = cancelled \ {id} /\ UNCHANGED ghost

\* The head of run_listener's loop: load the latest token, enter the select.  A token
\* that cannot be read is no token.
BeginWatch(id) ==
    /\ lis[id].st \in {"spawned", "retry"}
    /\ \/ lis' = [lis EXCEPT ![id].st = "opening", ![id].tok = tokens[id]] /\ UNCHANGED faults
       \/ /\ tokens[id] > 0 /\ faults < MaxFaults /\ faults' = faults + 1
          /\ lis' = [lis EXCEPT ![id].st = "opening", ![id].tok = 0]
    /\ UNCHANGED <<role, topology, writes, conVars, handles, cancelled, tokens, expired, audit, appVars, ghost>>

\* watch() succeeds: after the token, or at the end of the server's log without one.
OpenStream(id) ==
    /\ lis[id].st = "opening" /\ topology # "standalone"
    /\ lis[id].tok = 0 \/ id \notin expired
    /\ LET from == IF lis[id].tok = 0 THEN Len(writes) ELSE lis[id].tok IN
       /\ lis' = [lis EXCEPT ![id].st = "watching", ![id].pos = from]
       /\ ghost' = IF lis[id].tok # 0 THEN ghost
                   ELSE IF tokens[id] = 0 THEN [ghost EXCEPT !.skipped[id] = @ \cup (1..from)]
                   ELSE [ghost EXCEPT !.unread[id] = @ \cup (tokens[id] + 1 .. from)]
    /\ UNCHANGED <<role, topology, writes, conVars, handles, cancelled, tokens, expired, audit, appVars, faults>>

\* watch() fails each time when the token is older than the oplog.
OpenRefused(id) ==
    /\ lis[id].st = "opening" /\ lis[id].tok # 0 /\ id \in expired
    /\ lis' = [lis EXCEPT ![id].st = "backoff"]
    /\ DropWakeup(id)
    /\ UNCHANGED <<role, topology, writes, conVars, handles, tokens, expired, audit, appVars, faults>>

\* stream.next() and process_event(); the record may fail and nobody is told.
NextEvent(id) ==
    /\ lis[id].st = "watching" /\ lis[id].pos < Len(writes)
    /\ LET w == lis[id].pos + 1
           operation == EventOp(writes[w].type) IN
       /\ lis' = [lis EXCEPT ![id].st = "saving", ![id].pos = w]
       /\ \/ /\ operation # None
             /\ audit' = Append(audit, Recorded({w}, id, operation))
             /\ UNCHANGED <<faults, ghost>>
          \/ /\ operation = None \/ faults < MaxFaults
             /\ faults' = IF operation = None THEN faults ELSE faults + 1
             /\ ghost' = [ghost EXCEPT !.unheard[id] = @ \cup {w}]
             /\ UNCHANGED audit
    /\ UNCHANGED <<role, topology, writes, conVars, handles, cancelled, tokens, expired, appVars>>

\* Mutant: the token of the whole batch received is saved, not that of the event.
SaveToken_Batch(id) ==
    /\ lis[id].st = "saving"
    /\ lis' = [lis EXCEPT ![id].st = "watching"]
    /\ tokens' = [tokens EXCEPT ![id] = Len(writes)] /\ expired' = expired \ {id}
    /\ UNCHANGED <<role, topology, writes, conVars, handles, cancelled, audit, appVars, faults, ghost>>

\* save_resume_token(), whether the event was recorded or not; a failure is only logged.
SaveToken(id) ==
    /\ lis[id].st = "saving"
    /\ lis' = [lis EXCEPT ![id].st = "watching"]
    /\ \/ /\ tokens' = [tokens EXCEPT ![id] = lis[id].pos] /\ expired' = expired \ {id}
          /\ UNCHANGED <<faults, ghost>>
       \/ /\ faults < MaxFaults /\ faults' = faults + 1
          /\ ghost' = [ghost EXCEPT !.unsaved = @ + 1]
          /\ UNCHANGED <<tokens, expired>>
    /\ UNCHANGED <<role, topology, writes, conVars, handles, cancelled, audit, appVars>>

\* The stream cannot be opened or breaks: wait and try again.
StreamError(id) ==
    /\ lis[id].st \in {"opening", "watching"} /\ faults < MaxFaults
    /\ lis' = [lis EXCEPT ![id].st = "backoff"]
    /\ DropWakeup(id)
    /\ faults' = faults + 1
    /\ UNCHANGED <<role, topology, writes, conVars, handles, tokens, expired, audit, appVars>>

\* Mutant: the first error ends the listener.
BackoffOver_GivesUp(id) ==
    /\ lis[id].st = "backoff"
    /\ lis' = [lis EXCEPT ![id].st = "givenUp"]
    /\ DropWakeup(id)
    /\ UNCHANGED <<role, topology, writes, conVars, handles, tokens, expired, audit, appVars, faults>>

BackoffOver(id) ==
    /\ lis[id].st = "backoff"
    /\ lis' = [lis EXCEPT ![id].st = "retry"]
    /\ DropWakeup(id)
    /\ UNCHANGED <<role, topology, writes, conVars, handles, tokens, expired, audit, appVars, faults>>

\* The server closes the stream: run_listener returns, the handle stays registered.
StreamEnds(id) ==
    /\ lis[id].st = "watching" /\ faults < MaxFaults
    /\ lis' = [lis EXCEPT ![id].st = "ended"]
    /\ faults' = faults + 1
    /\ UNCHANGED <<role, topology, writes, conVars, handles, cancelled, tokens, expired, audit, appVars, ghost>>

\* The woken select returns.
ExitCancelled(id) ==
    /\ id \in cancelled /\ lis[id].st \in {"opening", "watching", "backoff"}
    /\ lis' = [lis EXCEPT ![id].st = "stopped"]
    /\ cancelled' = cancelled \ {id}
    /\ UNCHANGED <<role, topology, writes, conVars, handles, tokens, expired, audit, appVars, faults, ghost>>

ListenerNext ==
    \E id \in Ids :
        \/ BeginWatch(id) \/ OpenStream(id) \/ OpenRefused(id) \/ NextEvent(id) \/ SaveToken(id)
        \/ StreamError(id) \/ BackoffOver(id) \/ StreamEnds(id) \/ ExitCancelled(id)

----------------------------------------------------------------------------
(* Connections of the desktop.                                             *)

\* open_connection up to clients.insert and the opened event.
OpenConnection(c) ==
    /\ role = "desktop" /\ c \notin drawn
    /\ drawn' = drawn \cup {c}
    /\ \E dep \in FetchDeploymentId :
          /\ entries' = [entries EXCEPT ![c] = dep]
          /\ opening' = opening \cup {[c |-> c, dep |-> dep]}
    /\ UNCHANGED <<role, topology, writes, closing, capVars, audit, appVars, faults, ghost>>

\* The rest of open_connection: start_for on a deployment that streams.  Discovery may
\* fail afterwards; entry and listener stay.
StartFor(o) ==
    /\ opening' = opening \ {o}
    /\ IF SupportsChangeStreams(o.dep)
       THEN /\ handles' = handles \cup {o.c}
            /\ lis' = [lis EXCEPT ![o.c] = [NoListener EXCEPT !.st = "spawned"]]
       ELSE UNCHANGED <<handles, lis>>
    /\ UNCHANGED <<role, topology, writes, entries, drawn, closing, cancelled, tokens, expired, audit, appVars, faults, ghost>>

\* close_connection: remove the entry, or fail when there is none.
CloseConnection(c) ==
    /\ entries[c] # None
    /\ entries' = [entries EXCEPT ![c] = None]
    /\ closing' = closing \cup {c}
    /\ UNCHANGED <<role, topology, writes, drawn, opening, capVars, audit, appVars, faults, ghost>>

\* The rest of close_connection, stop_for: forget the handle and wake whoever waits.
StopFor(c) ==
    /\ c \in closing
    /\ closing' = closing \ {c}
    /\ handles' = handles \ {c}
    /\ cancelled' = IF c \in handles /\ lis[c].st \in Listening THEN cancelled \cup {c} ELSE cancelled
    /\ UNCHANGED <<role, topology, writes, entries, drawn, opening, lis, tokens, expired, audit, appVars, faults, ghost>>

ConnectionNext ==
    \/ \E c \in Conns : OpenConnection(c) \/ CloseConnection(c) \/ StopFor(c)
    \/ \E o \in opening : StartFor(o)
----------------------------------------------------------------------------
(* Writes.  A command or shell call first changes the server, then records *)
(* in the audit log if its deployment does not stream, then in the         *)
(* timeline.  `types` are the events the change makes on the server: none  *)
(* when nothing matched, an insert when an upsert found nothing.           *)

Apply(c, dep, types) ==
    /\ Len(writes) + Len(types) <= MaxWrites
    /\ writes' = writes \o [i \in DOMAIN types |-> [type |-> types[i], conn |-> c, dep |-> dep]]

New(types) == Len(writes) + 1 .. Len(writes) + Len(types)

\* A command that the driver executed: the record in the audit log comes next.
Command(c, types, operation, kind) ==
    /\ op = Idle /\ entries[c] # None /\ calls < MaxCalls
    /\ Apply(c, entries[c], types)
    /\ calls' = calls + 1
    /\ op' = [at |-> "applied", conn |-> c, dep |-> entries[c], shell |-> FALSE, ws |-> New(types),
              recs |-> <<Recorded(New(types), "call", operation)>>, kind |-> kind, done |-> <<>>]
    /\ UNCHANGED <<role, topology, conVars, capVars, audit, timeline, faults, ghost>>

UpdateEvents == {<<>>, <<"update">>, <<"insert">>}
ReplaceEvents == {<<>>, <<"replace">>, <<"insert">>}
DeleteEvents == {<<>>, <<"delete">>}

InsertDocument(c) == Command(c, <<"insert">>, "insert", "insertOne")

UpdateDocuments(c) ==
    \E types \in UpdateEvents, kind \in {"updateOne", "updateMany"} : Command(c, types, "update", kind)

ReplaceDocument(c) == \E types \in ReplaceEvents : Command(c, types, "update", "replaceOne")

DeleteDocuments(c) ==
    \E types \in DeleteEvents, kind \in {"deleteOne", "deleteMany"} : Command(c, types, "delete", kind)

CreateIndex(c) == Command(c, <<"createIndexes">>, "create_index", "indexCreate")

DropIndex(c) == Command(c, <<"dropIndexes">>, "drop_index", "indexDrop")

\* One record for all documents.
InsertManyDocuments(c) == Command(c, <<"insert", "insert">>, "insert", "insertMany")

\* The driver fails half way: the documents inserted so far stay, and the command
\* returns before it records anything.
InsertManyFails(c) ==
    /\ op = Idle /\ entries[c] # None /\ calls < MaxCalls /\ faults < MaxFaults
    /\ Apply(c, entries[c], <<"insert">>)
    /\ calls' = calls + 1 /\ faults' = faults + 1
    /\ UNCHANGED <<role, topology, conVars, capVars, audit, op, timeline, ghost>>

\* eval_shell: the script runs on the thread of the connection's shell.
EvalShell(c) ==
    /\ op = Idle /\ entries[c] # None
    /\ op' = [at |-> "script", conn |-> c, dep |-> entries[c], shell |-> TRUE, ws |-> {},
              recs |-> <<>>, kind |-> None, done |-> <<>>]
    /\ UNCHANGED <<role, topology, writes, conVars, capVars, audit, timeline, calls, faults, ghost>>

\* One call of the script: operation None has no interceptor, kind None no ShellOperation.
Dispatch(types, operation, kind) ==
    /\ op.at = "script" /\ calls < MaxCalls
    /\ Apply(op.conn, op.dep, types)
    /\ calls' = calls + 1
    /\ op' = [op EXCEPT !.at = "applied", !.ws = New(types), !.kind = kind,
                        !.recs = IF operation = None THEN <<>>
                                 ELSE <<Recorded(New(types), "call", operation)>>]
    /\ ghost' = IF operation = None THEN [ghost EXCEPT !.unaudited = @ \cup New(types)] ELSE ghost
    /\ UNCHANGED <<role, topology, conVars, capVars, audit, timeline, faults>>

ShellInsertOne == Dispatch(<<"insert">>, "insert", "insertOne")
ShellUpdate == \E types \in UpdateEvents, kind \in {"updateOne", "updateMany"} : Dispatch(types, "update", kind)
ShellReplaceOne == \E types \in ReplaceEvents : Dispatch(types, "update", "replaceOne")
ShellDelete == \E types \in DeleteEvents, kind \in {"deleteOne", "deleteMany"} : Dispatch(types, "delete", kind)
ShellDrop == Dispatch(<<"drop">>, "drop_collection", "collectionDrop")
ShellCreateIndex == Dispatch(<<"createIndexes">>, "create_index", "indexCreate")
ShellDropIndex == Dispatch(<<"dropIndexes">>, "drop_index", "indexDrop")
ShellRename == Dispatch(<<"rename">>, "rename", "collectionRename")
ShellDropDatabase == Dispatch(<<"dropDatabase">>, "drop_database", None)
FindOneAndUpdate == \E types \in UpdateEvents : Dispatch(types, "update", "updateOne")
FindOneAndDelete == \E types \in DeleteEvents : Dispatch(types, "delete", "deleteOne")
FindOneAndReplace == \E types \in ReplaceEvents : Dispatch(types, "update", "replaceOne")

\* insertMany records one event per document.
ShellInsertMany ==
    /\ op.at = "script" /\ calls < MaxCalls
    /\ Apply(op.conn, op.dep, <<"insert", "insert">>)
    /\ calls' = calls + 1
    /\ op' = [op EXCEPT !.at = "applied", !.ws = New(<<"insert", "insert">>), !.kind = "insertMany",
                        !.recs = [i \in 1..2 |-> Recorded({Len(writes) + i}, "call", "insert")]]
    /\ UNCHANGED <<role, topology, conVars, capVars, audit, timeline, faults, ghost>>

\* bulkWrite executes and records its operations one by one and pushes no ShellOperation.
ShellBulkWrite ==
    \/ Dispatch(<<"insert">>, "insert", None)
    \/ \E types \in UpdateEvents : Dispatch(types, "update", None)
    \/ \E types \in ReplaceEvents : Dispatch(types, "update", None)
    \/ \E types \in DeleteEvents : Dispatch(types, "delete", None)

\* A write by runCommand, or by an aggregation that ends in $out or $merge, is sent as it
\* is and recorded nowhere.
ShellRunCommand == \E type \in {"insert", "delete"} : Dispatch(<<type>>, None, None)
ShellAggregate == Dispatch(<<"insert">>, None, None)

ShellNext ==
    \/ ShellInsertOne \/ ShellInsertMany \/ ShellUpdate \/ ShellReplaceOne \/ ShellDelete \/ ShellDrop
    \/ ShellCreateIndex \/ ShellDropIndex \/ ShellRename \/ ShellDropDatabase \/ FindOneAndUpdate
    \/ FindOneAndDelete \/ FindOneAndReplace \/ ShellBulkWrite \/ ShellRunCommand \/ ShellAggregate

CommandNext ==
    \E c \in Conns :
        \/ InsertDocument(c) \/ UpdateDocuments(c) \/ ReplaceDocument(c) \/ DeleteDocuments(c)
        \/ CreateIndex(c) \/ DropIndex(c) \/ InsertManyDocuments(c) \/ InsertManyFails(c)
        \/ EvalShell(c)

\* Mutant: the call records on every deployment.
RecordCall_Always ==
    /\ op.at = "applied" /\ op.recs # <<>>
    /\ op' = [op EXCEPT !.recs = Tail(@)]
    /\ audit' = Append(audit, Head(op.recs))
    /\ UNCHANGED <<role, topology, writes, conVars, capVars, timeline, calls, faults, ghost>>

\* One interceptor call of a command or of try_audit, on a deployment that does not
\* stream; a failing record is ignored.
RecordCall ==
    /\ op.at = "applied" /\ op.recs # <<>> /\ ~SupportsChangeStreams(op.dep)
    /\ op' = [op EXCEPT !.recs = Tail(@)]
    /\ \/ audit' = Append(audit, Head(op.recs)) /\ UNCHANGED <<faults, ghost>>
       \/ /\ faults < MaxFaults /\ faults' = faults + 1
          /\ ghost' = [ghost EXCEPT !.unrecorded = @ \cup Head(op.recs).ws]
          /\ UNCHANGED audit
    /\ UNCHANGED <<role, topology, writes, conVars, capVars, timeline, calls>>

\* The rest of the call: the timeline, and the return to the user or to the script.
CallReturns ==
    /\ op.at = "applied" /\ (op.recs = <<>> \/ SupportsChangeStreams(op.dep))
    /\ LET entry == [kind |-> op.kind, ws |-> op.ws]
           pushed == IF op.kind = None THEN op.done ELSE Append(op.done, entry) IN
       IF op.shell
       THEN /\ op' = [op EXCEPT !.at = "script", !.ws = {}, !.recs = <<>>, !.kind = None, !.done = pushed]
            /\ UNCHANGED timeline
       ELSE op' = Idle /\ timeline' = timeline \o pushed
    /\ ghost' = [ghost EXCEPT !.acked = @ \cup op.ws]
    /\ UNCHANGED <<role, topology, writes, conVars, capVars, audit, calls, faults>>

\* The script ends or throws: what it pushed until then goes to the timeline.
ShellReturns ==
    /\ op.at = "script"
    /\ timeline' = timeline \o op.done
    /\ op' = Idle
    /\ UNCHANGED <<role, topology, writes, conVars, capVars, audit, calls, faults, ghost>>

\* Another client writes; an event may be one process_event() does not know.
OtherWrite ==
    /\ \E type \in {"update", "modify"} : Apply(None, None, <<type>>)
    /\ UNCHANGED <<role, topology, conVars, capVars, audit, appVars, faults, ghost>>

\* The oplog is capped: the place of a saved token is overwritten.
TokenExpires(id) ==
    /\ tokens[id] # 0 /\ id \notin expired /\ faults < MaxFaults
    /\ expired' = expired \cup {id} /\ faults' = faults + 1
    /\ UNCHANGED <<role, topology, writes, conVars, handles, lis, cancelled, tokens, audit, appVars, ghost>>

\* The process ends, in the middle of anything, and is started again.  Only the audit
\* log and the tokens survive; the daemon starts its listener under its fixed id.
Restart ==
    /\ faults < MaxFaults /\ faults' = faults + 1
    /\ entries' = [c \in Conns |-> None] /\ opening' = {} /\ closing' = {}
    /\ handles' = IF role = "daemon" THEN {Daemon} ELSE {}
    /\ lis' = [id \in Ids |-> IF id \in handles' THEN [NoListener EXCEPT !.st = "spawned"] ELSE NoListener]
    /\ cancelled' = {}
    /\ op' = Idle
    /\ ghost' = [ghost EXCEPT !.restarts = @ + 1]
    /\ UNCHANGED <<role, topology, writes, drawn, tokens, expired, audit, timeline, calls>>

Init ==
    /\ role \in {"desktop", "daemon"}
    /\ topology \in {"rs", "sharded", "standalone"}
    /\ writes = <<>> /\ audit = <<>> /\ timeline = <<>> /\ calls = 0 /\ faults = 0
    /\ entries = [c \in Conns |-> None] /\ drawn = {} /\ opening = {} /\ closing = {}
    /\ handles = IF role = "daemon" THEN {Daemon} ELSE {}
    /\ lis = [id \in Ids |-> IF id \in handles THEN [NoListener EXCEPT !.st = "spawned"] ELSE NoListener]
    /\ cancelled = {} /\ tokens = [id \in Ids |-> 0] /\ expired = {}
    /\ op = Idle
    /\ ghost = GhostInit

Next == ListenerNext \/ ConnectionNext \/ CommandNext \/ ShellNext \/ RecordCall \/ CallReturns
        \/ ShellReturns \/ OtherWrite \/ Restart \/ \E id \in Ids : TokenExpires(id)

\* Tasks of the runtime are scheduled, and a server that is up opens streams again.
Fairness ==
    /\ \A id \in Ids : WF_vars(BeginWatch(id)) /\ WF_vars(OpenStream(id) \/ OpenRefused(id)) /\ WF_vars(NextEvent(id))
                       /\ WF_vars(SaveToken(id)) /\ WF_vars(BackoffOver(id)) /\ WF_vars(ExitCancelled(id))
    /\ WF_vars(RecordCall) /\ WF_vars(CallReturns) /\ WF_vars(ShellReturns)

Spec == Init /\ [][Next]_vars
FairSpec == Spec /\ Fairness

----------------------------------------------------------------------------
Streamed(id) == UNION {audit[k].ws : k \in {j \in DOMAIN audit : audit[j].via = id}}
Called == Streamed("call")

\* A token is never ahead of the audit log: every write up to the token of an id was
\* recorded by its listener, unless the record failed, the event is of a kind that is not
\* audited, the first stream of the id was opened behind it, or a later one was opened
\* while the saved token could not be read (watch_once saves the token after
\* process_event).
ResumeLosesNothing ==
    \A id \in Ids : 1..tokens[id] \subseteq
        Streamed(id) \cup ghost.unheard[id] \cup ghost.skipped[id] \cup ghost.unread[id]

\* A listener records a write again only if its token was lost, by a failed save or a
\* restart between the record and the save; breaking streams alone repeat nothing.
RepeatsOnlyAfterLostToken ==
    \A id \in Ids, w \in DOMAIN writes :
        Cardinality({k \in DOMAIN audit : audit[k].via = id /\ w \in audit[k].ws})
            <= 1 + ghost.unsaved + ghost.restarts

\* A listener passes nothing over, and repeats only what it could not know it had.
StreamTellsWrites == ResumeLosesNothing /\ RepeatsOnlyAfterLostToken

\* A write through a connection whose deployment is known goes one of the two paths.
OnePathPerWrite ==
    \A w \in Called : (\E id \in Ids : w \in Streamed(id)) => writes[w].dep = EmptyId

\* The listener of an open connection still has write w in front of it, or the server
\* has closed its stream.
InFront(c, w) ==
    \/ \E o \in opening : o.c = c
    \/ lis[c].st \in {"spawned", "opening", "backoff", "retry", "ended"}
    \/ lis[c].st \in {"watching", "saving"} /\ lis[c].pos < w

\* A write the user was told of is captured by the path its connection takes.  Without
\* a stream its call recorded it, unless the record failed or the call has no
\* interceptor.  With one, as long as the connection is open, its listener has
\* recorded the write, failed to, opened its stream behind it, or has it in front: a
\* stop never hits the listener of a connection that stays open.
AckedCaptured ==
    \A w \in ghost.acked :
        LET c == writes[w].conn
        IN  IF ~SupportsChangeStreams(writes[w].dep)
            THEN w \in Called \cup ghost.unrecorded \cup ghost.unaudited
            ELSE \/ entries[c] = None \/ InFront(c, w)
                 \/ w \in Streamed(c) \cup ghost.unheard[c] \cup ghost.skipped[c] \cup ghost.unread[c]

\* A write made through the application is recorded, and by one path.
WritesCaptured == OnePathPerWrite /\ AckedCaptured

\* What change_stream.rs:142-144 says: the two capture paths never both record the same
\* write.  A connection whose hello failed records by its calls, beside the listener
\* of another connection to the same server.
PathsNeverBothRecord == \A w \in Called, id \in Ids : w \notin Streamed(id)

\* What change_stream.rs:157-158 says: a listener that was told to stop exits at the
\* next iteration of its loop.  One that is alive belongs to an open connection, to
\* one whose close is under way, or has been woken.
StopEndsListener == \A c \in Conns : Live(c) => entries[c] # None \/ c \in closing \cup cancelled

\* What the daemon's listener has in front of it is recorded in the end, through errors
\* and restarts, unless the record fails, the server ends the stream, or the saved token
\* is not read or has fallen off the oplog: the listener then tries for ever.
EventuallyCaptured ==
    role = "daemon" /\ topology # "standalone" =>
        \A w \in 1..MaxWrites :
            (tokens[Daemon] > 0 /\ w = tokens[Daemon] + 1 /\ w \in DOMAIN writes)
                ~> \/ w \in Streamed(Daemon) \cup ghost.unheard[Daemon] \cup ghost.unread[Daemon]
                   \/ lis[Daemon].st = "ended" \/ Daemon \in expired

\* "The resume token is preserved in sled so the stream can resume gaplessly if the user
\* reconnects to the same deployment later": once some token was saved, a listener that
\* watches has every later write it passed in the audit log.
GaplessReconnect ==
    \A id \in Ids, old \in Ids :
        lis[id].st = "watching" /\ tokens[old] > 0 =>
            \A w \in tokens[old] + 1 .. lis[id].pos :
                \E any \in Ids : w \in Streamed(any) \cup ghost.unheard[any]
=============================================================================
