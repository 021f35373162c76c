----------------------------- MODULE MCTimeline -----------------------------
(***************************************************************************)
(* Timeline and SafeChange for TLC.  A behaviour follows one of two        *)
(* stories: commands that race on the timeline's store, or one user who    *)
(* previews, executes and rolls back while other clients write.            *)
(***************************************************************************)
EXTENDS SafeChange

VARIABLE focus

Document(a, b, p, x) ==
    [f \in AllFields |-> CASE f = "a" -> a [] f = "b" -> b [] f = "p" -> p [] f = "p.x" -> x [] OTHER -> "missing"]
Flat == {Document("n1", b, "missing", "missing") : b \in {"missing", "null", "n2", "[]", "[v]"}}
Nested == {Document("n1", "missing", q[1], q[2]) :
             q \in {<<"missing", "missing">>, <<"{}", "missing">>, <<"{}", "n1">>, <<"{}", "[v]">>, <<"n1", "missing">>}}

\* Two documents of a sort, or fewer; the last _id is left to upserts and other clients.
MCCollections ==
    {c \in [Docs -> Flat \cup {NoDoc}] \cup [Docs -> Nested \cup {NoDoc}] : c[3] = NoDoc}

Updates == {[b |-> op] : op \in UpdateOps} \cup {[a |-> "$set", b |-> "$unset"], [a |-> "$set", b |-> "$inc"]}
           \cup {"p.x" :> op : op \in {"$set", "$unset", "$inc", "$push", "$pull", "$rename"}}
MCRequests ==
    {[kind |-> "updateMany", on |-> "n1", update |-> u, upsert |-> FALSE] : u \in Updates}
    \cup {[kind |-> "updateOne", on |-> "n1", update |-> u, upsert |-> FALSE] : u \in {[b |-> "$set"], [b |-> "$inc"], "p.x" :> "$set"}}
    \cup {[kind |-> k, on |-> "n1", update |-> [x \in {} |-> x], upsert |-> FALSE] : k \in DeleteKinds}
    \cup {[kind |-> "replaceOne", on |-> "n1", update |-> Document("n0", "n0", "{}", "missing"), upsert |-> u] : u \in BOOLEAN}
    \cup {[kind |-> "updateOne", on |-> "n2", update |-> [b |-> "$set"], upsert |-> TRUE]}

Symmetry == Permutations(Tasks) \cup Permutations(Profiles)

\* The kinds of the entries make no difference to the store: one after the other.
RecordSome(t, p) ==
    \/ drawn = 0 /\ RecordRead(t, p) /\ task'[t].entry.kind = "find"
    \/ drawn = 1 /\ RecordWrite(t, p, "insertOne", NoScript)
    \/ drawn = 2 /\ RecordSchema(t, p) /\ task'[t].entry.kind = "indexDrop"
    \/ drawn = 2 /\ RecordBulk(t, p) /\ task'[t].entry.kind = "dump"

MCInit ==
    /\ Init
    /\ focus \in {"store", "change"}
    /\ focus = "store" => data = [i \in Docs |-> NoDoc]

StoreNext ==
    /\ \/ Restart
       \/ \E t \in Tasks : TaskNext(t) \/ Delete(t) \/ UpdateNotes(t)
       \/ \E t \in Tasks : removals = 0 /\ Prune(t)
       \/ \E t \in Tasks, p \in Profiles : RecordSome(t, p)
    /\ UNCHANGED scVars

ChangeNext ==
    \/ \E t \in Tasks : TaskNext(t) /\ faults' = 0 /\ UNCHANGED scVars
    \/ \E req \in Requests : drawn = 0 /\ PreviewCount(req)
    \/ PreviewFind \/ Dismiss \/ OtherWrite \/ ExecuteFails \/ ExecuteRollback
    \/ \E t \in Tasks, p \in Profiles : Execute(t, p)

MCNext == UNCHANGED focus /\ ((focus = "store" /\ StoreNext) \/ (focus = "change" /\ ChangeNext))

MCSpec == MCInit /\ [][MCNext]_<<vars, focus>>
=============================================================================
