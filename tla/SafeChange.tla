----------------------------- MODULE SafeChange -----------------------------
(***************************************************************************)
(* Safe Change Mode and rollback (safe_change.rs, the write commands of    *)
(* commands/mongo.rs, commands/rollback.rs) on top of the timeline.  The   *)
(* user previews a write: the documents it matches are counted, some are   *)
(* captured, the change is simulated on the ones displayed, and a rollback *)
(* plan is made of the captured ones.  Later the write is executed, with   *)
(* whatever the collection holds by then, and recorded with the plan.  A   *)
(* rollback takes the plan out of the timeline and gives it to the shell.  *)
(*                                                                         *)
(* A document is a function from paths to values; "missing" is a field it  *)
(* does not have, NoDoc a document that does not exist.  "p" is a field    *)
(* that may hold a document, "p.x" a field of it.                          *)
(***************************************************************************)
EXTENDS Timeline

CONSTANTS Docs,           \* _ids of the collection
          DisplayLimit,   \* sample_limit: documents shown in the preview
          CaptureLimit,   \* ROLLBACK_CAPTURE_LIMIT, 100 in the code
          Collections,    \* the collections to begin with
          Requests,       \* the writes a user may ask for: [kind, on, update, upsert]
          MaxWrites       \* bound on writes the application knows nothing of

ASSUME SafeChangeAssumption ==
    /\ DisplayLimit \in Nat /\ CaptureLimit \in Nat \ {0} /\ MaxWrites \in Nat

VARIABLES data,     \* the collection
          preview,  \* the preview being made or shown to the user
          others,   \* writes so far of other clients, and of this one that failed half-way
          result,   \* how the last rollback ended
          story     \* entry id -> what the write really did, for the properties

scVars == <<data, preview, others, result, story>>
vars == <<tlVars, scVars>>

Paths == {"a", "b", "p.x"}     \* the paths an update may name
TopLevel == {"a", "b"}
NewName == "c"                 \* what $rename renames to
Note == "__rollback_note"
AllFields == Paths \cup {"p", NewName, Note}
NoDoc == [f \in AllFields |-> "nodoc"]
NoPreview == [st |-> "none"]

UpdateKinds == {"updateOne", "updateMany"}
DeleteKinds == {"deleteOne", "deleteMany"}
OneKinds == {"updateOne", "deleteOne", "replaceOne"}

\* The update operators, each with an argument; "$push each" is $push, or $addToSet, of
\* {$each: [v]}, "$pull if" is $pull with a condition that v fulfils.
UpdateOps == {"$set", "$unset", "$inc", "$mul", "$rename", "$push", "$addToSet", "$push each", "$pull", "$pull if", "$bit"}

\* What a field may hold: nothing, null, a number, an array, a document.
Values == {"missing", "null", "n0", "n1", "n2", "wide", "[]", "[v]", "[v,v]", "{}"}
Documents == {d \in [AllFields -> Values] : d["p.x"] # "missing" => d["p"] = "{}"}

\* An update names operators for some paths (the server refuses one that names a path
\* twice), a replacement is a document.
IsUpdate(update) ==
    /\ DOMAIN update \subseteq Paths /\ \A f \in DOMAIN update : update[f] \in UpdateOps
    /\ \A f, g \in DOMAIN update : update[f] = "$rename" /\ update[g] = "$rename" => f = g
ASSUME RequestsAssumption ==
    /\ IsFiniteSet(Docs)
    /\ \A c \in Collections : c \in [Docs -> Documents \cup {NoDoc}]
    /\ \A r \in Requests :
          /\ r.kind \in UpdateKinds \cup DeleteKinds \cup {"replaceOne"} /\ r.on \in Values \cup {"all"}
          /\ r.kind \in UpdateKinds => IsUpdate(r.update)
          /\ r.kind = "replaceOne" => r.update \in Documents
          /\ r.kind \in DeleteKinds => ~r.upsert

\* The filter of a request: every document, or the ones with a certain value of "a".
Matches(on, d) == d # NoDoc /\ (on = "all" \/ d["a"] = on)
Matched(on) == {i \in Docs : Matches(on, data[i])}

----------------------------------------------------------------------------
(* What an update operator does to a value: by the server, and by          *)
(* simulate_update().  "n0" to "n2" are numbers, the last the largest of   *)
(* its width, "wide" one beyond it; "[e]" is an array that got a document  *)
(* {$each: ..} as an element.  "error" refuses the update.                 *)

Plus == [missing |-> "n1", n0 |-> "n1", n1 |-> "n2", wide |-> "wide"]
Numbers == {"n0", "n1", "n2", "wide"}
WithElement(v, e) == CASE v \in {"missing", "[]"} -> IF e = "v" THEN "[v]" ELSE "[e]"
                   [] v = "[v]" -> IF e = "v" THEN "[v,v]" ELSE "[v,e]"
                   [] OTHER -> "error"

\* External: the server's update operators.  It refuses null where a number or an array
\* is asked for, and widens a number that overflows.
ServerValue(op, v) ==
    CASE op = "$set" -> "n0"
      [] op = "$unset" -> "missing"
      [] op = "$inc" -> IF v \in DOMAIN Plus THEN Plus[v] ELSE IF v = "n2" THEN "wide" ELSE "error"
      [] op = "$mul" -> IF v \in {"missing"} \cup Numbers THEN "n0" ELSE "error"
      [] op \in {"$push", "$push each"} -> WithElement(v, "v")
      [] op = "$addToSet" -> IF v = "[v]" THEN v ELSE WithElement(v, "v")
      [] op \in {"$pull", "$pull if"} -> IF v \in {"[]", "[v]", "[v,v]"} THEN "[]" ELSE IF v = "missing" THEN v ELSE "error"
      [] op = "$bit" -> IF v \in Numbers THEN "n0" ELSE "error"
      [] OTHER -> v

\* simulate_update(), one operator on one field: inc_nested() to pull_from_array().  A missing
\* field counts as null for $inc and $mul, an argument of $push, $addToSet and $pull is
\* taken for the element itself, $pull skips what is no array, and other operators only
\* make a warning.
SimulatedValue(op, v) ==
    CASE op = "$set" -> "n0"
      [] op = "$unset" -> "missing"
      [] op = "$inc" -> IF v = "null" THEN "n1" ELSE IF v \in DOMAIN Plus THEN Plus[v] ELSE "error"
      [] op = "$mul" -> IF v \in {"missing", "null"} \cup Numbers THEN "n0" ELSE "error"
      [] op = "$push" -> WithElement(v, "v")
      [] op = "$push each" -> WithElement(v, "e")
      [] op = "$addToSet" -> IF v = "[v]" THEN v ELSE WithElement(v, "v")
      [] op = "$pull" -> IF v \in {"[]", "[v]", "[v,v]"} THEN "[]" ELSE v
      [] OTHER -> v

\* The operators that make a field there was not, with set_nested(): the document above it
\* is made too; where something else is in its place, they are refused.
Creating == {"$set", "$inc", "$mul", "$push", "$addToSet", "$push each"}
Creates(update) == "p.x" \in DOMAIN update /\ update["p.x"] \in Creating
Blocked(d) == d["p"] \notin {"missing", "{}"}

\* The paths among the given ones whose value moves to the new name.
Moved(update, d, paths) == {f \in DOMAIN update \cap paths : update[f] = "$rename" /\ d[f] # "missing"}

\* The document with the new values at the paths of an update and some fields renamed.
Changed(update, d, new, moved) ==
    [f \in AllFields |->
        CASE f \in moved -> "missing"
          [] f \in DOMAIN update \ moved -> IF f = "p.x" /\ Creates(update) /\ Blocked(d) THEN "error" ELSE new[f]
          [] f = "p" -> IF Creates(update) /\ d[f] = "missing" THEN "{}" ELSE d[f]
          [] f = NewName /\ moved # {} -> d[CHOOSE g \in moved : TRUE]
          [] OTHER -> d[f]]

\* simulate_update(); rename_field() knows the names of the document itself.
Simulate(update, d) ==
    Changed(update, d, [f \in DOMAIN update |-> SimulatedValue(update[f], d[f])], Moved(update, d, TopLevel))

\* External: the server applies an update, and $rename to any path.
ServerUpdate(update, d) ==
    Changed(update, d, [f \in DOMAIN update |-> ServerValue(update[f], d[f])], Moved(update, d, Paths))
Refused(d) == \E f \in AllFields : d[f] = "error"

----------------------------------------------------------------------------
(* The rollback plan.  An inverse says for each field: keep it, unset it,  *)
(* or set it to a value.                                                   *)

\* apply_inverse_update(): $set restores the old value or unsets a field that was added;
\* $unset restores the old value, null if there was none; any other operator only leaves
\* a note in the document.
InverseUpdate(update, d) ==
    [f \in AllFields |->
        IF f = Note THEN IF \E g \in DOMAIN update : update[g] \notin {"$set", "$unset"} THEN "manual" ELSE "keep"
        ELSE IF f \notin DOMAIN update \/ update[f] \notin {"$set", "$unset"} THEN "keep"
        ELSE IF d[f] # "missing" THEN d[f]
        ELSE IF update[f] = "$set" THEN "unset" ELSE "null"]

\* invert_update_metadata(): without captured documents, by the operators alone.
InvertMetadata(update) ==
    [f \in AllFields |-> IF f \notin DOMAIN update THEN "keep"
                         ELSE IF update[f] = "$set" THEN "unset"
                         ELSE IF update[f] = "$unset" THEN "null" ELSE "keep"]

\* External: the server sets and unsets; with a field of "p" it makes "p", where it can.
Undo(inverse, d) ==
    LET makes == inverse["p.x"] \notin {"keep", "unset"} IN
    IF makes /\ Blocked(d) THEN d
    ELSE [f \in AllFields |-> CASE f = "p" /\ makes -> "{}"
                               [] inverse[f] = "keep" -> d[f]
                               [] inverse[f] = "unset" -> "missing"
                               [] OTHER -> inverse[f]]

\* The first document of a cursor, if it returned any.
First(ids) == IF ids = {} THEN {} ELSE {CHOOSE i \in ids : TRUE}

\* generate_rollback_script(): captured is a function from _ids to documents.
Plan(req, captured) ==
    IF req.kind \in UpdateKinds
    THEN IF DOMAIN captured = {}
         THEN [op |-> "updateMany", on |-> req.on, docs |-> InvertMetadata(req.update)]
         ELSE [op |-> "bulkWrite", on |-> "all",
               docs |-> [i \in DOMAIN captured |-> InverseUpdate(req.update, captured[i])]]
    ELSE IF req.kind \in DeleteKinds THEN [op |-> "insertMany", on |-> "all", docs |-> captured]
    ELSE [op |-> "replaceOne", on |-> "all", docs |-> Restrict(captured, First(DOMAIN captured))]

\* What the plan asks for, as a reader of it would execute it on the collection c.
\* insertMany stops at the first _id that exists.
Executed(plan, c) ==
    CASE plan.op = "updateMany" ->
            [i \in Docs |-> IF Matches(plan.on, c[i]) THEN Undo(plan.docs, c[i]) ELSE c[i]]
      [] plan.op = "bulkWrite" ->
            [i \in Docs |-> IF i \in DOMAIN plan.docs /\ c[i] # NoDoc THEN Undo(plan.docs[i], c[i]) ELSE c[i]]
      [] plan.op = "insertMany" ->
            IF \E i \in DOMAIN plan.docs : c[i] # NoDoc THEN c
            ELSE [i \in Docs |-> IF i \in DOMAIN plan.docs THEN plan.docs[i] ELSE c[i]]
      [] plan.op = "replaceOne" ->
            [i \in Docs |-> IF i \in DOMAIN plan.docs /\ c[i] # NoDoc THEN plan.docs[i] ELSE c[i]]

----------------------------------------------------------------------------
(* Preview and execution.                                                  *)

\* preview_operation(), count_documents.
PreviewCount(req) ==
    /\ preview.st = "none"
    /\ preview' = [st |-> "counted", req |-> req, count |-> Cardinality(Matched(req.on)), from |-> others]
    /\ UNCHANGED <<tlVars, data, others, result, story>>

Least(m, n) == IF m < n THEN m ELSE n
Most(m, n) == IF m > n THEN m ELSE n

\* Mutant: only what is displayed is captured.
CaptureSize_Displayed(count) == Least(Least(count, CaptureLimit), DisplayLimit)

\* capture_limit.
CaptureSize(count) == Most(Least(count, CaptureLimit), DisplayLimit)

RollbackLevel(count) ==
    IF count = 0 THEN "none" ELSE IF count <= CaptureLimit THEN "full" ELSE "sample"

\* What the preview shows of a document after the change.
Told(req, d) == CASE req.kind \in UpdateKinds -> Simulate(req.update, d)
                  [] req.kind = "replaceOne" -> req.update
                  [] OTHER -> NoDoc

\* preview_operation(), the rest: find with the capture limit (0 is no limit), simulate on
\* the displayed documents, plan.  A refused simulation fails the preview.
PreviewFind ==
    /\ preview.st = "counted"
    /\ LET req == preview.req
           size == CaptureSize(preview.count)
           found == Matched(req.on) IN
       \E ids \in SUBSET found :
          /\ Cardinality(ids) = IF size = 0 THEN Cardinality(found) ELSE Least(size, Cardinality(found))
          /\ \E shown \in SUBSET ids :
                /\ Cardinality(shown) = Least(DisplayLimit, Cardinality(ids))
                /\ LET captured == [i \in ids |-> data[i]]
                       after == [i \in shown |-> Told(req, data[i])]
                   IN preview' = IF \E i \in shown : Refused(after[i]) THEN NoPreview
                                 ELSE [st |-> "shown", req |-> req, level |-> RollbackLevel(preview.count),
                                       plan |-> Plan(req, captured), after |-> after, from |-> preview.from, ids |-> ids]
    /\ UNCHANGED <<tlVars, data, others, result, story>>

\* The user does not confirm.
Dismiss ==
    /\ preview.st = "shown"
    /\ preview' = NoPreview
    /\ UNCHANGED <<tlVars, data, others, result, story>>

\* External: what the server makes of a document.
Left(req, d) == CASE req.kind \in UpdateKinds -> ServerUpdate(req.update, d)
                  [] req.kind = "replaceOne" -> req.update
                  [] OTHER -> NoDoc

\* With upsert, a write that matches nothing makes a document, of the filter's values.
Upserted(req) == IF req.upsert /\ Matched(req.on) = {} THEN {i \in Docs : data[i] = NoDoc} ELSE {}
FromFilter(req) == [f \in AllFields |-> IF f = "a" /\ req.on # "all" THEN req.on ELSE "missing"]
Targets(req) ==
    IF Upserted(req) # {} THEN {{i} : i \in Upserted(req)}
    ELSE LET found == Matched(req.on) IN
         {ids \in SUBSET found :
             Cardinality(ids) = IF req.kind \in OneKinds THEN Least(1, Cardinality(found)) ELSE Cardinality(found)}
Result(req, ids) ==
    [i \in ids |-> Left(req, IF data[i] = NoDoc THEN FromFilter(req) ELSE data[i])]

\* The confirmed write on the server, update_documents, replace_document or
\* delete_documents, and the build of its timeline entry.
Execute(t, p) ==
    /\ preview.st = "shown" /\ ~Busy(t) /\ drawn < MaxEntries
    /\ LET req == preview.req IN
       \E ids \in Targets(req) :
          LET new == Result(req, ids)
              after == [i \in Docs |-> IF i \in ids THEN new[i] ELSE data[i]] IN
          /\ \A i \in ids : ~Refused(new[i])
          /\ data' = after
          /\ RecordWrite(t, p, req.kind, preview.plan)
          /\ story' = [id \in DOMAIN story \cup {drawn'} |->
                          IF id # drawn' THEN story[id]
                          ELSE [level |-> preview.level, kind |-> req.kind, update |-> req.update,
                                plan |-> preview.plan, changed |-> ids, ids |-> preview.ids,
                                told |-> preview.after, before |-> data, after |-> after,
                                disturbed |-> others # preview.from]]
    /\ preview' = NoPreview
    /\ UNCHANGED <<others, result>>

\* The write fails, and nothing is recorded: the server refused it for some document, or
\* the answer was lost.  A write of many documents has changed some of them by then.
ExecuteFails ==
    /\ preview.st = "shown"
    /\ \E ids \in Targets(preview.req) :
          LET new == Result(preview.req, ids) IN
          \E done \in SUBSET {i \in ids : ~Refused(new[i])} :
             /\ done # {} => others < MaxWrites
             /\ others' = IF done = {} THEN others ELSE others + 1
             /\ data' = [i \in Docs |-> IF i \in done THEN new[i] ELSE data[i]]
    /\ preview' = NoPreview
    /\ UNCHANGED <<tlVars, result, story>>

\* Another client changes, inserts or deletes a document.
OtherDoc == [f \in AllFields |-> IF f = "a" THEN "n1" ELSE "missing"]
OtherWrite ==
    /\ others < MaxWrites
    /\ others' = others + 1
    /\ \E i \in Docs, d \in {NoDoc, OtherDoc} :
          data[i] # d /\ data' = [data EXCEPT ![i] = d]
    /\ UNCHANGED <<tlVars, preview, result, story>>

----------------------------------------------------------------------------
(* Rollback.                                                               *)

\* The shell evaluates the plan's text as a script.  The text is a JSON object; inside the
\* function that run_shell_thread() wraps around it, it stands where a statement is
\* expected, and "operation": is no statement: a syntax error, before anything is executed.
EvalScript(plan, c) == [data |-> c, errored |-> TRUE]

\* execute_rollback(): the entry must exist and have a script.
ExecuteRollback ==
    /\ result.st = "none"
    /\ \E e \in ToSet(entries) :
          /\ e.script # NoScript
          /\ LET answer == EvalScript(e.script, data) IN
             /\ data' = answer.data
             /\ result' = [st |-> "done", id |-> e.id, errored |-> answer.errored, before |-> data, after |-> data',
                           since |-> data = story[e.id].after]
    /\ UNCHANGED <<tlVars, preview, others, story>>

----------------------------------------------------------------------------
Init ==
    /\ TimelineInit
    /\ data \in Collections
    /\ preview = NoPreview /\ others = 0 /\ result = [st |-> "none"]
    /\ story = [x \in {} |-> x]

Next ==
    \/ TimelineNext /\ UNCHANGED scVars
    \/ \E req \in Requests : PreviewCount(req)
    \/ PreviewFind \/ Dismiss \/ OtherWrite \/ ExecuteFails \/ ExecuteRollback
    \/ \E t \in Tasks, p \in Profiles : Execute(t, p)

Spec == Init /\ [][Next]_vars

----------------------------------------------------------------------------
Undisturbed == {id \in DOMAIN story : ~story[id].disturbed}

\* A write recorded with the level "full" has every document it changed in its plan, if
\* no other client wrote between the count of the preview and the execution.
FullPlanCoversChanges ==
    \A id \in Undisturbed : story[id].level = "full" => story[id].changed \subseteq story[id].ids

\* Operators that simulate_update() knows by their names, but not with these arguments, or
\* not on these paths.
Misread(update) ==
    {f \in DOMAIN update : update[f] \in {"$push each", "$pull if"} \/ (update[f] = "$rename" /\ f \notin TopLevel)}
Warned(update) == {f \in DOMAIN update : update[f] = "$bit"}

\* The values the preview showed for a document are the ones the write left, for $set, $unset,
\* $inc, $mul and $pull and $push of an element on any path, and $rename of a field.
PreviewTellsResult ==
    \A id \in Undisturbed :
        LET s == story[id] IN
        (s.kind \in UpdateKinds => Misread(s.update) \cup Warned(s.update) = {}) =>
            \A i \in DOMAIN s.told \cap s.changed : s.told[i] = s.after[i]

\* The update can be inverted from the documents it was captured from: it sets fields,
\* below documents that are there, and unsets fields that are there.
Invertible(s) ==
    s.kind \in UpdateKinds =>
        \A f \in DOMAIN s.update, i \in s.ids :
            \/ s.update[f] = "$set" /\ (f = "p.x" => s.before[i]["p"] # "missing")
            \/ s.update[f] = "$unset" /\ s.before[i][f] # "missing"

\* The plan of an undisturbed write of level "full" brings the collection back to what it
\* was, if the update can be inverted.  A one-document write is planned for every document
\* that matched: harmless for an update, but the plan of a deletion then holds documents
\* that are still there, and a replacement may restore another document.
PlanUndoes ==
    \A id \in Undisturbed :
        LET s == story[id] IN
        s.level = "full" /\ Invertible(s) /\ (s.kind \in {"deleteOne", "replaceOne"} => Cardinality(s.ids) = 1) =>
            Executed(s.plan, s.after) = s.before

\* A preview tells what the write does, and the plan made with it takes that back.
PlanSound == FullPlanCoversChanges /\ PreviewTellsResult /\ PlanUndoes

\* "Preview does not fully simulate '{}'; after-state is approximate.": the after-state is
\* what the write leaves, or the preview says that it is not.
PreviewTellsOrWarns ==
    \A id \in Undisturbed :
        LET s == story[id] IN
        s.kind \in UpdateKinds /\ Warned(s.update) = {} =>
            \A i \in DOMAIN s.told \cap s.changed : s.told[i] = s.after[i]

\* "Build the inverse of a single document update based on the original update operators":
\* of $set and $unset, the operators that are not left to the user.
InverseTakesBack ==
    \A id \in Undisturbed :
        LET s == story[id] IN
        s.level = "full" /\ s.kind \in UpdateKinds /\ (\A f \in DOMAIN s.update : s.update[f] \in {"$set", "$unset"}) =>
            Executed(s.plan, s.after) = s.before

\* "Execute the rollback script stored in a timeline entry": with a full plan, and nothing
\* written since, the collection is what it was before the write.
RollbackUndoes ==
    result.st = "done" /\ result.since /\ result.id \in Undisturbed =>
        LET s == story[result.id] IN
        s.level = "full" /\ s.kind = "updateMany" /\ Invertible(s) => result.after = s.before
=============================================================================
