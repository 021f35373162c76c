------------------------------ MODULE Queries ------------------------------
(***************************************************************************)
(* The read commands' pages (src-tauri/src/commands/mongo.rs) and what the *)
(* preview of a write shows besides its effect: the field differences, the *)
(* risk score and whether the user must type a confirmation                *)
(* (src-tauri/src/mongo/safe_change.rs).                                   *)
(*                                                                         *)
(* Rows are the result of the filter or pipeline, in the order the server  *)
(* gives; limits are parameters, so that small ones show the boundaries.   *)
(***************************************************************************)
EXTENDS Integers, Sequences, FiniteSets, SequencesExt

Absent == -1

-----------------------------------------------------------------------------
(* Pages.                                                                  *)

\* The server: a limit of zero is none for find(), and refused in a pipeline.
Window(rows, skip, limit) ==
    LET end == IF limit = 0 \/ skip + limit > Len(rows) THEN Len(rows) ELSE skip + limit
    IN  SubSeq(rows, skip + 1, end)

\* find_documents(): a full window is taken for a sign of more.
FindDocuments(rows, asked, skip, default, max) ==
    LET wanted == IF asked = Absent THEN default ELSE asked
        limit == IF wanted > max THEN max ELSE wanted
        docs == Window(rows, skip, limit)
    IN  [docs |-> docs, hasMore |-> Len(docs) = limit]

NoAnswer == [docs |-> <<>>, hasMore |-> TRUE]

\* aggregate_documents(): its own $limit only where the pipeline has none; own is
\* what the user's $limit leaves, Absent without one.
AggregateDocuments(rows, asked, own, default, max) ==
    LET wanted == IF asked = Absent THEN default ELSE asked
        limit == IF wanted > max THEN max ELSE wanted
        stage == IF own = Absent THEN limit ELSE own
        docs == Window(rows, 0, stage)
    IN  IF stage = 0 THEN NoAnswer ELSE [docs |-> docs, hasMore |-> Len(docs) = limit]

ResolvePageSize(asked, default, max) ==
    LET wanted == IF asked = Absent THEN default ELSE asked
    IN  IF wanted < 1 THEN 1 ELSE IF wanted > max THEN max ELSE wanted

SkipOf(page, size) == (IF page = 0 THEN 0 ELSE page - 1) * size

\* find_page() and aggregate_page(): one row more than the page tells whether
\* there is another.
Page(rows, page, size) ==
    LET docs == Window(rows, SkipOf(page, size), size + 1)
        more == Len(docs) > size
    IN  [docs |-> IF more THEN SubSeq(docs, 1, size) ELSE docs, hasMore |-> more]

\* Only the first page is recorded in the timeline.
Recorded(page) == page <= 1

\* The total: exact when asked for and answered, else the estimate; a pipeline has
\* no estimate.
FindTotal(mode, exact, estimate) ==
    CASE mode = "none" -> <<Absent, FALSE>>
      [] mode = "exact" /\ exact # Absent -> <<exact, FALSE>>
      [] OTHER -> <<estimate, TRUE>>
AggregateTotal(mode, exact) == <<IF mode = "exact" /\ exact > 0 THEN exact ELSE Absent, FALSE>>

RECURSIVE Follow(_, _, _)
\* A reader that goes on as long as there is more, from page p.
Follow(rows, p, size) ==
    LET page == Page(rows, p, size)
    IN  <<page.docs>> \o IF page.hasMore THEN Follow(rows, p + 1, size) ELSE <<>>

-----------------------------------------------------------------------------
(* Preview: differences.  A document is a function from its fields to       *)
(* numbers, [type, n].                                                     *)

\* doc_to_display_json(): relaxed extended JSON does not tell the width of an integer.
Display(v) == [v EXCEPT !.type = IF v.type \in {"int32", "int64"} THEN "integer" ELSE v.type]
DisplayJson(doc) == [f \in DOMAIN doc |-> Display(doc[f])]

\* compute_diff(), of the documents' display JSON.
DiffOf(before, after) ==
    {[field |-> f,
      type |-> IF f \notin DOMAIN before THEN "added" ELSE IF f \notin DOMAIN after THEN "removed" ELSE "modified",
      new |-> IF f \in DOMAIN after THEN after[f] ELSE Absent]
     : f \in {g \in DOMAIN before \cup DOMAIN after :
                ~(g \in DOMAIN before /\ g \in DOMAIN after /\ before[g] = after[g])}}
ComputeDiff(before, after) == DiffOf(DisplayJson(before), DisplayJson(after))

-----------------------------------------------------------------------------
(* Preview: the plan and the risk.                                         *)

\* contains_ixscan(), find_stage_in_doc(): a stage and the stages within it.
RECURSIVE ContainsIxscan(_)
ContainsIxscan(plan) == plan.stage = "IXSCAN" \/ \E i \in DOMAIN plan.subs : ContainsIxscan(plan.subs[i])
\* check_index_used(): a plan that cannot be had counts as a scan.
NoPlan == [stage |-> "UNKNOWN", subs |-> <<>>]
IndexUsed(plan) == ContainsIxscan(plan)

KindScore(kind) ==
    CASE kind = "deleteMany" -> 20 [] kind = "updateMany" -> 15 [] kind = "deleteOne" -> 10
      [] kind \in {"updateOne", "replaceOne"} -> 5 [] OTHER -> 0

\* likely_broad_filter(): nothing but operators.  A filter is its set of keys.
LikelyBroad(filter) == "_id" \notin filter /\ filter \subseteq {"$or", "$and", "$regex", "$exists"}
FilterScore(filter) == IF filter = {} THEN 25 ELSE IF LikelyBroad(filter) THEN 10 ELSE 0

CountScore(matched, size) ==
    LET pct == IF size > 0 THEN (matched * 100) \div size ELSE 0
    IN  IF matched <= 1 THEN 0
        ELSE IF pct >= 50 \/ matched > 1000 THEN 20
        ELSE IF pct >= 25 \/ matched > 100 THEN 10
        ELSE IF matched >= 5 THEN 5 ELSE 0

\* score_risk().  Only a preview that matches nothing has no pre-images at all.
ScoreRisk(op) ==
    LET score == (IF op.production THEN 25 ELSE 0) + KindScore(op.kind) + FilterScore(op.filter)
                   + (IF IndexUsed(op.plan) THEN 0 ELSE 15) + CountScore(op.matched, op.size)
                   + (IF op.matched = 0 THEN 10 ELSE 0) + 5 * Cardinality(op.operators \cap {"$unset", "$rename", "$pull", "$mul"})
                   + 2 * op.warnings
    IN  IF score > 100 THEN 100 ELSE score

IsDangerousKind(kind) == kind \in {"deleteOne", "deleteMany", "updateMany", "replaceOne"}

RequiresTypedConfirmation_Above(op) == ScoreRisk(op) > 60 \/ (op.production /\ IsDangerousKind(op.kind))   \* Mutant: off by one.
RequiresTypedConfirmation(op) == ScoreRisk(op) >= 60 \/ (op.production /\ IsDangerousKind(op.kind))

-----------------------------------------------------------------------------
(* Properties.                                                             *)

\* Pages followed as long as there is more are the result, each row once, with no
\* empty page behind a full one, for any page size asked for; and without "more"
\* a single answer is everything from its start.
PagesTile(rows, asked, default, max) ==
    LET size == ResolvePageSize(asked, default, max)
        pages == Follow(rows, 1, size)
    IN  /\ FlattenSeq(pages) = rows
        /\ \A i \in DOMAIN pages : pages[i] = <<>> => rows = <<>>
        /\ Cardinality({p \in DOMAIN pages : Recorded(p)}) = 1
        /\ \A skip \in 0 .. Len(rows) :
              LET answer == FindDocuments(rows, asked, skip, default, max)
              IN  ~answer.hasMore => answer.docs = SubSeq(rows, skip + 1, Len(rows))
        /\ \A own \in {Absent} \cup 1 .. Len(rows) + 1 :
              LET answer == AggregateDocuments(rows, asked, own, default, max)
              IN  ~answer.hasMore /\ own = Absent => answer.docs = rows

\* The differences shown lead from the document shown before to the one shown after, and
\* what is not among them changed its width at most.
DiffLeadsToAfter(before, after) ==
    LET diff == ComputeDiff(before, after)
        Of(f) == CHOOSE d \in diff : d.field = f
        changed == {d.field : d \in diff}
        removed == {d.field : d \in {e \in diff : e.type = "removed"}}
    IN  /\ DisplayJson(after) =
              [f \in (DOMAIN before \cup changed) \ removed |-> IF f \in changed THEN Of(f).new ELSE Display(before[f])]
        /\ \A f \in (DOMAIN before \cup DOMAIN after) \ changed :
              before[f].n = after[f].n /\ (before[f].type = "double" <=> after[f].type = "double")

\* A deleteMany or updateMany without a filter that touches more than one document
\* is never run without a typed confirmation, nor a deleteMany of a whole
\* collection of one; nor, in production, any dangerous write.  The size is zero where
\* it could not be had; then an updateMany has to be confirmed from five documents on.
WholeCollectionConfirmed(op) ==
    /\ op.filter = {} /\ ~IndexUsed(op.plan) /\ op.size \in {op.matched, 0} =>
          /\ op.kind = "deleteMany" => RequiresTypedConfirmation(op)
          /\ op.kind = "updateMany" /\ op.matched \notin (IF op.size = 0 THEN 1 .. 4 ELSE {1}) => RequiresTypedConfirmation(op)
    /\ op.production /\ IsDangerousKind(op.kind) => RequiresTypedConfirmation(op)

\* More documents matched, a lost index or production never make a write look
\* safer than it was, except that the first match removes the penalty for having
\* nothing to restore.
RiskGrows(op) ==
    /\ op.matched > 0 => ScoreRisk([op EXCEPT !.matched = @ + 1]) >= ScoreRisk(op)
    /\ ScoreRisk([op EXCEPT !.plan = NoPlan]) >= ScoreRisk(op)
    /\ ScoreRisk([op EXCEPT !.production = TRUE]) >= ScoreRisk(op)

\* "otherwise falls back to absolute thresholds so small demo DBs aren't under-scored": a
\* size that could not be had does not make a write look safer than it is.
UnknownSizeNotUnderScored(op) == ScoreRisk([op EXCEPT !.size = 0]) >= ScoreRisk(op)
=============================================================================
