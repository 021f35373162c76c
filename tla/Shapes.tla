------------------------------- MODULE Shapes -------------------------------
(***************************************************************************)
(* What a scan of the data model infers from a sample of documents: the    *)
(* shape of a collection (src-tauri/src/mongo/shape.rs) and the            *)
(* relationships of its fields (relationship.rs).                          *)
(***************************************************************************)
EXTENDS Integers, Sequences, FiniteSets, SequencesExt, FiniteSetsExt

-----------------------------------------------------------------------------
(* Shapes.  A value is <<"object", fields>>, <<"array", items>> or a scalar *)
(* <<type>>; a path is the sequence of its keys, "[]" for the elements.    *)

RECURSIVE Occurrences(_, _, _, _)

\* Mutant: elements of an array that are arrays or objects are not gone into.
Occurrences_FlatElements(v, path, cap, sample) ==
    << <<path, v[1]>> >> \o
    CASE v[1] = "object" /\ Len(path) < cap ->
            LET keys == SetToSeq(DOMAIN v[2]) IN FlattenSeq([i \in DOMAIN keys |-> Occurrences(v[2][keys[i]], Append(path, keys[i]), cap, sample)])
      [] v[1] = "array" -> [i \in 1 .. Min({Len(v[2]), sample}) |-> <<Append(path, "[]"), v[2][i][1]>>]
      [] OTHER -> <<>>

\* accumulate_value(): fields of an object are walked down to the depth cap.
Occurrences(v, path, cap, sample) ==
    << <<path, v[1]>> >> \o
    CASE v[1] = "object" /\ Len(path) < cap ->
            LET keys == SetToSeq(DOMAIN v[2]) IN FlattenSeq([i \in DOMAIN keys |-> Occurrences(v[2][keys[i]], Append(path, keys[i]), cap, sample)])
      [] v[1] = "array" -> FlattenSeq([i \in 1 .. Min({Len(v[2]), sample}) |-> Occurrences(v[2][i], Append(path, "[]"), cap, sample)])
      [] OTHER -> <<>>

\* compute_collection_shape(), walk_document().
Walk(docs, cap, sample) == FlattenSeq([i \in DOMAIN docs |-> Occurrences(<<"object", docs[i]>>, <<>>, cap, sample)])
CountOf(occ, path, types) == Len(SelectSeq(occ, LAMBDA o : o[1] = path /\ o[2] \in types))
TypesAt(occ, path) == {occ[i][2] : i \in {j \in DOMAIN occ : occ[j][1] = path}}
Paths(occ) == {occ[i][1] : i \in DOMAIN occ} \ {<<>>}

\* build_shape_node(), placeholder_node(): a field at the cap is a placeholder,
\* and nothing below it is shown.
Placeholder(path, cap) == Last(path) # "[]" /\ Len(path) >= cap
Shown(occ, cap) == {p \in Paths(occ) : \A k \in 1 .. Len(p) - 1 : ~Placeholder(SubSeq(p, 1, k), cap)}
\* Present over: the elements for an element, the documents for a field.
Presence(occ, path, docs) ==
    LET present == CountOf(occ, path, TypesAt(occ, path)) IN <<present, IF Last(path) = "[]" THEN present ELSE Len(docs)>>

\* The last of the most frequent types, in the order of their names.
TypeOrder == <<"array", "int", "null", "object", "objectId", "string">>
Dominant(occ, path) ==
    LET types == TypesAt(occ, path)
        Rank(t) == CHOOSE i \in DOMAIN TypeOrder : TypeOrder[i] = t
    IN  CHOOSE t \in types : \A u \in types \ {t} :
           CountOf(occ, path, {t}) > CountOf(occ, path, {u}) \/ (CountOf(occ, path, {t}) = CountOf(occ, path, {u}) /\ Rank(t) > Rank(u))

\* examine_field(): fields of ids, and arrays of them.
IdField(occ, path, cap) ==
    LET elements == Append(path, "[]")
        ofIds == "array" \in TypesAt(occ, path) /\ elements \in Paths(occ) /\ Dominant(occ, elements) = "objectId"
    IN  [is |-> ~Placeholder(path, cap) /\ (Dominant(occ, path) = "objectId" \/ ofIds), array |-> ofIds]
IdFields(occ, cap) == {p \in Shown(occ, cap) : IdField(occ, p, cap).is}

RECURSIVE Resolve(_, _, _)
\* The values at a path; "[]" stands for the first elements of an array, as many as
\* are sampled.
Resolve(v, path, sample) ==
    IF path = <<>> THEN <<v>>
    ELSE IF Head(path) = "[]" THEN IF v[1] = "array" THEN FlattenSeq([i \in 1 .. Min({Len(v[2]), sample}) |-> Resolve(v[2][i], Tail(path), sample)]) ELSE <<>>
    ELSE IF v[1] = "object" /\ Head(path) \in DOMAIN v[2] THEN Resolve(v[2][Head(path)], Tail(path), sample) ELSE <<>>

\* Every path shown is in the documents as often as it says, by type, elements beyond
\* the sample of an array left out; a path of what is sampled is shown down to the
\* cap, and one that only elements beyond the sample have is not; without an array on its way a field is present
\* in at most every document; a field all of whose values are ids is found as one.
ShapeTellsDocuments(docs, keys, cap, sample) ==
    LET occ == Walk(docs, cap, sample)
        Values(p) == FlattenSeq([i \in DOMAIN docs |-> Resolve(<<"object", docs[i]>>, p, sample)])
        all == {p \in UNION {[1 .. n -> keys] : n \in 1 .. cap} : Values(p) # <<>>}
    IN  /\ \A p \in {q \in Shown(occ, cap) : ~Placeholder(q, cap)} : \A t \in TypesAt(occ, p) : CountOf(occ, p, {t}) = Len(SelectSeq(Values(p), LAMBDA v : v[1] = t))
        /\ all = {p \in Shown(occ, cap) : Len(p) <= cap}
        /\ \A p \in Shown(occ, cap) : ("[]" \notin Range(p)) => Presence(occ, p, docs)[1] <= Presence(occ, p, docs)[2]
        /\ \A p \in Shown(occ, cap) \ IdFields(occ, cap) : Len(p) < cap => \E i \in DOMAIN Values(p) : Values(p)[i][1] # "objectId"

-----------------------------------------------------------------------------
(* Relationships of one field.  Weights and ratios are hundredths.         *)

NoTarget == ""
\* The evidence a flag switches off is not looked at.
Enabled(c, on) ==
    [c EXCEPT !.app = IF "appSchema" \in on THEN @ ELSE NoTarget,
              !.match = IF "objectIdMatch" \in on /\ c.ratio >= 50 THEN @ ELSE NoTarget,
              !.lookups = IF "lookup" \in on THEN @ ELSE {},
              !.naming = IF "naming" \in on /\ c.oid /\ @ # c.from THEN @ ELSE NoTarget,
              !.indexed = @ /\ "index" \in on,
              !.unique = @ /\ c.indexed /\ "index" \in on]

\* build_edge(): the targets it may choose; $lookup targets come in any order.
BestTargets(c) ==
    CASE c.match # NoTarget /\ (c.app = NoTarget \/ c.ratio > 90) -> {c.match}
      [] c.app # NoTarget -> {c.app}
      [] c.lookups # {} -> c.lookups
      [] c.naming # NoTarget -> {c.naming}
      [] OTHER -> {}

IsArray(c) == c.array \/ (c.app # NoTarget /\ c.appArray)

Confidence(c) ==
    LET sum == (IF c.app # NoTarget THEN 70 ELSE 0) + (IF c.match # NoTarget THEN 60 ELSE 0) + 40 * Cardinality(c.lookups)
                 + (IF c.naming # NoTarget THEN 25 ELSE 0) + (IF c.indexed THEN 10 ELSE 0)
                 + (IF c.unique THEN 5 ELSE 0) - (IF c.indexed /\ IsArray(c) THEN 5 ELSE 0)
        clamped == Min({Max({sum, 0}), 100})
    IN  IF (c.match # NoTarget /\ c.ratio >= 80) \/ c.app # NoTarget THEN Max({clamped, 90}) ELSE clamped

\* infer_cardinality().
KindOf(c) == IF IsArray(c) THEN "one-to-many" ELSE IF c.unique /\ c.oid THEN "one-to-one" ELSE "many-to-one"

Edges(c, on, threshold) ==
    LET e == Enabled(c, on)
    IN  IF Confidence(e) < threshold THEN {}
        ELSE {[from |-> c.from, field |-> c.field, to |-> t, kind |-> KindOf(e), confidence |-> Confidence(e)] : t \in BestTargets(e)}

\* detect_many_to_many(): each pair of references of a collection.
JoinEdges(edges) ==
    LET refs == SelectSeq(edges, LAMBDA e : e.kind = "many-to-one")
        pairs == {q \in (DOMAIN refs) \X (DOMAIN refs) : q[1] < q[2]}
    IN  {[from |-> refs[q[1]].to, to |-> refs[q[2]].to, via |-> refs[q[1]].from] : q \in pairs}

\* An edge points where some evidence points and is as sure as was asked for;
\* switched off, a kind of evidence does not count; and more evidence never makes a
\* relationship less sure or lets it disappear.
EdgesFollowEvidence(c, on, threshold) ==
    LET edges == Edges(c, on, threshold)
    IN  /\ \A e \in edges : e.to \in {c.app, c.match, c.naming} \cup c.lookups /\ e.confidence \in threshold .. 100 /\ e.to # NoTarget
        /\ \A k \in on : Confidence(Enabled(c, on \ {k})) <= Confidence(Enabled(c, on))
        /\ \A k \in on : Edges(c, on \ {k}, threshold) # {} => edges # {}
        /\ on = {} => edges = {}

\* What two references of a collection point to is linked through it, in one
\* direction; arrays and unique references link nothing.
JoinsLinkReferences(edges) ==
    LET joins == JoinEdges(edges)
        Refs == {e \in Range(edges) : e.kind = "many-to-one"}
    IN  /\ \A e, f \in Refs : e.to # f.to => \E j \in joins : {j.from, j.to} = {e.to, f.to}
        /\ \A j \in joins : \E e, f \in Refs : e.field # f.field /\ j.from = e.to /\ j.to = f.to /\ j.via = e.from
=============================================================================
