------------------------------- MODULE MCData -------------------------------
(***************************************************************************)
(* The desktop's data tools for TLC: the transfer jobs, the connection     *)
(* profiles and the data-model diagram, one of them per behaviour, and the *)
(* cases on which the conversions are compared with what they must keep.   *)
(***************************************************************************)
EXTENDS Transfer, Profiles, DataModel

VARIABLE case       \* the case checked, or which of the state machines runs

M == INSTANCE Shapes
S == INSTANCE SqlToMongo
F == INSTANCE Formats
Q == INSTANCE Queries
C == INSTANCE StellarCodec
V == INSTANCE VisualQuery
T == INSTANCE MerkleTrees

MCSource == {<<>>, <<"id">>, <<"bad", "id">>, <<"bad", "bad">>, <<"id", "noid", "id">>}

(* Forms: a password in the field, in the URI, in both, kept or cleared.      *)
Filled(name, user, inUri, mechanism, field) == [name |-> name, uri |-> Uri(user, inUri), mechanism |-> mechanism, secret |-> field]
MCForm ==
    UNION {{Filled(n, TRUE, NoSecret, "none", "s"), Filled(n, TRUE, "u", "none", "s"), Filled(n, TRUE, "u", "none", Keep),
            Filled(n, FALSE, NoSecret, "external", Clear), Filled(n, TRUE, NoSecret, "none", Keep)} : n \in ProfileName}

-----------------------------------------------------------------------------
(* SQL: two fields, every comparison, and every pair of conditions.         *)

Field == {"a", "b"}
Cmps == {"$eq", "$ne", "$lt", "$lte", "$gt", "$gte"}
Atoms ==
    {S!Cmp(o, S!Field(f), S!Lit(v)) : o \in Cmps, f \in Field, v \in {1, 2}}
    \cup {S!Cmp(o, S!Lit(2), S!Field(f)) : o \in Cmps, f \in Field}
    \cup {S!Cmp(o, S!Field("a"), S!Field("b")) : o \in Cmps}
    \cup {S!Cmp(o, S!Nested(S!Field("a")), S!Minus(S!Lit(1))) : o \in Cmps}
    \cup {S!In(S!Field(f), <<S!Lit(1), S!Lit(3)>>, n) : f \in Field, n \in BOOLEAN}
    \cup {S!In(S!Field("a"), <<S!Field("b"), S!Lit(2)>>, n) : n \in BOOLEAN}
    \cup {S!Between(S!Field("a"), S!Lit(1), S!Field("b"), n) : n \in BOOLEAN}
    \cup {S!IsNull(S!Field(f), n) : f \in Field, n \in BOOLEAN}
    \cup {S!Between(e, S!Lit(1), S!Lit(2), n) : e \in {S!Field("a"), S!Field("b"), S!Minus(S!Field("a"))}, n \in BOOLEAN}
Wheres == Atoms \cup {S!Not(x) : x \in Atoms} \cup {S!And(x, y) : x, y \in Atoms} \cup {S!Or(x, y) : x, y \in Atoms}
Docs == [Field -> {S!Missing, S!Null, 1, 2, 3}]

Rows == <<[a |-> 3, b |-> 1], [a |-> 1, b |-> 2], [a |-> 2, b |-> 1]>>
Selects ==
    {q \in [where : {S!None, S!Cmp("$gt", S!Field("a"), S!Lit(1))}, columns : SUBSET Field, distinct : BOOLEAN,
            order : Field \cup {S!NoField}, desc : BOOLEAN, limit : {S!Absent, 0, 1, 2}, offset : {S!Absent, 0, 1}, comma : BOOLEAN]
       : q.comma => q.limit # S!Absent /\ q.offset # S!Absent}

-----------------------------------------------------------------------------
(* Formats: texts of up to two critical characters, at three depths.        *)

Texts == UNION {[1 .. n -> {"x", F!Quote, F!Backslash, F!Newline, "{", "}", "]", ","}] : n \in 0 .. 2}
Str(s) == [t |-> "str", v |-> s]
Obj(key, v) == [t |-> "obj", key |-> key, v |-> v]
JsonDocs(s) ==
    <<Obj(<<"x">>, Str(s)), Obj(s, [t |-> "num", v |-> 0]), Obj(s, Obj(<<"x">>, Str(s))),
      Obj(<<"x">>, [t |-> "arr", v |-> <<Str(s), Obj(s, [t |-> "num", v |-> 0]), Str(s)>>])>>

Of(type, contents) == [i \in DOMAIN contents |-> F!Val(type, contents[i])]
Values ==
    <<F!Null, F!Val("bool", TRUE), F!Val("date", 1), F!Val("oid", 2), F!Val("doc", F!Empty)>>
    \o Of("int32", <<-4, 0, 3>>) \o Of("int64", <<-5, 3, 4, 7>>) \o Of("double", <<-20, -3, 1, 2, 8, 15>>)
    \o Of("str", [i \in 1 .. 6 |-> F!Text(<<"word", "blank", "i32", "float", "rfc3339", "hex">>[i], 1)])
A == F!Name("a")
B == F!Name("b")
CsvDocs(v, w, c) ==
    <<[keys |-> <<A>>, m |-> [f \in {A} |-> v]], [keys |-> <<c, A>>, m |-> [f \in {A, c} |-> IF f = A THEN w ELSE v]],
      [keys |-> <<>>, m |-> F!Empty]>>
HeaderRows == UNION {[1 .. n -> {A, B, F!Name(""), F!Numbered(A, 2), F!Padded(A), F!Padded(F!Name(""))}] : n \in 1 .. 3}

Paths == {<<"a">>, <<"b">>, <<"a", "b">>, <<"a", "c">>, <<"b", "c">>}
Types == {"keep", "string", "int32", "int64", "double", "boolean", "date", "objectId"}
Entry(source, target, skip, type) == [source |-> source, target |-> target, skip |-> skip, type |-> type]
Mappings ==
    {<<Entry(s1, t1, FALSE, type), Entry(s2, t2, skip, "keep"), Entry(<<"b">>, t3, FALSE, "keep")>>
       : s1 \in {<<"a">>, <<"a", "b">>}, s2 \in {<<"a", "b">>, <<"c">>}, t1, t3 \in Paths, t2 \in Paths \cup {<<" ">>, <<" b">>}, skip \in BOOLEAN, type \in {"keep", "int32"}}
Document(v) == ("a" :> F!Val("doc", "b" :> v)) @@ ("b" :> F!Val("int32", 1))

Templates == [1 .. 3 -> {F!Char("/"), F!Char("x"), F!Placeholder("profile"), F!Placeholder("db"), F!Placeholder("other")}]
Names == {<<>>, <<"/", "x">>, <<"x", "ctrl", "/">>}

Row == <<F!Val("doc", "a" :> F!Val("int32", 1)), F!Val("doc", "a" :> F!Val("bool", TRUE)), F!Null>>
PreviewRows == UNION {[1 .. n -> 1 .. 3] : n \in 0 .. 4}

-----------------------------------------------------------------------------
(* Pages of up to five rows; previews with counts at the score's thresholds. *)

Counts == {<<0, 0>>, <<0, 4>>, <<1, 1>>, <<1, 4>>, <<2, 0>>, <<2, 2>>, <<2, 9>>, <<4, 4>>, <<5, 0>>, <<5, 30>>, <<50, 200>>, <<100, 1000>>, <<101, 0>>, <<1000, 9000>>, <<1001, 0>>}
Plans == {Q!NoPlan, [stage |-> "COLLSCAN", subs |-> <<>>], [stage |-> "FETCH", subs |-> <<[stage |-> "IXSCAN", subs |-> <<>>]>>]}
Writes ==
    [kind : {"updateOne", "updateMany", "deleteOne", "deleteMany", "replaceOne"}, production : BOOLEAN, filter : {{}, {"$or"}, {"_id"}, {"a"}},
     plan : Plans, count : Counts, operators : {{}, {"$unset"}}, warnings : {0, 2}]
Write(w) == [kind |-> w.kind, production |-> w.production, filter |-> w.filter, plan |-> w.plan, matched |-> w.count[1],
             size |-> w.count[2], operators |-> w.operators, warnings |-> w.warnings]
Subdocs == UNION {[fields -> [type : {"int32", "int64", "double"}, n : {1, 2}]] : fields \in SUBSET {"a", "b"}}

-----------------------------------------------------------------------------
(* The visual builder: trees of three conditions, filters of two entries.    *)

Typed == {V!Absent, V!Null, V!Num(1), V!Bool(FALSE), V!Str("1"), V!Str("#today"), V!Str("word"), V!Str(""), <<"obj", "o">>,
          V!Arr(<<V!Str("1"), V!Null>>), V!List(TRUE, <<V!Str("1"), V!Str("2")>>), V!List(FALSE, <<V!Str("2"), V!Str("")>>)}
Condition == {V!Cond("a", o, v, TRUE) : o \in DOMAIN V!FieldOperator \cup V!OtherOperator \cup {"other"}, v \in Typed}
SomeConds == {V!Cond("a", "gt", V!Num(1), TRUE), V!Cond("a", "in", V!List(TRUE, <<V!Str("1")>>), TRUE), V!Cond("b", "is_null", V!Absent, TRUE),
              V!Cond("b", "is_not_null", V!Absent, TRUE), V!Cond("a", "exists", V!Bool(FALSE), TRUE), V!Cond("b", "ne", V!Str("2"), TRUE),
              V!Cond("a", "eq", V!Num(2), FALSE), V!Cond("", "eq", V!Num(2), TRUE), V!Cond("a", "in", V!Num(1), TRUE)}
Combinator == {"$and", "$or", "$nor"}
VDocs == [Field -> {V!Missing, V!Null, V!Num(1), V!Num(2), V!Str("word")}]
FieldEntries == {<<f, "ops", << <<"$gte", V!Num(1)>>, <<"$lt", V!Num(2)>> >> >> : f \in Field} \cup {<<"b", "value", V!Null>>, <<"a", "value", V!Num(1)>>}
                \cup {<<"a", "ops", << <<"$in", V!Arr(<<V!Num(1), V!Null>>)>> >> >>}
Flat == {<<e>> : e \in FieldEntries} \cup {<<e, f>> : e \in FieldEntries, f \in FieldEntries}
Filters == Flat \cup {V!Combined(op, <<f, g>>) : op \in Combinator, f \in Flat, g \in Flat}

-----------------------------------------------------------------------------
(* The data model: documents of depth three; every mix of evidence.          *)

Scalar == {<<"int">>, <<"null">>, <<"objectId">>}
Values1 == Scalar \cup {<<"array", <<>> >>, <<"array", << <<"objectId">>, <<"int">> >> >>, <<"array", << <<"int">>, <<"object", "k" :> <<"objectId">> >> >> >>} \cup {<<"object", "k" :> v>> : v \in Scalar}
ModelDocs == {<<>>} \cup {"k" :> v : v \in Values1} \cup {"k" :> <<"object", "k" :> v>> : v \in Values1}
             \cup {("k" :> <<"array", <<v, w>> >>) @@ ("id" :> v) : v \in Values1, w \in {<<"objectId">>, <<"object", "k" :> <<"objectId">> >>}}
Signals == {"appSchema", "objectIdMatch", "lookup", "naming", "index"}
Evidence ==
    {c \in [from : {"c"}, field : {"f"}, app : {"", "d"}, appArray : BOOLEAN, match : {"", "e"}, ratio : {40, 50, 80, 95}, lookups : SUBSET {"d", "g"},
             naming : {"", "c", "h"}, array : BOOLEAN, oid : BOOLEAN, indexed : BOOLEAN, unique : BOOLEAN]
       : (c.unique => c.indexed) /\ (c.array \/ c.match # "" => c.oid) /\ (c.appArray => c.app # "")}
References == UNION {{[i \in 1 .. n |-> [from |-> "c", field |-> i, to |-> t[i], kind |-> k[i]]]
                        : t \in [1 .. n -> {"d", "e"}], k \in [1 .. n -> {"many-to-one", "one-to-one"}]} : n \in 0 .. 3}

-----------------------------------------------------------------------------
Entries == {[sequence |-> 1, root |-> <<1>>, timestamp |-> 5, metadata |-> <<>>], [sequence |-> 2, root |-> <<2>>, timestamp |-> 6, metadata |-> <<7>>]}
Histories == UNION {[1 .. n -> Entries] : n \in 0 .. 3}
Oplog == [sequence |-> 3, oplogRoot |-> <<9>>, start |-> 0, end |-> 4, count |-> 2]

-----------------------------------------------------------------------------
(* Trees of height two, one leaf more than they hold; oplog ranges of up to  *)
(* five entries against each other; values of depth two, with texts that     *)
(* look like tags and lengths; packed words of two bits.                     *)

Leaves(n) == UNION {[1 .. m -> {T!Leaf("a"), T!Leaf("b")}] : m \in 0 .. n}
Bytes == UNION {[1 .. n -> {1, 3, 6}] : n \in 0 .. 2}
Plain == {<<"null", <<>> >>, <<"bool", <<1>> >>, <<"int32", <<1, 0>> >>, <<"int64", <<1, 0, 0>> >>, <<"double", <<6, 1>> >>, <<"double", T!NaN(1)>>,
          <<"double", T!NaN(2)>>, <<"binary", <<3, <<6>> >> >>, <<"regex", << <<6>>, <<1, 6>> >> >>, <<"code", <<1, 3>> >>}
         \cup {<<"string", b>> : b \in Bytes}
Few == {<<"null", <<>> >>, <<"bool", <<1>> >>, <<"string", <<>> >>, <<"string", <<6>> >>, <<"symbol", <<6>> >>, <<"int32", <<6, 0>> >>, <<"double", T!NaN(1)>>}
Document2(k, v, l, w) == <<"document", << <<k, v>>, <<l, w>> >> >>
Nested ==
    {<<"array", <<>> >>, <<"document", <<>> >>} \cup {<<"array", <<v>> >> : v \in Plain} \cup {<<"array", <<v, w>> >> : v, w \in Few}
    \cup {<<"document", << <<k, v>> >> >> : k \in Bytes, v \in Few}
    \cup {Document2(k, v, l, w) : k \in {<<1>>, <<1, 6>>}, l \in {<<6>>, <<>>}, v, w \in Few}
    \cup {Document2(l, v, k, w) : k \in {<<1>>, <<1, 6>>}, l \in {<<6>>, <<>>}, v, w \in Few}
    \cup {<<"array", <<Document2(<<1>>, v, <<6>>, w), w>> >> : v, w \in Few}
    \cup {<<"array", <<Document2(<<6>>, v, <<1>>, w), w>> >> : v, w \in Few}
Bsons == Plain \cup Nested
OplogEntries == UNION {[names -> Few] : names \in {{"o"}, {"o", "o2"}, {"o", "op"}, {"t", "ts"}, {"o", "wall"}, {"v"}}}
Stamps == [time : 0 .. 3, increment : 0 .. 3]

-----------------------------------------------------------------------------
Case(k, x, y) == [k |-> k, x |-> x, y |-> y]

(* No job: one that nobody starts.                                           *)
Idle == TransferInit /\ job.command = "clipboard" /\ src = << <<>> >> /\ stored = {} /\ files = <<>>

SqlCase ==
    \/ \E w \in Wheres : case = Case("where", w, 0)
    \/ \E q \in Selects : case = Case("select", q, 0)
FormatCase ==
    \/ \E s \in Texts : \E i, j \in 1 .. 4 : case = Case("json", <<JsonDocs(s)[i], JsonDocs(s)[j]>>, 0)
    \/ \E s1, s2 \in 5 .. 8 : \E cut \in 0 .. s1 + s2 : case = Case("bson", <<s1, s2>>, cut)
    \/ \E i, j \in DOMAIN Values : \E limit \in 1 .. 2 : \E c \in {B, F!Padded(A), F!Padded(B), F!Dotted("a", "b")} :
          case = Case("csv", CsvDocs(Values[i], Values[j], c), limit)
    \/ \E names \in HeaderRows : case = Case("header", names, 0)
    \/ \E i \in DOMAIN Values : \E type \in Types : case = Case("mapping", <<Entry(<<"a", "b">>, <<"b">>, FALSE, type)>>, Document(Values[i]))
    \/ \E m \in Mappings : case = Case("mapping", m, Document(F!Val("int64", 4)))
    \/ \E t \in Templates : \E p, d \in Names : case = Case("template", t, [profile |-> p, db |-> d])
    \/ \E rows \in PreviewRows : \E asked \in 0 .. 3 : case = Case("preview", [i \in DOMAIN rows |-> Row[rows[i]]], asked)
QueryCase ==
    \/ \E n \in 0 .. 5 : \E asked \in -1 .. 6 : case = Case("page", [i \in 1 .. n |-> i], asked)
    \/ \E b, a \in Subdocs : case = Case("diff", b, a)
    \/ \E c \in Condition : case = Case("tree", c, 0)
    \/ \E o, p \in Combinator : \E c, d, e \in SomeConds : case = Case("tree", V!Group(o, <<c, V!Group(p, <<d, e>>)>>), 1)
    \/ \E f \in Filters : case = Case("filter", f, 0)
    \/ \E w \in Writes : case = Case("write", Write(w), 0)
ModelCase ==
    \/ \E a, b \in ModelDocs : \E cap \in 2 .. 3 : \E sample \in 1 .. 2 : case = Case("shape", <<a, b>>, <<cap, sample>>)
    \/ \E c \in Evidence : case = Case("edge", c, 0)
    \/ \E refs \in References : case = Case("joins", refs, 0)
CodecCase == \E h \in Histories : \E verdict \in BOOLEAN : case = Case("host", h, verdict)

TreeCase ==
    \/ \E values \in Leaves(5) : case = Case("tree_log", values, 2)
    \/ \E values, others \in Leaves(5) : case = Case("tree_oplog", values, others)
    \/ \E x \in Bsons : case = Case("bson_value", x, 0)
    \/ \E e \in OplogEntries : case = Case("oplog_entry", e, 0)
    \/ \E s, t \in Stamps : case = Case("stamp", s, t)

Runs(machine) == case = Case(machine, 0, 0)
Running(machine) == case.k = machine

MCInit ==
    /\ ProfilesInit
    /\ \/ Runs("model") /\ Idle /\ ModelInit /\ cache.edges \in {<<>>, <<"r1", "r2">>}
       \/ /\ ModelInit /\ cache = NoGraph
          /\ \/ Runs("jobs") /\ TransferInit
             \/ Idle /\ (Runs("profiles") \/ SqlCase \/ FormatCase \/ QueryCase \/ ModelCase \/ CodecCase \/ TreeCase)
MCNext ==
    /\ UNCHANGED case
    /\ \/ Running("jobs") /\ TransferNext /\ UNCHANGED <<modelVars, pvars>>
       \/ Running("model") /\ ModelNext /\ UNCHANGED <<transferVars, pvars>>
       \/ Running("profiles") /\ ProfilesNext /\ UNCHANGED <<transferVars, modelVars>>
MCSpec == MCInit /\ [][MCNext]_<<transferVars, modelVars, pvars, case>>

-----------------------------------------------------------------------------
(* A filter selects what the user asked for: the translation of a SQL        *)
(* statement the documents its WHERE clause is true of and the rows of the   *)
(* SELECT, the visual builder's what its tree says, and a filter shown in    *)
(* the builder keeps its meaning (sql_to_mongo.rs, vqb.rs).                  *)
FiltersKeepMeaning ==
    /\ case.k = "where" => \A d \in Docs : S!FilterMeansWhere(case.x, d)
    /\ case.k = "select" => S!SelectReturnsItsRows(case.x, Rows)
    /\ case.k = "tree" => V!TreeReadsBack(case.x) /\ (case.y = 1 => V!TreeSelects(case.x, VDocs))
    /\ case.k = "filter" => V!FilterKept(case.x, VDocs)

(* "any non-scalar shape fall back to {$expr: <agg expr>} so they remain     *)
(* valid": the filter of a WHERE clause means what the clause says, with any *)
(* expression in a list or a range.                                          *)
ListsMeanExpressions == case.k = "where" => \A d \in Docs : S!FilterTells(case.x, d)

(* "so small demo DBs aren't under-scored": with an unknown size, the score  *)
(* of a write is not below the one with the size that it has.                *)
SmallNotUnderScored == case.k = "write" => Q!UnknownSizeNotUnderScored(case.x)

(* What the sinks write, the sources read again: JSON with any text in it,   *)
(* BSON cut at any byte, CSV up to the losses of its format; field mapping,  *)
(* path templates and the preview put every value, name and row where they   *)
(* belong (import_export/, commands/import.rs).                              *)
FilesReadBack ==
    /\ case.k = "json" => F!JsonReadsBack(case.x)
    /\ case.k = "bson" => F!BsonReadsBack(case.x, case.y)
    /\ case.k = "csv" => F!CsvReadsBack(case.x, case.y)
    /\ case.k = "header" => F!CellsKept(case.x)
    /\ case.k = "mapping" => F!MappingPlaces(case.x, case.y)
    /\ case.k = "template" => F!NamesAddNoSegments(case.x, case.y)
    /\ case.k = "preview" => F!PreviewTellsImport(case.x, case.y, 2)

(* The diagram shows the fields the sampled documents have, and the          *)
(* relationships the evidence points to (shape.rs, relationship.rs).         *)
ModelFollowsSample ==
    /\ case.k = "shape" => M!ShapeTellsDocuments(case.x, {"k", "id", "[]"}, case.y[1], case.y[2])
    /\ case.k = "edge" => \A on \in SUBSET Signals : \A threshold \in {40, 95} : M!EdgesFollowEvidence(case.x, on, threshold)
    /\ case.k = "joins" => M!JoinsLinkReferences(case.x)

(* Pages tile the result, the differences of a preview lead to what the      *)
(* write makes, and a write of a whole collection has to be confirmed        *)
(* (commands/mongo.rs, safe_change.rs).                                      *)
QueriesTellTheTruth ==
    /\ case.k = "page" => Q!PagesTile(case.x, case.y, 2, 4)
    /\ case.k = "diff" => Q!DiffLeadsToAfter(case.x, case.y)
    /\ case.k = "write" => Q!WholeCollectionConfirmed(case.x) /\ Q!RiskGrows(case.x)

(* A root stands for one list of leaves, a proof for one leaf at one place,  *)
(* and the leaf of an oplog entry for that entry (merkle.rs, oplog.rs,       *)
(* oplog_canon.rs).                                                          *)
RootsBindLeaves ==
    /\ case.k = "tree_log" => T!LogTreeBinds(case.x, case.y)
    /\ case.k = "tree_oplog" => T!OplogTreeBinds(case.x, case.y)
    /\ case.k = "bson_value" => \A y \in Bsons : T!CanonicalBinds(case.x, y)
    /\ case.k = "oplog_entry" => \A f \in OplogEntries : T!EntryBinds(case.x, f)
    /\ case.k = "stamp" => T!PackingKeepsOrder(case.x, case.y, 2)

(* The client reports what the contract holds (stellar_native.rs).           *)
HostValuesReadBack ==
    case.k = "host" => C!HostValuesRead(case.x, Oplog, [i \in DOMAIN case.x |-> case.x[i].root], case.y)

(* "arrives either as a bare Bool or wrapped as Vec([Bool]) depending on the *)
(* host encoding": an inclusion proof the contract accepts is reported as    *)
(* verified, in either.                                                      *)
SubmittedVerdictTold == case.k = "host" => C!SubmittedVerdictRead(case.y)
=============================================================================
