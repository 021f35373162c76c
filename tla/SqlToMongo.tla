----------------------------- MODULE SqlToMongo -----------------------------
(***************************************************************************)
(* The translation of SQL into MongoDB filters, pipelines and find options *)
(* (src-tauri/src/mongo/sql_to_mongo.rs), from the parsed statement on,    *)
(* what MongoDB makes of the result, and what the statement means.         *)
(*                                                                         *)
(* A document gives every field a number, Null or Missing, ordered as BSON *)
(* orders them.  Functions, LIKE, joins, grouping and the generated driver *)
(* code are left out.                                                      *)
(***************************************************************************)
EXTENDS Integers, Sequences, FiniteSets, SequencesExt

Null == -100
Missing == -101
Text == -102      \* a text, document or array: no document of the model holds one

\* Expressions, as the parser delivers them.
Field(f) == [k |-> "field", f |-> f]
Lit(v) == [k |-> "lit", v |-> v]
Nested(e) == [k |-> "nested", e |-> e]
Minus(e) == [k |-> "minus", e |-> e]
Cmp(op, l, r) == [k |-> "cmp", op |-> op, l |-> l, r |-> r]
And(l, r) == [k |-> "and", l |-> l, r |-> r]
Or(l, r) == [k |-> "or", l |-> l, r |-> r]
Not(e) == [k |-> "not", e |-> e]
In(e, list, negated) == [k |-> "in", e |-> e, list |-> list, negated |-> negated]
IsNull(e, negated) == [k |-> "null", e |-> e, negated |-> negated]
Between(e, low, high, negated) == [k |-> "between", e |-> e, low |-> low, high |-> high, negated |-> negated]

RECURSIVE FieldName(_), IsLiteral(_), ExprToAgg(_), ExprToFilter(_), EvalAgg(_, _), Selects(_, _), Truth(_, _), NullSafe(_, _), ScalarItems(_)

NoField == "none"
FieldName(e) ==
    CASE e.k = "field" -> e.f
      [] e.k = "nested" -> FieldName(e.e)
      [] OTHER -> NoField

IsLiteral(e) == e.k = "lit" \/ (e.k \in {"minus", "nested"} /\ IsLiteral(e.e))

Op(op, args) == [a |-> op, args |-> args]

BinaryOpToAgg(op, l, r) == Op(op, <<ExprToAgg(l), ExprToAgg(r)>>)

\* expr_to_agg_expr(): a number is negated at once, anything else by $multiply.
ExprToAgg(e) ==
    CASE e.k = "field"  -> [a |-> "field", f |-> e.f]
      [] e.k = "lit"    -> [a |-> "lit", v |-> e.v]
      [] e.k = "nested" -> ExprToAgg(e.e)
      [] e.k = "minus"  -> LET v == ExprToAgg(e.e)
                           IN  IF v.a = "lit" THEN [v EXCEPT !.v = -@] ELSE Op("$negate", <<v>>)
      [] e.k = "cmp"    -> BinaryOpToAgg(e.op, e.l, e.r)
      [] e.k = "and"    -> BinaryOpToAgg("$and", e.l, e.r)
      [] e.k = "or"     -> BinaryOpToAgg("$or", e.l, e.r)
      [] e.k = "not"    -> Op("$not", <<ExprToAgg(e.e)>>)
      [] e.k = "in"     -> LET in == Op("$in", <<ExprToAgg(e.e)>> \o [i \in DOMAIN e.list |-> ExprToAgg(e.list[i])])
                           IN  IF e.negated THEN Op("$not", <<in>>) ELSE in
      [] e.k = "null"   -> Op(IF e.negated THEN "$ne" ELSE "$eq", <<ExprToAgg(e.e), [a |-> "lit", v |-> Null]>>)
      [] e.k = "between" ->
            LET in == Op("$and", <<BinaryOpToAgg("$gte", e.e, e.low), BinaryOpToAgg("$lte", e.e, e.high)>>)
            IN  IF e.negated THEN Op("$not", <<in>>) ELSE in

-----------------------------------------------------------------------------
\* A filter binds conditions to fields, or combines filters, or wraps an
\* aggregation expression.
Doc(f, conds) == [t |-> "doc", m |-> [x \in {f} |-> conds]]
Cond(op, vs) == [op |-> op, vs |-> vs]
SimpleFieldFilter(op, f, vs) == Doc(f, {Cond(op, vs)})
Combine(t, l, r) == [t |-> t, l |-> l, r |-> r]
Expr(a) == [t |-> "expr", a |-> a]

\* Mutant: the keys are not compared, and the right one wins.
MergeAnd_Overwrites(l, r) ==
    IF l.t = "doc" /\ r.t = "doc"
      THEN [t |-> "doc", m |-> [x \in DOMAIN l.m \cup DOMAIN r.m |-> IF x \in DOMAIN r.m THEN r.m[x] ELSE l.m[x]]]
      ELSE Combine("and", l, r)

\* merge_and(): one object where both bind fields and share none.
MergeAnd(l, r) ==
    IF l.t = "doc" /\ r.t = "doc" /\ DOMAIN l.m \cap DOMAIN r.m = {}
      THEN [t |-> "doc", m |-> [x \in DOMAIN l.m \cup DOMAIN r.m |-> IF x \in DOMAIN r.m THEN r.m[x] ELSE l.m[x]]]
      ELSE Combine("and", l, r)

LitValue(e) == ExprToAgg(e).v
\* What a filter compares a field with: it takes an expression, even "$b", for a value.
Operand(e) == LET a == ExprToAgg(e) IN IF a.a = "lit" THEN a.v ELSE Text
Swapped(op) == CASE op = "$lt" -> "$gt" [] op = "$gt" -> "$lt" [] op = "$lte" -> "$gte" [] op = "$gte" -> "$lte" [] OTHER -> op

\* comparison_to_filter(): a field and a literal bind, the operator turned when
\* the literal comes first.
ComparisonToFilter(op, l, r) ==
    IF FieldName(l) # NoField /\ IsLiteral(r) THEN SimpleFieldFilter(op, FieldName(l), {LitValue(r)})
    ELSE IF IsLiteral(l) /\ FieldName(r) # NoField THEN SimpleFieldFilter(Swapped(op), FieldName(r), {LitValue(l)})
    ELSE Expr(BinaryOpToAgg(op, l, r))

ExprToFilter(e) ==
    CASE e.k = "nested" -> ExprToFilter(e.e)
      [] e.k = "and" -> MergeAnd(ExprToFilter(e.l), ExprToFilter(e.r))
      [] e.k = "or"  -> Combine("or", ExprToFilter(e.l), ExprToFilter(e.r))
      [] e.k = "cmp" -> ComparisonToFilter(e.op, e.l, e.r)
      [] e.k = "in" /\ FieldName(e.e) # NoField ->
            SimpleFieldFilter(IF e.negated THEN "$nin" ELSE "$in", FieldName(e.e), {Operand(e.list[i]) : i \in DOMAIN e.list})
      [] e.k = "null" /\ FieldName(e.e) # NoField ->
            SimpleFieldFilter(IF e.negated THEN "$ne" ELSE "$eq", FieldName(e.e), {Null})
      [] e.k = "between" /\ FieldName(e.e) # NoField ->
            LET low == Operand(e.low)  high == Operand(e.high)  f == FieldName(e.e)
            IN  IF e.negated THEN Combine("or", SimpleFieldFilter("$lt", f, {low}), SimpleFieldFilter("$gt", f, {high}))
                ELSE Doc(f, {Cond("$gte", {low}), Cond("$lte", {high})})
      [] OTHER -> Expr(ExprToAgg(e))

-----------------------------------------------------------------------------
\* MongoDB.  In a filter null stands for a missing field too, and an order is
\* only between numbers; an aggregation expression compares all values.
Ordered(op, x, y) == CASE op = "$lt" -> x < y [] op = "$lte" -> x <= y [] op = "$gt" -> x > y [] op = "$gte" -> x >= y

EvalAgg(a, doc) ==
    CASE a.a = "field" -> doc[a.f]
      [] a.a = "lit"   -> a.v
      [] a.a = "$negate" -> -EvalAgg(a.args[1], doc)
      [] a.a = "$eq"   -> EvalAgg(a.args[1], doc) = EvalAgg(a.args[2], doc)
      [] a.a = "$ne"   -> EvalAgg(a.args[1], doc) # EvalAgg(a.args[2], doc)
      [] a.a = "$and"  -> EvalAgg(a.args[1], doc) /\ EvalAgg(a.args[2], doc)
      [] a.a = "$or"   -> EvalAgg(a.args[1], doc) \/ EvalAgg(a.args[2], doc)
      [] a.a = "$not"  -> ~EvalAgg(a.args[1], doc)
      [] a.a = "$in"   -> \E i \in 2..Len(a.args) : EvalAgg(a.args[1], doc) = EvalAgg(a.args[i], doc)
      [] OTHER -> Ordered(a.a, EvalAgg(a.args[1], doc), EvalAgg(a.args[2], doc))

Holds(cond, x) ==
    LET y == IF x = Missing THEN Null ELSE x
    IN  CASE cond.op \in {"$eq", "$in"} -> y \in cond.vs
          [] cond.op \in {"$ne", "$nin"} -> y \notin cond.vs
          [] OTHER -> \A v \in cond.vs : y # Null /\ v \notin {Null, Text} /\ Ordered(cond.op, y, v)

Selects(filter, doc) ==
    CASE filter.t = "doc"  -> \A f \in DOMAIN filter.m : \A c \in filter.m[f] : Holds(c, doc[f])
      [] filter.t = "and"  -> Selects(filter.l, doc) /\ Selects(filter.r, doc)
      [] filter.t = "or"   -> Selects(filter.l, doc) \/ Selects(filter.r, doc)
      [] filter.t = "expr" -> EvalAgg(filter.a, doc)

-----------------------------------------------------------------------------
\* A SELECT over one table: columns (none for *), DISTINCT, ORDER BY one field,
\* LIMIT and OFFSET, or MySQL's LIMIT offset, limit.
None == [k |-> "none"]
Absent == -1

Stage(s, x) == [s |-> s, x |-> x]
Given(present, stage) == IF present THEN <<stage>> ELSE <<>>

\* The order in which the clause is written is the order of the stages.
LimitStages(q) ==
    IF q.comma THEN <<Stage("skip", q.offset), Stage("limit", q.limit)>>
    ELSE Given(q.limit # Absent, Stage("limit", q.limit)) \o Given(q.offset # Absent, Stage("skip", q.offset))

\* build_distinct_group_key(), build_project_stage(): nothing for *.
ShapeStages(q) ==
    IF q.distinct THEN <<Stage("distinct", q.columns)>> ELSE Given(q.columns # {}, Stage("project", q.columns))

\* translate_select(), which refuses DISTINCT without columns.
Refused(q) == q.distinct /\ q.columns = {}
Pipeline(q) ==
    Given(q.where # None, Stage("match", IF q.where = None THEN None ELSE ExprToFilter(q.where)))
        \o ShapeStages(q) \o Given(q.order # NoField, Stage("sort", <<q.order, q.desc>>)) \o LimitStages(q)

\* The find shortcut: only these stages, and a filter.
LooksLikeFind(q) ==
    /\ q.where # None
    /\ \A i \in DOMAIN Pipeline(q) : Pipeline(q)[i].s \in {"match", "sort", "project", "limit", "skip"}

-----------------------------------------------------------------------------
Project(columns, doc) == [f \in columns |-> doc[f]]
SortKey(doc, f) == IF f \in DOMAIN doc THEN doc[f] ELSE Missing
SortRows(order, rows) ==
    SortSeq(rows, LAMBDA x, y : IF order[2] THEN SortKey(x, order[1]) > SortKey(y, order[1])
                                ELSE SortKey(x, order[1]) < SortKey(y, order[1]))
Skip(n, rows) == SubSeq(rows, n + 1, Len(rows))
Limit(n, rows) == SubSeq(rows, 1, IF n < Len(rows) THEN n ELSE Len(rows))
Columns(columns, rows) == IF columns = {} THEN rows ELSE [i \in DOMAIN rows |-> Project(columns, rows[i])]

\* A stage of a pipeline, on rows.
Apply(rows, stage) ==
    CASE stage.s = "match"    -> SelectSeq(rows, LAMBDA d : Selects(stage.x, d))
      [] stage.s = "project"  -> Columns(stage.x, rows)
      [] stage.s = "distinct" -> SetToSeq({Project(stage.x, rows[i]) : i \in DOMAIN rows})
      [] stage.s = "sort"     -> SortRows(stage.x, rows)
      [] stage.s = "limit"    -> Limit(stage.x, rows)
      [] stage.s = "skip"     -> Skip(stage.x, rows)
\* The rows the server answers, if it does: it refuses a $limit of zero.
RunPipeline(q, rows) ==
    IF \E i \in DOMAIN Pipeline(q) : Pipeline(q)[i].s = "limit" /\ Pipeline(q)[i].x = 0 THEN {}
    ELSE {FoldLeft(Apply, rows, Pipeline(q))}

\* find(): filter, sort, skip and limit in this order, whatever the pipeline says; a
\* limit of zero is none.
RunFind(q, rows) ==
    LET matched == SelectSeq(rows, LAMBDA d : Selects(ExprToFilter(q.where), d))
        sorted  == IF q.order = NoField THEN matched ELSE SortRows(<<q.order, q.desc>>, matched)
        skipped == IF q.offset = Absent THEN sorted ELSE Skip(q.offset, sorted)
    IN  Columns(q.columns, IF q.limit \in {Absent, 0} THEN skipped ELSE Limit(q.limit, skipped))

\* UPDATE and DELETE: the filter of the WHERE clause, and without one all documents.
WriteSelects(where, doc) == where = None \/ Selects(ExprToFilter(where), doc)

-----------------------------------------------------------------------------
\* What an expression means in SQL, where no null takes part in a comparison.
\* (NOT goes through $expr, which tells a missing field from null.)
Value(e, doc) == IF e.k = "minus" THEN -EvalAgg(ExprToAgg(e.e), doc) ELSE EvalAgg(ExprToAgg(e), doc)
Truth(e, doc) ==
    CASE e.k = "nested" -> Truth(e.e, doc)
      [] e.k = "and" -> Truth(e.l, doc) /\ Truth(e.r, doc)
      [] e.k = "or"  -> Truth(e.l, doc) \/ Truth(e.r, doc)
      [] e.k = "not" -> ~Truth(e.e, doc)
      [] e.k = "cmp" -> CASE e.op = "$eq" -> Value(e.l, doc) = Value(e.r, doc)
                          [] e.op = "$ne" -> Value(e.l, doc) # Value(e.r, doc)
                          [] OTHER -> Ordered(e.op, Value(e.l, doc), Value(e.r, doc))
      [] e.k = "in" -> e.negated # \E i \in DOMAIN e.list : Value(e.e, doc) = Value(e.list[i], doc)
      [] e.k = "null" -> e.negated # (Value(e.e, doc) \in {Null, Missing})
      [] e.k = "between" -> e.negated # (Value(e.low, doc) <= Value(e.e, doc) /\ Value(e.e, doc) <= Value(e.high, doc))

NullSafe(e, doc) ==
    CASE e.k = "field" -> doc[e.f] \notin {Null, Missing}
      [] e.k = "lit" -> e.v # Null
      [] e.k \in {"nested", "minus"} -> NullSafe(e.e, doc)
      [] e.k = "not" -> NullSafe(e.e, doc) /\ \A f \in DOMAIN doc : doc[f] # Missing
      [] e.k \in {"and", "or", "cmp"} -> NullSafe(e.l, doc) /\ NullSafe(e.r, doc)
      [] e.k = "in" -> NullSafe(e.e, doc) /\ \A i \in DOMAIN e.list : NullSafe(e.list[i], doc)
      [] e.k = "between" -> NullSafe(e.e, doc) /\ NullSafe(e.low, doc) /\ NullSafe(e.high, doc)
      [] e.k = "null" -> TRUE

\* Lists and ranges of literals; others are compared as texts.
ScalarItems(e) ==
    CASE e.k \in {"field", "lit"} -> TRUE
      [] e.k \in {"nested", "minus", "not", "null"} -> ScalarItems(e.e)
      [] e.k \in {"and", "or", "cmp"} -> ScalarItems(e.l) /\ ScalarItems(e.r)
      [] e.k = "in" -> FieldName(e.e) # NoField => \A i \in DOMAIN e.list : IsLiteral(e.list[i])
      [] e.k = "between" -> FieldName(e.e) # NoField => IsLiteral(e.low) /\ IsLiteral(e.high)

\* Filter, order, offset, limit, columns.
SqlRows(q, rows) ==
    LET matched == IF q.where = None THEN rows ELSE SelectSeq(rows, LAMBDA d : Truth(q.where, d))
        shaped  == IF q.distinct THEN SetToSeq({Project(q.columns, matched[i]) : i \in DOMAIN matched}) ELSE matched
        sorted  == IF q.order = NoField THEN shaped ELSE SortRows(<<q.order, q.desc>>, shaped)
        skipped == IF q.offset = Absent THEN sorted ELSE Skip(q.offset, sorted)
        limited == IF q.limit = Absent THEN skipped ELSE Limit(q.limit, skipped)
    IN  IF q.distinct THEN limited ELSE Columns(q.columns, limited)

\* The filter of a WHERE clause selects the documents the clause is true of.
FilterTells(where, doc) == NullSafe(where, doc) => (Selects(ExprToFilter(where), doc) <=> Truth(where, doc))

\* So it does through merged conditions on the same or other fields, turned comparisons,
\* negated ranges and lists of literals and the fallback to $expr.
FilterMeansWhere(where, doc) == ScalarItems(where) => FilterTells(where, doc)

\* The find shortcut returns the rows of the SELECT, but all of them for LIMIT 0.  So does
\* the pipeline, except where it limits before it skips or sorts by a column it has
\* dropped; for LIMIT 0 it has no answer, and only then.
SelectReturnsItsRows(q, rows) ==
    ~Refused(q) =>
        /\ LooksLikeFind(q) /\ q.limit # 0 => RunFind(q, rows) = SqlRows(q, rows)
        /\ RunPipeline(q, rows) = {} => q.limit = 0
        /\ (/\ q.comma \/ q.limit = Absent \/ q.offset = Absent
            /\ q.order = NoField \/ q.columns = {} \/ q.order \in q.columns)
                => RunPipeline(q, rows) \subseteq {SqlRows(q, rows)}
=============================================================================
