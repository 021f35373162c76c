---------------------------- MODULE VisualQuery ----------------------------
(***************************************************************************)
(* The visual query builder (src-tauri/src/mongo/vqb.rs): a tree of groups *)
(* and conditions becomes a filter, and a filter becomes a tree again.     *)
(*                                                                         *)
(* A JSON value is tagged: <<"num", n>>, <<"bool", b>>, <<"null">>,        *)
(* <<"str", s>>, <<"arr", items>>, <<"obj", name>> (its content is not     *)
(* looked into), <<"date", tag>>; <<"list", brackets, parts>> is a text    *)
(* with commas, in brackets or not.  A filter is the sequence of its       *)
(* entries <<key, kind, content>>: the operators of a field, a plain       *)
(* value, or the filters of a group.                                       *)
(***************************************************************************)
EXTENDS Integers, Sequences, SequencesExt

Null == <<"null">>
Absent == <<"absent">>      \* Option::None
Missing == <<"missing">>    \* the field is not in the document
Bad == <<"bad">>            \* a value that cannot be read as the operator's
Num(n) == <<"num", n>>
Bool(b) == <<"bool", b>>
Str(s) == <<"str", s>>
Arr(items) == <<"arr", items>>
List(brackets, parts) == <<"list", brackets, parts>>

Everything == <<>>                     \* {}
Error == << <<"error">> >>
Ops(key, operators) == << <<key, "ops", operators>> >>
One(key, op, v) == Ops(key, << <<op, v>> >>)
Plain(key, v) == << <<key, "value", v>> >>
Combined(op, filters) == << <<op, "filters", filters>> >>

Group(op, children) == [k |-> "group", op |-> op, children |-> children]
Cond(field, operator, value, enabled) ==
    [k |-> "cond", field |-> field, operator |-> operator, value |-> value, enabled |-> enabled]
NoNode == [k |-> "none"]

-----------------------------------------------------------------------------
(* What was typed.                                                         *)

\* parse_scalar_string(): the texts that read as something else, and what as.
\* A tag (#today) is read by expand_date_tags().
Reads == [s \in {"true", "null", "1", "2", "#today"} |->
            CASE s = "true" -> Bool(TRUE) [] s = "null" -> Null [] s = "1" -> Num(1) [] s = "2" -> Num(2)
              [] OTHER -> <<"date", s>>]
ParseScalar(v) == IF v[1] = "str" /\ v[2] \in DOMAIN Reads THEN Reads[v[2]] ELSE v

IsNumeral(v) == v[1] = "str" /\ v[2] \in {"1", "2"}
CoerceToStringOrNumber(v) == IF IsNumeral(v) THEN Reads[v[2]] ELSE v
CoerceToNumber(v) == IF v[1] = "str" THEN CoerceToStringOrNumber(v) ELSE IF v[1] = "num" THEN v ELSE Num(0)

\* parse_array_value(): without brackets, blank parts are no items.
ParseArray(v) ==
    CASE v[1] = "arr" -> Arr([i \in DOMAIN v[2] |-> ParseScalar(v[2][i])])
      [] v[1] = "list" /\ v[2] -> Arr([i \in DOMAIN v[3] |-> ParseScalar(v[3][i])])
      [] v[1] = "list" /\ ~v[2] ->
            LET items == SelectSeq(v[3], LAMBDA part : part # Str("")) IN Arr([i \in DOMAIN items |-> ParseScalar(items[i])])
      [] v[1] = "str" -> Arr(IF v[2] = "" THEN <<>> ELSE <<ParseScalar(v)>>)
      [] OTHER -> Bad

ParseJsonObject(v) == IF v[1] = "obj" THEN v ELSE Bad

\* parse_mod_value(): two numbers.
ParseMod(v) ==
    LET parts == CASE v[1] = "arr" -> v[2] [] v[1] = "list" -> v[3] [] OTHER -> <<>>
    IN  IF Len(parts) = 2 THEN Arr([i \in 1 .. 2 |-> CoerceToNumber(parts[i])]) ELSE Bad

ParseConditionValue(v, operator) ==
    CASE v = Absent -> Null
      [] operator = "exists" -> IF v[1] = "bool" THEN v ELSE Bool(TRUE)
      [] operator = "type" -> CoerceToStringOrNumber(v)
      [] operator = "size" -> CoerceToNumber(v)
      [] operator \in {"in", "nin"} -> ParseArray(v)
      [] operator \in {"expr", "json_schema", "elem_match"} -> ParseJsonObject(v)
      [] operator = "mod" -> ParseMod(v)
      [] OTHER -> ParseScalar(v)

-----------------------------------------------------------------------------
(* Tree to filter.                                                         *)

\* mongo_operator() and, read backwards, mongo_to_vqb_op().
FieldOperator == [eq |-> "$eq", ne |-> "$ne", gt |-> "$gt", gte |-> "$gte", lt |-> "$lt", lte |-> "$lte", in |-> "$in", nin |-> "$nin",
                  exists |-> "$exists", regex |-> "$regex", type |-> "$type", size |-> "$size", elem_match |-> "$elemMatch", mod |-> "$mod"]
OtherOperator == {"text", "expr", "json_schema", "is_null", "is_not_null"}

\* build_filter(), a condition.
ConditionFilter(c) ==
    LET v == ParseConditionValue(c.value, c.operator)
    IN  CASE ~c.enabled \/ c.field = "" -> Everything
          [] c.operator \notin DOMAIN FieldOperator \cup OtherOperator -> Error
          [] v = Bad -> Error
          [] c.operator = "text" -> One("$text", "$search", v)
          [] c.operator = "expr" -> Plain("$expr", v)
          [] c.operator = "json_schema" -> Plain("$jsonSchema", v)
          [] c.operator = "is_null" -> Plain(c.field, Null)
          [] c.operator = "is_not_null" -> One(c.field, "$ne", Null)
          [] OTHER -> One(c.field, FieldOperator[c.operator], v)

RECURSIVE BuildFilter(_)

\* build_filter(), a group: what is switched off, unnamed or empty has no part.
GroupFilter(g) ==
    LET parts == SelectSeq([i \in DOMAIN g.children |-> BuildFilter(g.children[i])], LAMBDA f : f # Everything)
    IN  IF parts = <<>> THEN Everything ELSE IF Contains(parts, Error) THEN Error ELSE Combined(g.op, parts)

BuildFilter(node) == IF node.k = "group" THEN GroupFilter(node) ELSE ConditionFilter(node)

-----------------------------------------------------------------------------
(* Filter to tree.                                                         *)

KnownOps == {FieldOperator[o] : o \in DOMAIN FieldOperator}
ToVqbOp(op) == CHOOSE o \in DOMAIN FieldOperator : FieldOperator[o] = op

\* condition_from_field_value(): an operator it does not know is left out.
ConditionFromField(field, kind, content) ==
    LET known == SelectSeq(content, LAMBDA e : e[1] \in KnownOps)
        conds == [i \in DOMAIN known |-> Cond(field, ToVqbOp(known[i][1]), known[i][2], TRUE)]
    IN  CASE kind = "value" /\ content[1] = "obj" -> NoNode
          [] kind = "value" -> Cond(field, IF content = Null THEN "is_null" ELSE "eq", content, TRUE)
          [] conds = <<>> -> NoNode
          [] Len(content) = 1 -> conds[1]
          [] OTHER -> Group("$and", conds)

\* from_filter_value(), one entry.
FromEntry(e) ==
    CASE e[1] = "$text" -> Cond("$text", "text", e[3][1][2], TRUE)
      [] e[1] = "$expr" -> Cond("$expr", "expr", e[3], TRUE)
      [] e[1] = "$jsonSchema" -> Cond("$jsonSchema", "json_schema", e[3], TRUE)
      [] OTHER -> ConditionFromField(e[1], e[2], e[3])

RECURSIVE FromFilter(_)
\* from_filter_value(): a group among the entries is all that is read.
FromFilter(f) ==
    LET groups == SelectSeq(f, LAMBDA e : e[2] = "filters")
        Nodes(seq, Op(_)) == SelectSeq([i \in DOMAIN seq |-> Op(seq[i])], LAMBDA n : n # NoNode)
        within == Nodes(groups[1][3], FromFilter)
        flat == Nodes(f, FromEntry)
    IN  CASE groups # <<>> -> IF within = <<>> THEN NoNode ELSE Group(groups[1][1], within)
          [] flat = <<>> -> NoNode
          [] Len(flat) = 1 -> flat[1]
          [] OTHER -> Group("$and", flat)

-----------------------------------------------------------------------------
(* The server.                                                             *)

Same(x, v) == x = v \/ (x = Missing /\ v = Null)
Less(x, v) == x[1] = "num" /\ v[1] = "num" /\ x[2] < v[2]
HoldsOp(op, v, x) ==
    CASE op = "$eq" -> Same(x, v)
      [] op = "$ne" -> ~Same(x, v)
      [] op = "$gt" -> Less(v, x)
      [] op = "$gte" -> Less(v, x) \/ Same(x, v)
      [] op = "$lt" -> Less(x, v)
      [] op = "$lte" -> Less(x, v) \/ Same(x, v)
      [] op = "$in" -> \E i \in DOMAIN v[2] : Same(x, v[2][i])
      [] op = "$nin" -> \A i \in DOMAIN v[2] : ~Same(x, v[2][i])
      [] op = "$exists" -> (x # Missing) = v[2]

RECURSIVE Matches(_, _)
Matches(f, doc) ==
    \A i \in DOMAIN f :
       LET key == f[i][1]
           content == f[i][3]
       IN  CASE f[i][2] = "value" -> Same(doc[key], content)
             [] f[i][2] = "ops" -> \A j \in DOMAIN content : HoldsOp(content[j][1], content[j][2], doc[key])
             [] key = "$and" -> \A j \in DOMAIN content : Matches(content[j], doc)
             [] key = "$or" -> \E j \in DOMAIN content : Matches(content[j], doc)
             [] key = "$nor" -> \A j \in DOMAIN content : ~Matches(content[j], doc)

-----------------------------------------------------------------------------
(* Properties.                                                             *)

RECURSIVE Counts(_), Says(_, _)
\* A node counts when something below it is switched on and names a field.
Counts(node) == IF node.k = "cond" THEN node.enabled /\ node.field # "" ELSE \E i \in DOMAIN node.children : Counts(node.children[i])
\* What the tree says of a document, read as it is drawn.
Says(node, doc) ==
    IF node.k = "group"
    THEN LET parts == {i \in DOMAIN node.children : Counts(node.children[i])}
         IN  CASE node.op = "$and" -> \A i \in parts : Says(node.children[i], doc)
               [] node.op = "$or" -> parts = {} \/ \E i \in parts : Says(node.children[i], doc)
               [] node.op = "$nor" -> \A i \in parts : ~Says(node.children[i], doc)
    ELSE LET x == doc[node.field]
             v == ParseConditionValue(node.value, node.operator)
         IN  CASE node.operator = "is_null" -> x \in {Missing, Null}
               [] node.operator = "is_not_null" -> x \notin {Missing, Null}
               [] node.operator = "ne" -> ~Same(x, v)
               [] node.operator = "in" -> \E i \in DOMAIN v[2] : Same(x, v[2][i])
               [] node.operator = "gt" -> x[1] = "num" /\ v[1] = "num" /\ x[2] > v[2]
               [] node.operator = "exists" -> v[2] = (x # Missing)
               [] OTHER -> Same(x, v)

\* The filter selects the documents the tree says, whatever of it is switched off.
TreeSelects(node, docs) ==
    LET f == BuildFilter(node)
    IN  f # Error => \A d \in docs : Matches(f, d) = (Counts(node) => Says(node, d))

RECURSIVE Filled(_)
Filled(node) == IF node.k = "cond" THEN node.value = Absent => node.operator \notin {"in", "nin", "exists", "size", "mod", "elem_match", "expr", "json_schema"}
                ELSE \A i \in DOMAIN node.children : Filled(node.children[i])

\* A filter the builder made is read back as a tree of the same filter; every
\* condition has the value its operator needs.
TreeReadsBack(node) ==
    LET f == BuildFilter(node)
    IN  Filled(node) /\ f \notin {Error, Everything} => FromFilter(f) # NoNode /\ BuildFilter(FromFilter(f)) = f

\* A filter typed by hand keeps its meaning in the builder: at most one group and
\* then nothing else, operators the builder knows, no text that reads as a number.
RECURSIVE Readable(_)
Readable(f) ==
    \/ /\ Len(f) = 1 /\ f[1][2] = "filters" /\ f[1][3] # <<>>
       /\ \A i \in DOMAIN f[1][3] : f[1][3][i] # Everything /\ Readable(f[1][3][i])
    \/ \A i \in DOMAIN f : f[i][2] # "filters" /\ (f[i][2] = "ops" => \A j \in DOMAIN f[i][3] : f[i][3][j][1] \in KnownOps)
FilterKept(f, docs) ==
    LET tree == FromFilter(f)
        again == IF tree = NoNode THEN Everything ELSE BuildFilter(tree)
    IN  Readable(f) => \A d \in docs : Matches(again, d) = Matches(f, d)
=============================================================================
