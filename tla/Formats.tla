------------------------------ MODULE Formats ------------------------------
(***************************************************************************)
(* How documents become JSON, BSON and CSV files and are read again, and   *)
(* what the field mapping and the path templates make of them              *)
(* (src-tauri/src/mongo/import_export, commands/import.rs and export.rs).  *)
(*                                                                         *)
(* A value is a record [t |-> its BSON type, v |-> its content]; the       *)
(* content of "doc" is a function from names to values.  A text is a       *)
(* sequence of tokens where its structure is scanned, and a record         *)
(* [shape, v] where only what it parses as is asked.                       *)
(***************************************************************************)
EXTENDS Integers, Sequences, FiniteSets, SequencesExt, TLC

None == [t |-> "none", v |-> 0]
Null == [t |-> "null", v |-> 0]
Val(t, v) == [t |-> t, v |-> v]
IsNone(value) == value.t = "none"
IsNull(value) == value.t = "null"
Empty == [x \in {} |-> None]

-----------------------------------------------------------------------------
(* JSON.                                                                   *)

Quote == "quote"
Backslash == "backslash"
Ws == "ws"
Newline == "newline"

\* serde_json's compact text.  Values here are texts, numbers, arrays and
\* documents of one field.
Escape(c) == CASE c \in {Quote, Backslash} -> <<Backslash, c>> [] c = Newline -> <<Backslash, "x">> [] OTHER -> <<c>>
JsonString(s) == <<Quote>> \o FlattenSeq([i \in DOMAIN s |-> Escape(s[i])]) \o <<Quote>>
RECURSIVE Json(_)
Json(value) ==
    CASE value.t = "str" -> JsonString(value.v)
      [] value.t = "num" -> <<"x">>
      [] value.t = "arr" -> <<"[">> \o FlattenSeq([i \in DOMAIN value.v |->
                                IF i = 1 THEN Json(value.v[i]) ELSE <<",">> \o Json(value.v[i])]) \o <<"]">>
      [] value.t = "obj" -> <<"{">> \o JsonString(value.key) \o <<"colon">> \o Json(value.v) \o <<"}">>

\* JsonSink: start, write of every document, finish.
WriteArray(docs) ==
    <<"[">> \o FlattenSeq([i \in DOMAIN docs |-> (IF i = 1 THEN <<Ws>> ELSE <<",", Ws>>) \o Json(docs[i])])
        \o (IF docs = <<>> THEN <<"]", Ws>> ELSE <<Ws, "]", Ws>>)
WriteNdjson(docs) == FlattenSeq([i \in DOMAIN docs |-> Append(Json(docs[i]), Newline)])

\* JsonArrayReader.  The phase tells where next_raw() and scan_value() are: before
\* the array, behind its bracket, behind a comma, behind an element, in an
\* element, done, refused, or answering an empty element for ever.
NewReader == [phase |-> "start", depth |-> 0, inString |-> FALSE, escaped |-> FALSE, buf |-> <<>>, out |-> <<>>]
Emit(s) == [s EXCEPT !.out = Append(@, s.buf), !.buf = <<>>, !.depth = 0, !.inString = FALSE, !.phase = "after"]
Push(s, b) == [s EXCEPT !.buf = Append(@, b)]

ScanString_NoEscape(s, b) ==   \* Mutant: a backslash is a character like others.
    IF b = Quote THEN (IF s.depth = 0 THEN Emit(Push(s, b)) ELSE [Push(s, b) EXCEPT !.inString = FALSE]) ELSE Push(s, b)

ScanString(s, b) ==
    LET p == Push(s, b)
    IN  IF s.escaped THEN [p EXCEPT !.escaped = FALSE]
        ELSE IF b = Backslash THEN [p EXCEPT !.escaped = TRUE]
        ELSE IF b # Quote THEN p
        ELSE IF s.depth = 0 THEN Emit(p) ELSE [p EXCEPT !.inString = FALSE]

\* next_raw() up to the first byte of an element.
ScanGap(s, b) ==
    CASE b = Ws -> s
      [] b = "]" -> [s EXCEPT !.phase = "end"]
      [] b = "," -> [IF s.phase = "after" THEN s ELSE Emit(s) EXCEPT !.phase = "next"]
      [] b = "}" -> [s EXCEPT !.phase = "stuck"]
      [] OTHER -> [Push(s, b) EXCEPT !.phase = "value", !.inString = (b = Quote), !.depth = IF b \in {"{", "["} THEN 1 ELSE 0]

ScanValue(s, b) ==
    CASE s.inString -> ScanString(s, b)
      [] ~s.inString /\ s.depth = 0 /\ b \in {",", Ws, "]", "}"} -> ScanGap(Emit(s), b)
      [] ~s.inString /\ b = Quote -> [Push(s, b) EXCEPT !.inString = TRUE]
      [] ~s.inString /\ b \in {"{", "["} -> [Push(s, b) EXCEPT !.depth = @ + 1]
      [] ~s.inString /\ s.depth > 0 /\ b \in {"}", "]"} ->
            IF s.depth = 1 THEN Emit(Push(s, b)) ELSE [Push(s, b) EXCEPT !.depth = @ - 1]
      [] OTHER -> Push(s, b)

NextByte(s, b) ==
    CASE s.phase = "start" -> IF b = Ws THEN s ELSE [s EXCEPT !.phase = IF b = "[" THEN "first" ELSE "refused"]
      [] s.phase \in {"first", "next", "after"} -> ScanGap(s, b)
      [] s.phase = "value" -> ScanValue(s, b)
      [] OTHER -> s
ReadArray(text) == FoldLeft(NextByte, NewReader, text)

\* read_line() and the lines that are not blank.
Lines(text) ==
    LET Add(lines, b) == IF b = Newline THEN Append(lines, <<>>) ELSE [lines EXCEPT ![Len(lines)] = Append(@, b)]
    IN  FoldLeft(Add, << <<>> >>, text)
ReadNdjson(text) == SelectSeq(Lines(text), LAMBDA line : \E i \in DOMAIN line : line[i] # Ws)

-----------------------------------------------------------------------------
(* BSON: a document of n bytes begins with n in four bytes.                *)

MinDoc == 5
MaxDoc == 7       \* MAX_BSON_DOC_LEN, 64 MiB in the code
WriteBson(sizes) == FlattenSeq([i \in DOMAIN sizes |-> <<sizes[i], 0, 0, 0>> \o [j \in 1 .. sizes[i] - 4 |-> i]])

\* BsonSource::next_doc(): an end within the length is the end of the file, an
\* end within the document an error, as is a length that no document has.
NextDoc(bytes) ==
    IF Len(bytes) < 4 THEN [k |-> "end"]
    ELSE IF bytes[1] \notin MinDoc .. MaxDoc \/ Len(bytes) < bytes[1] THEN [k |-> "error"]
    ELSE [k |-> "doc", rest |-> SubSeq(bytes, bytes[1] + 1, Len(bytes))]

RECURSIVE ReadBson(_)
ReadBson(bytes) ==
    LET next == NextDoc(bytes)
    IN  IF next.k = "doc" THEN LET r == ReadBson(next.rest) IN [r EXCEPT !.docs = @ + 1]
        ELSE [docs |-> 0, failed |-> next.k = "error"]

-----------------------------------------------------------------------------
(* CSV.  Widths are scaled down: what counts is that i32 is the narrower.  *)

MaxI32 == 3
MaxI64 == 7
FitsI32(n) == -MaxI32 - 1 <= n /\ n <= MaxI32
FitsI64(n) == -MaxI64 - 1 <= n /\ n <= MaxI64
Text(shape, v) == [shape |-> shape, v |-> v]
IntText(n) == Text(IF FitsI32(n) THEN "i32" ELSE IF FitsI64(n) THEN "i64" ELSE "word", n)

\* csv_cell(); a double counts halves, and a whole one is printed without point.
CsvCell(value) ==
    CASE value.t \in {"none", "null"} -> Text("blank", 0)
      [] value.t = "str" -> value.v
      [] value.t \in {"int32", "int64"} -> IntText(value.v)
      [] value.t = "double" -> IF value.v % 2 = 0 THEN IntText(value.v \div 2) ELSE Text("float", value.v)
      [] value.t = "bool" -> Text("bool", value.v)
      [] value.t = "date" -> Text("rfc3339", value.v)
      [] value.t = "oid" -> Text("hex", value.v)
      [] value.t = "doc" -> Text("json", value.v)

BsonValueFromCell(text) ==
    CASE text.shape = "blank" -> Null
      [] text.shape = "bool" -> Val("bool", text.v)
      [] text.shape = "i32" -> Val("int32", text.v)
      [] text.shape = "i64" -> Val("int64", text.v)
      [] text.shape = "float" -> Val("double", text.v)
      [] text.shape = "json" -> Val("doc", text.v)
      [] text.shape \in {"word", "rfc3339", "hex"} -> Val("str", text)

\* Field names: the parts between dots, the numbers that columns_dedup() has added, and
\* whether there are blanks around it.
Name(base) == [b |-> <<base>>, s |-> <<>>, pad |-> ""]
Dotted(first, second) == [b |-> <<first, second>>, s |-> <<>>, pad |-> ""]
Padded(name) == [name EXCEPT !.pad = " "]
TrimName(name) == [name EXCEPT !.pad = ""]
Numbered(name, k) == [name EXCEPT !.s = Append(@, k)]
Occurrences(names, i) == Cardinality({j \in 1 .. i : names[j] = names[i]})

ColumnsDedup(names) ==
    [i \in DOMAIN names |-> LET n == Occurrences(names, i) IN IF n = 1 THEN names[i] ELSE Numbered(names[i], n)]

\* from_reader(): an empty header is field_i; without headers all are.
FieldI(i) == Numbered(Name("field"), i)
Headers(names) ==
    ColumnsDedup([i \in DOMAIN names |-> IF TrimName(names[i]) = Name("") THEN FieldI(i) ELSE TrimName(names[i])])
NoHeaders(width) == [i \in 1 .. width |-> FieldI(i)]

\* next_doc(): later cells of the same name replace earlier ones; the reader
\* refuses a row of another width.
ReadRow(columns, cells) ==
    LET Put(doc, i) == (columns[i] :> BsonValueFromCell(cells[i])) @@ doc
    IN  FoldLeft(Put, Empty, [i \in DOMAIN cells |-> i])

\* sample_columns(): names in the order they are first seen, up to a limit.
SampleColumns(docs, limit) ==
    LET Add(columns, name) == IF name \in ToSet(columns) \/ Len(columns) >= limit THEN columns ELSE Append(columns, name)
    IN  FoldLeft(Add, <<>>, FlattenSeq([i \in DOMAIN docs |-> docs[i].keys]))

\* get_bson_path() walks into documents, part by part.
Walk(m, path) ==
    LET Step(value, name) == IF value.t = "doc" /\ name \in DOMAIN value.v THEN value.v[name] ELSE None
    IN  FoldLeft(Step, Val("doc", m), path)
Parts(column) == IF Len(column.b) = 1 THEN <<column>> ELSE [i \in DOMAIN column.b |-> Name(column.b[i])]
WriteRow(columns, doc) == [i \in DOMAIN columns |-> CsvCell(Walk(doc.m, Parts(columns[i])))]

-----------------------------------------------------------------------------
(* The field mapping.                                                      *)

GetBsonPath(m, path) == Walk(m, path)

RECURSIVE InsertDotted(_, _, _)

\* insert_dotted(): what is in the way and no document is replaced by one.
InsertDotted(m, path, value) ==
    LET inner == IF path[1] \in DOMAIN m /\ m[path[1]].t = "doc" THEN m[path[1]].v ELSE Empty
    IN  (path[1] :> IF Len(path) = 1 THEN value ELSE Val("doc", InsertDotted(inner, Tail(path), value))) @@ m

\* Conversions: `as` wraps an integer and saturates a double.
Wrap(n, max) == ((n + max + 1) % (2 * max + 2)) - max - 1
Truncate(halves) == IF halves >= 0 THEN halves \div 2 ELSE -((-halves) \div 2)
Saturate(n, max) == IF n > max THEN max ELSE IF n < -max - 1 THEN -max - 1 ELSE n
ToInt(value, max) ==
    CASE value.t \in {"int32", "int64"} -> Wrap(value.v, max)
      [] value.t = "double" -> Saturate(Truncate(value.v), max)
      [] value.t = "bool" -> IF value.v THEN 1 ELSE 0
      [] value.t = "str" -> value.v.v
IntReadable(value, max) ==
    value.t \in {"int32", "int64", "double", "bool"} \/ (value.t = "str" /\ value.v.shape \in {"i32", "i64"} /\ Saturate(value.v.v, max) = value.v.v)
ToDouble(value) ==
    CASE value.t \in {"int32", "int64"} -> 2 * value.v
      [] value.t = "double" -> value.v
      [] value.t = "bool" -> IF value.v THEN 2 ELSE 0
      [] value.t = "str" -> IF value.v.shape = "float" THEN value.v.v ELSE 2 * value.v.v
ToBool(value) ==
    CASE value.t = "bool" -> value.v
      [] value.t \in {"int32", "int64", "double"} -> value.v # 0
      [] value.t = "str" -> IF value.v.shape = "bool" THEN value.v.v ELSE value.v.shape = "i32" /\ value.v.v = 1

\* coerce(); None where the row is an error.  (yes, no, y, n, t and f are left out.)
Coerce(value, type) ==
    CASE type = "keep" \/ IsNull(value) -> value
      [] type = "string" /\ ~IsNull(value) -> Val("str", CsvCell(value))
      [] type = "int32" /\ ~IsNull(value) -> IF IntReadable(value, MaxI32) THEN Val("int32", ToInt(value, MaxI32)) ELSE None
      [] type = "int64" /\ ~IsNull(value) -> IF IntReadable(value, MaxI64) THEN Val("int64", ToInt(value, MaxI64)) ELSE None
      [] type = "double" /\ ~IsNull(value) ->
            IF IntReadable(value, MaxI64) \/ (value.t = "str" /\ value.v.shape = "float") THEN Val("double", ToDouble(value)) ELSE None
      [] type = "boolean" /\ ~IsNull(value) ->
            IF value.t \in {"bool", "int32", "int64", "double"}
               \/ (value.t = "str" /\ (value.v.shape \in {"bool", "blank"} \/ (value.v.shape = "i32" /\ value.v.v \in {0, 1})))
              THEN Val("bool", ToBool(value)) ELSE None
      [] type = "date" /\ ~IsNull(value) ->
            IF value.t = "date" THEN value
            ELSE IF value.t = "str" /\ value.v.shape = "rfc3339" THEN Val("date", value.v.v)
            ELSE IF value.t # "bool" /\ IntReadable(value, MaxI64) THEN Val("date", ToInt(value, MaxI64)) ELSE None
      [] type = "objectId" /\ ~IsNull(value) -> 
            IF value.t = "oid" THEN value ELSE IF value.t = "str" /\ value.v.shape = "hex" THEN Val("oid", value.v.v) ELSE None

\* validate(): no empty path, no target twice, blanks around it aside.
TrimPath(path) ==
    CASE path = <<" ">> -> <<>> [] path # <<>> /\ path[1] = " b" -> [path EXCEPT ![1] = "b"] [] OTHER -> path
Valid(entries) ==
    /\ \A i \in DOMAIN entries : TrimPath(entries[i].source) # <<>> /\ (entries[i].skip \/ TrimPath(entries[i].target) # <<>>)
    /\ \A i, j \in DOMAIN entries :
          i # j /\ ~entries[i].skip /\ ~entries[j].skip => TrimPath(entries[i].target) # TrimPath(entries[j].target)

\* apply(): the row fails with the first value that cannot be converted.
Apply(entries, m) ==
    LET Used(e) == ~e.skip /\ ~IsNone(GetBsonPath(m, e.source))
        Result(e) == Coerce(GetBsonPath(m, e.source), e.type)
        Put(out, e) == IF Used(e) THEN InsertDotted(out, e.target, Result(e)) ELSE out
    IN  IF \E i \in DOMAIN entries : Used(entries[i]) /\ IsNone(Result(entries[i])) THEN None
        ELSE Val("doc", FoldLeft(Put, Empty, entries))

-----------------------------------------------------------------------------
(* Path templates: a template is a sequence of characters and placeholders. *)

Placeholder(t) == [placeholder |-> t, c |-> ""]
Char(c) == [placeholder |-> "", c |-> c]
SanitizeFilename(name) ==
    IF name = <<>> THEN <<"untitled">> ELSE [i \in DOMAIN name |-> IF name[i] \in {"/", "ctrl"} THEN "_" ELSE name[i]]

\* An unknown placeholder is copied.
LookupToken(t, ctx) ==
    CASE t = "date" -> <<"d">> [] t = "profile" -> SanitizeFilename(ctx.profile) [] t = "db" -> SanitizeFilename(ctx.db) [] OTHER -> <<"$", t>>
ResolvePath(template, ctx) ==
    FlattenSeq([i \in DOMAIN template |->
        IF template[i].placeholder = "" THEN <<template[i].c>> ELSE LookupToken(template[i].placeholder, ctx)])

-----------------------------------------------------------------------------
(* The preview of an import.                                               *)

Clamp(n, low, high) == IF n < low THEN low ELSE IF n > high THEN high ELSE n
\* preview_import(): rows are read until enough of them are documents.
Preview(rows, asked, most) ==
    LET limit == Clamp(asked, 1, most)
        Docs(n) == Cardinality({i \in 1 .. n : rows[i].t = "doc"})
        read == CHOOSE n \in 0 .. Len(rows) :
                    /\ Docs(n) >= limit \/ n = Len(rows)
                    /\ \A k \in 0 .. n - 1 : Docs(k) < limit
    IN  SelectSeq(SubSeq(rows, 1, read), LAMBDA r : r.t = "doc")

\* infer_fields(): how often a field is seen, and its type or "mixed".
InferFields(docs) ==
    LET Having(f) == {i \in DOMAIN docs : f \in DOMAIN docs[i].v}
        Types(f) == {docs[i].v[f].t : i \in Having(f)}
    IN  [f \in UNION {DOMAIN docs[i].v : i \in DOMAIN docs} |->
            [seen |-> Cardinality(Having(f)), type |-> IF Cardinality(Types(f)) = 1 THEN CHOOSE t \in Types(f) : TRUE ELSE "mixed"]]

-----------------------------------------------------------------------------
(* Properties.                                                             *)

\* What JsonSink writes, JsonArrayReader takes apart at the same places, whatever
\* brackets, commas, quotes, backslashes and line breaks are in the texts.
JsonReadsBack(docs) ==
    /\ ReadArray(WriteArray(docs)).phase = "end"
    /\ ReadArray(WriteArray(docs)).out = [i \in DOMAIN docs |-> Json(docs[i])]
    /\ ReadNdjson(WriteNdjson(docs)) = [i \in DOMAIN docs |-> Json(docs[i])]

\* A dump cut at any byte gives the documents before the cut, and an error unless
\* the cut is between two documents or within a length.  A document too long for the
\* reader ends the import with an error.
BsonReadsBack(sizes, cut) ==
    LET bytes == WriteBson(sizes)
        starts == [i \in 1 .. Len(sizes) + 1 |-> Len(WriteBson(SubSeq(sizes, 1, i - 1)))]
        whole == {i \in DOMAIN sizes : starts[i + 1] <= cut /\ \A j \in 1 .. i : sizes[j] <= MaxDoc}
    IN  ReadBson(SubSeq(bytes, 1, cut)) =
            [docs |-> Cardinality(whole), failed |-> cut - starts[Cardinality(whole) + 1] >= 4]

\* A document exported to CSV and imported again has every sampled field: numbers
\* with their value (a whole one beyond 64 bits as its digits), texts that look like
\* nothing else as they were, dates and ids as their text, null for what was missing.
\* A name with a dot in it is not among them (the export reads it as a path), and one
\* with blanks around it loses them.
SameMeaning(read, value) ==
    LET number == {"int32", "int64", "double"}
        Halves(v) == IF v.t = "double" THEN v.v ELSE 2 * v.v
    IN  CASE value.t \in {"none", "null"} -> IsNull(read)
          [] value.t = "double" /\ value.v % 2 = 0 /\ ~FitsI64(value.v \div 2) -> read.t = "str"
          [] value.t \in number -> read.t \in number /\ Halves(read) = Halves(value)
          [] value.t \in {"date", "oid"} -> read.t = "str" /\ read.v.v = value.v
          [] value.t = "str" -> value.v.shape \in {"word", "rfc3339", "hex"} => read = value
          [] OTHER -> read = value
CsvReadsBack(docs, limit) ==
    LET columns == SampleColumns(docs, limit)
    IN  \A i \in DOMAIN docs :
            LET read == ReadRow(Headers(columns), WriteRow(columns, docs[i]))
            IN  /\ Cardinality(DOMAIN read) = Len(columns)
                /\ \A c \in DOMAIN columns :
                      LET f == columns[c] IN
                      Len(f.b) = 1 =>
                          SameMeaning(read[Headers(columns)[c]], IF f \in ToSet(docs[i].keys) THEN docs[i].m[f] ELSE None)

\* No cell of a row is lost, unless a header is already what another one is
\* renamed to.
CellsKept(names) ==
    (\A i, j \in DOMAIN names : \A k \in 2 .. Len(names) : TrimName(names[i]) # Numbered(TrimName(names[j]), k))
        => \A cells \in [DOMAIN names -> {Text("i32", 1), Text("word", 2)}] :
              LET read == ReadRow(Headers(names), cells)
              IN  /\ Cardinality(DOMAIN read) = Len(names)
                  /\ \A i \in DOMAIN names : read[Headers(names)[i]] = BsonValueFromCell(cells[i])

\* A mapping whose targets are not inside each other puts every value it reads at
\* its target, converted, and nothing anywhere else; a number that fits the type
\* asked for stays the number it is.
MappingPlaces(entries, m) ==
    LET out == Apply(entries, m)
        used == {i \in DOMAIN entries : ~entries[i].skip}
        apart == \A i, j \in used : i # j => ~IsPrefix(entries[i].target, entries[j].target)
    IN  Valid(entries) /\ apart /\ ~IsNone(out) =>
            \A i \in used :
                LET value == GetBsonPath(m, entries[i].source)
                    placed == GetBsonPath(out.v, entries[i].target)
                IN  IF IsNone(value) THEN IsNone(placed)
                    ELSE /\ placed = Coerce(value, entries[i].type)
                         /\ value.t \in {"int32", "int64"} /\ FitsI32(value.v) /\ entries[i].type \in {"int32", "int64"}
                                => placed.v = value.v

\* Names put into a path template add no directory to it.
NamesAddNoSegments(template, ctx) ==
    LET Slashes(s) == Cardinality({i \in DOMAIN s : s[i] = "/"})
    IN  Slashes(ResolvePath(template, ctx)) = Cardinality({i \in DOMAIN template : template[i].c = "/"})

\* The preview shows the first documents of what the import will read, and counts
\* and types of fields that agree with them.
PreviewTellsImport(rows, asked, most) ==
    LET docs == SelectSeq(rows, LAMBDA r : r.t = "doc")
        shown == Preview(rows, asked, most)
        fields == InferFields(shown)
    IN  /\ IsPrefix(shown, docs)
        /\ Len(shown) < Clamp(asked, 1, most) => shown = docs
        /\ \A f \in DOMAIN fields : fields[f].type # "mixed" =>
              fields[f].seen = Cardinality({i \in DOMAIN shown : f \in DOMAIN shown[i].v /\ shown[i].v[f].t = fields[f].type})
=============================================================================
