------------------------------ MODULE Transfer ------------------------------
(***************************************************************************)
(* One transfer job of the desktop application: the streaming pipeline     *)
(* (src-tauri/src/mongo/import_export/core.rs) with its sources and sinks, *)
(* the atomic file writer (io_util.rs), and the five commands that drive   *)
(* it: export, copy, import (commands/export.rs, import.rs), dump and      *)
(* restore (dump.rs, restore.rs), the last two collection by collection.   *)
(*                                                                         *)
(* A document is known by the collection it comes from and its place in    *)
(* it.  Its row is "id", "noid" (a document without _id) or "bad" (a row   *)
(* the source reports or the field mapping refuses).                       *)
(***************************************************************************)
EXTENDS Integers, Sequences, FiniteSets, SequencesExt

CONSTANTS
  Command,     \* commands that are started
  Source,      \* for each collection of the job, what its rows may be
  BatchSize,   \* batch_size of a CollectionSink
  MaxErrors    \* max_errors of a JobContext

ASSUME TransferAssumption ==
  /\ Command \subseteq {"export", "clipboard", "copy", "import", "dump", "restore"}
  /\ Source \subseteq Seq({"id", "noid", "bad"})
  /\ BatchSize \in Nat \ {0} /\ MaxErrors \in Nat

VARIABLES
  job,        \* the request: command, compression, shared path, strategy
  src,        \* the rows of each collection
  pc, cur,    \* step, and the collection worked on
  row,        \* rows read of it
  errors,     \* row errors of it
  written,    \* what its sink has taken
  batch,      \* CollectionSink.batch
  inserted,   \* the counter `inserted`
  files,      \* final paths with their content; Old is one from before
  part,       \* paths with a .part file
  stored,     \* documents in the target collections
  flag,       \* the cancel flag
  failed,     \* total_errors > 0 of the loop, or the pipeline's error
  seen,       \* the loop, or the report, saw the flag
  status,     \* of the job
  passed,     \* collections the restore loop passed over
  leaked      \* history: a sink failed to start, to finish or to be removed

transferVars == <<job, src, pc, cur, row, errors, written, batch, inserted, files, part,
          stored, flag, failed, seen, status, passed, leaked>>

Old == {<<0, 0>>}                             \* a file from before
Present == <<1, 0>>                          \* a document that was there before
JobCollections == DOMAIN src
Looping == job.command \in {"dump", "restore"}
ToFile == job.command \in {"export", "dump"}
ToCollection == job.command \in {"copy", "import", "restore"}

(* resolve_dump_path: the template may leave ${collection} out.            *)
Path(c) == IF job.shared THEN 1 ELSE c

(* What a sink writes for collection c when nothing fails.                 *)
Good(c) == {<<c, n>> : n \in {i \in DOMAIN src[c] : src[c][i] # "bad"}}

JobRequests ==
  {j \in [command : Command, compressed : BOOLEAN, shared : BOOLEAN,
          strategy : {"drop", "skip", "upsert"}] :
     /\ j.shared => j.command = "dump"
     /\ j.compressed => j.command \in {"export", "dump"}
     /\ j.command # "restore" => j.strategy = "skip"}

(* Only a text source or a field mapping refuses single rows; a cursor and *)
(* a BSON file give documents until they fail as a whole.                  *)
RowsFit(rows) ==
  \/ job.command \in {"import", "export", "clipboard"}
  \/ \A i \in DOMAIN rows : rows[i] # "bad"

TransferInit ==
  /\ job \in JobRequests
  /\ src \in [1 .. (IF Looping THEN 2 ELSE 1) -> {r \in Source : RowsFit(r)}]
  /\ pc = "start" /\ cur = 1 /\ row = 0 /\ errors = 0 /\ written = {} /\ batch = <<>>
  /\ inserted = 0 /\ stored \in {{}, {Present}}
  /\ files \in {<<>>, [p \in {1} |-> Old]} /\ part = {}
  /\ flag = FALSE /\ failed = FALSE /\ seen = FALSE
  /\ status = "queued" /\ passed = {} /\ leaked = FALSE

Cancel ==
  /\ ~flag /\ pc # "ended" /\ flag' = TRUE
  /\ UNCHANGED <<job, src, pc, cur, row, errors, written, batch, inserted, files, part,
                 stored, failed, seen, status, passed, leaked>>

Counters == <<row, errors, written, batch>>
Outcome == <<failed, seen, status>>
Same == UNCHANGED <<job, src, flag>>

----------------------------------------------------------------------------
(* The commands: checks, the record of the job, the loop over collections. *)

(* Each command checks its request, makes the record of the job and sets   *)
(* it running; a refused one has made no record and is not modelled.       *)
Started(to) ==
  /\ pc = "start" /\ status' = "running" /\ pc' = to
  /\ Same /\ UNCHANGED <<cur, Counters, inserted, files, stored, failed, seen, passed, leaked>>

(* run_export has created its .part file by then.                          *)
StartExport ==
  /\ job.command \in {"export", "clipboard"} /\ Started("open")
  /\ part' = IF ToFile THEN part \cup {Path(1)} ELSE part

StartCopy == job.command = "copy" /\ Started("open") /\ UNCHANGED part
StartImport == job.command = "import" /\ Started("open") /\ UNCHANGED part
StartDump == job.command = "dump" /\ Started("collection") /\ UNCHANGED part
StartRestore == job.command = "restore" /\ Started("collection") /\ UNCHANGED part

StartJob == StartExport \/ StartCopy \/ StartImport \/ StartDump \/ StartRestore

(* The head of the loop of dump and restore.                               *)
NextCollection ==
  /\ pc = "collection"
  /\ \/ cur > Len(src) /\ pc' = "conclude" /\ UNCHANGED seen
     \/ cur <= Len(src) /\ flag /\ pc' = "conclude" /\ seen' = TRUE
     \/ cur <= Len(src) /\ ~flag /\ pc' = "open" /\ UNCHANGED seen
  /\ Same /\ UNCHANGED <<cur, Counters, inserted, files, part, stored, failed, status, passed, leaked>>

(* A cursor, a count, a file that does not open: `?` leaves the function.  *)
EarlyReturn ==
  /\ pc = "open" /\ Looping /\ pc' = "ended"
  /\ \/ UNCHANGED <<part, leaked>>
     \/ job.compressed /\ part' = part \cup {Path(cur)} /\ leaked' = TRUE
  /\ Same /\ UNCHANGED <<cur, Counters, inserted, files, stored, Outcome, passed>>

(* restore: no source file, or the strategy skips what is there.           *)
PassOver ==
  /\ pc = "open" /\ job.command = "restore"
  /\ passed' = passed \cup {cur} /\ cur' = cur + 1 /\ pc' = "collection"
  /\ Same /\ UNCHANGED <<Counters, inserted, files, part, stored, Outcome, leaked>>

Here == {d \in stored : d[1] = cur}

(* A failed drop() is ignored.                                             *)
OpenSource ==
  /\ pc = "open" /\ pc' = "begin"
  /\ job.command = "restore" /\ job.strategy = "skip" => Here = {}
  /\ part' = IF job.command = "dump" THEN part \cup {Path(cur)} ELSE part
  /\ \/ UNCHANGED stored
     \/ job.command = "restore" /\ job.strategy = "drop" /\ stored' = stored \ Here
  /\ row' = 0 /\ errors' = 0 /\ written' = {} /\ batch' = <<>>
  /\ Same /\ UNCHANGED <<cur, inserted, files, Outcome, passed, leaked>>

----------------------------------------------------------------------------
(* run_pipeline.                                                           *)

PipelineOnly == Same /\ UNCHANGED <<cur, status, passed>>

(* Where the pipeline's result goes: the loop of dump and restore counts   *)
(* an error, and does not look at `cancelled` of the report.               *)
Returns(ok, cancelled) ==
  /\ pc' = "returned"
  /\ failed' = (failed \/ ~ok \/ (Looping /\ errors > 0))
  /\ seen' = (seen \/ (cancelled /\ ~Looping))

(* sink.start() failed; the sink is dropped, not aborted.                  *)
SinkStartFails ==
  /\ pc = "begin" /\ ToFile
  /\ leaked' = TRUE /\ UNCHANGED <<Counters, inserted, files, part, stored>>
  /\ Returns(FALSE, FALSE) /\ PipelineOnly

SinkStarts ==
  /\ pc = "begin" /\ pc' = "rows"
  /\ PipelineOnly /\ UNCHANGED <<Counters, inserted, files, part, stored, failed, seen, leaked>>

(* The abort of a sink removes the .part file; a compressor that cannot    *)
(* finish has lost the writer.                                             *)
AbortSink ==
  \E lost \in BOOLEAN :
    /\ lost => job.compressed
    /\ part' = IF ToFile /\ ~lost THEN part \ {Path(cur)} ELSE part
    /\ leaked' = (leaked \/ lost)

SourceFails ==
  /\ pc = "rows" /\ ~flag
  /\ AbortSink /\ UNCHANGED <<Counters, inserted, files, stored>>
  /\ Returns(FALSE, FALSE) /\ PipelineOnly

HasRow == pc = "rows" /\ ~flag /\ row < Len(src[cur])
RowKind == src[cur][row + 1]

(* A row error, from the source or from the field mapping.                 *)
BadRow ==
  /\ HasRow /\ RowKind = "bad"
  /\ row' = row + 1 /\ errors' = errors + 1 /\ UNCHANGED <<written, batch, inserted, stored, files>>
  /\ IF errors' > MaxErrors THEN AbortSink /\ Returns(FALSE, FALSE)
     ELSE UNCHANGED <<pc, part, failed, seen, leaked>>
  /\ PipelineOnly

(* A document goes to the batch; a full one is flushed.                    *)
WriteToCollection ==
  /\ HasRow /\ RowKind # "bad" /\ ToCollection
  /\ row' = row + 1 /\ written' = written \cup {<<cur, row + 1>>}
  /\ batch' = Append(batch, <<cur, row + 1>>)
  /\ pc' = IF Len(batch') < BatchSize THEN "rows" ELSE "flush"
  /\ PipelineOnly /\ UNCHANGED <<errors, inserted, files, part, stored, failed, seen, leaked>>

(* CollectionSink::flush, of a full batch or of what is left at the end.   *)
Flushing == pc \in {"flush", "finish"}
Flushed == IF pc = "flush" THEN pc' = "rows" /\ UNCHANGED <<failed, seen>> ELSE Returns(TRUE, FALSE)
Upserting == job.command = "restore" /\ job.strategy = "upsert"

(* insert_many in order: the documents before the one that fails are in.   *)
InsertMany ==
  /\ Flushing /\ ~Upserting
  /\ \E k \in 0 .. Len(batch) :
       /\ stored' = stored \cup {batch[i] : i \in 1 .. k}
       /\ IF k = Len(batch) THEN inserted' = inserted + k /\ Flushed
          ELSE inserted' = inserted /\ Returns(FALSE, FALSE)
  /\ batch' = <<>>
  /\ PipelineOnly /\ UNCHANGED <<row, errors, written, files, part, leaked>>

(* What replace_one with upsert may make of the target.  A document        *)
(* without _id has an empty filter: it replaces whatever is found first.   *)
ReplaceOne(all, d) ==
  LET here == {v \in all : v[1] = d[1]}
  IN IF src[d[1]][d[2]] = "id" \/ here = {} THEN {all \cup {d}}
     ELSE {(all \ {v}) \cup {d} : v \in here}

(* The documents one by one, until one fails.                              *)
Upsert ==
  /\ Flushing /\ Upserting
  /\ \/ /\ batch # <<>> /\ batch' = Tail(batch)
        /\ stored' \in ReplaceOne(stored, Head(batch)) /\ inserted' = inserted + 1
        /\ UNCHANGED <<pc, failed, seen>>
     \/ batch # <<>> /\ batch' = <<>> /\ Returns(FALSE, FALSE) /\ UNCHANGED <<stored, inserted>>
     \/ batch = <<>> /\ Flushed /\ UNCHANGED <<batch, stored, inserted>>
  /\ PipelineOnly /\ UNCHANGED <<row, errors, written, files, part, leaked>>

WriteToOutput ==
  /\ HasRow /\ RowKind # "bad" /\ ~ToCollection
  /\ row' = row + 1 /\ UNCHANGED <<errors, batch, inserted, stored, files>>
  /\ \/ written' = written \cup {<<cur, row + 1>>} /\ UNCHANGED <<pc, part, failed, seen, leaked>>
     \/ ToFile /\ UNCHANGED written /\ AbortSink /\ Returns(FALSE, FALSE)
  /\ PipelineOnly

(* Mutant: the flag is looked at in the loop only, and then the sink is    *)
(* finished. *)
Cancelled_Finishes ==
  /\ pc = "rows" /\ flag
  /\ files' = IF ToFile THEN [p \in DOMAIN files \cup {Path(cur)} |->
                                IF p = Path(cur) THEN written ELSE files[p]] ELSE files
  /\ part' = part \ {Path(cur)} /\ UNCHANGED leaked
  /\ UNCHANGED <<Counters, inserted, stored>> /\ Returns(TRUE, TRUE) /\ PipelineOnly

(* After the loop: the flag is set, whether the loop saw it or the rows    *)
(* had come to their end.                                                  *)
Cancelled ==
  /\ pc = "rows" /\ flag
  /\ AbortSink /\ UNCHANGED <<Counters, inserted, files, stored>>
  /\ Returns(TRUE, TRUE) /\ PipelineOnly

AtEnd == pc = "rows" /\ ~flag /\ row = Len(src[cur])

(* AtomicFileWriter::commit: flush, sync and rename.                       *)
FinishFile ==
  /\ AtEnd /\ ToFile /\ UNCHANGED <<Counters, inserted, stored>>
  /\ \/ /\ files' = [p \in DOMAIN files \cup {Path(cur)} |->
                       IF p = Path(cur) THEN written ELSE files[p]]
        /\ part' = part \ {Path(cur)} /\ UNCHANGED leaked /\ Returns(TRUE, FALSE)
     \/ leaked' = TRUE /\ UNCHANGED <<files, part>> /\ Returns(FALSE, FALSE)
  /\ PipelineOnly

FinishClipboard ==
  /\ AtEnd /\ job.command = "clipboard" /\ Returns(TRUE, FALSE)
  /\ UNCHANGED <<Counters, inserted, files, part, stored, leaked>> /\ PipelineOnly

FinishCollection ==
  /\ AtEnd /\ ToCollection /\ pc' = "finish"
  /\ UNCHANGED <<Counters, inserted, files, part, stored, failed, seen, leaked>> /\ PipelineOnly

Pipeline ==
  \/ SinkStartFails \/ SinkStarts \/ SourceFails \/ BadRow \/ WriteToCollection \/ InsertMany \/ Upsert
  \/ WriteToOutput \/ Cancelled \/ FinishFile \/ FinishClipboard \/ FinishCollection

----------------------------------------------------------------------------
(* Back in the command.                                                    *)

Returned ==
  /\ pc = "returned"
  /\ IF Looping THEN cur' = cur + 1 /\ pc' = "collection" ELSE pc' = "conclude" /\ UNCHANGED cur
  /\ Same /\ UNCHANGED <<Counters, inserted, files, part, stored, Outcome, passed, leaked>>

Conclude ==
  /\ pc = "conclude" /\ pc' = "ended"
  /\ status' = IF seen THEN "cancelled" ELSE IF failed THEN "failed" ELSE "done"
  /\ Same /\ UNCHANGED <<cur, Counters, inserted, files, part, stored, failed, seen, passed, leaked>>

TransferNext ==
  \/ Cancel \/ StartJob \/ NextCollection \/ EarlyReturn \/ PassOver \/ OpenSource
  \/ Pipeline \/ Returned \/ Conclude

TransferSpec == TransferInit /\ [][TransferNext]_transferVars

----------------------------------------------------------------------------
(* Properties.                                                             *)

(* A final path holds what it held before or the whole output of one       *)
(* collection, at every moment: not a cancelled, failed or running one's.  *)
FinalFileWhole ==
  \A p \in DOMAIN files : files[p] = Old \/ \E c \in JobCollections : Path(c) = p /\ files[p] = Good(c)

NoId == \E c \in JobCollections : \E i \in DOMAIN src[c] : src[c][i] = "noid"

(* A job that is done has transferred every good row of every collection   *)
(* it did not pass over.  Exempt: a dump or restore flagged to stop in its *)
(* last collection, a path shared by all collections, and documents        *)
(* without _id that replaced each other.                                   *)
DoneMeansAllStored ==
  status = "done" /\ ~(Looping /\ flag) /\ ~job.shared =>
    \A c \in JobCollections \ passed :
      /\ ToFile => c \in DOMAIN files /\ files[c] = Good(c)
      /\ ToCollection /\ ~(Upserting /\ NoId) => Good(c) \subseteq stored
      /\ job.command = "clipboard" => written = Good(c)

(* The reported number of inserted documents never exceeds what is in the  *)
(* target, although a batch may fail half way.                             *)
InsertedNotOverstated ==
  ~(Upserting /\ NoId) => inserted <= Cardinality(stored \ {Present})

(* When a job is over, no .part file is left unless the output could not   *)
(* be started, finished or taken back.                                     *)
PartOnlyAfterFault == pc = "ended" /\ ~leaked => part = {}

(* "no _id -> always insert", says CollectionSink of an upsert: each       *)
(* document counted as inserted is there.                                  *)
UpsertInsertsWithoutId == Upserting => inserted <= Cardinality(stored \ {Present})

(* A transfer never reports more than it did, and leaves no half output.   *)
TransfersTellTheTruth == FinalFileWhole /\ DoneMeansAllStored /\ InsertedNotOverstated /\ PartOnlyAfterFault
=============================================================================
