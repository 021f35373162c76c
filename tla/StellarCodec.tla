---------------------------- MODULE StellarCodec ----------------------------
(***************************************************************************)
(* How the native client reads what the Soroban host returns.              *)
(*                                                                         *)
(* An ScVal is a record [t |-> its type, v |-> its content]; the content   *)
(* of "vec" is a sequence of ScVals, that of "map" a function from field   *)
(* names to ScVals.  A byte string is a sequence of bytes; the hexadecimal *)
(* text of a byte string stands for the byte string.                       *)
(***************************************************************************)
EXTENDS Naturals, Integers, Sequences, SequencesExt, Functions

None == [none |-> TRUE]

Void == [t |-> "void", v |-> <<>>]

IsVec(val) == val.t = "vec" /\ val.v # <<>>

\* The content of a field if it is there with the expected type, else the
\* value the struct was initialised with.
Field(map, name, type, default) ==
    IF name \in DOMAIN map /\ map[name].t = type THEN map[name].v ELSE default

\* Option<struct>: Void, a bare Map, or a Vec that holds the Map.
Unwrapped(val) == IF IsVec(val) THEN val.v[1] ELSE val

MapOf(val) == IF Unwrapped(val).t = "map" THEN Unwrapped(val).v ELSE << >>

----------------------------------------------------------------------------
(* Return values of the calls.                                             *)

CommitSequence(val) == IF val.t = "u64" THEN val.v ELSE 0

RecordId(val) == IF val.t = "u64" THEN val.v
                 ELSE IF IsVec(val) /\ val.v[1].t = "u64" THEN val.v[1].v ELSE 0

\* verify_inclusion_native: only a boolean inside a Vec counts.
SignedVerdict(val) == IsVec(val) /\ val.v[1].t = "bool" /\ val.v[1].v

\* verify_inclusion_readonly_native, verify_disclosure_readonly_native.
ReadonlyVerdict(val) ==
    \/ val.t = "bool" /\ val.v
    \/ IsVec(val) /\ val.v[1].t = "bool" /\ val.v[1].v

\* A simulation error is a verdict when it names a contract error or is an error
\* of the RPC itself; any other failure is the caller's error.
ReadonlyOutcome(sim) ==
    IF sim.error = "none" THEN [ok |-> TRUE, verified |-> ReadonlyVerdict(sim.val)]
    ELSE IF sim.error \in {"contract", "rpc"} THEN [ok |-> TRUE, verified |-> FALSE]
    ELSE [ok |-> FALSE, verified |-> FALSE]

\* classify_verify_error: the codes of CommitmentError that get a reason of their own.
ClassifyError(code) ==
    CASE code = 7 -> "root not committed" [] code = 8 -> "pairing check failed"
      [] code = 4 -> "invalid proof encoding" [] code = 9 -> "not initialized"
      [] code = 5 -> "malformed key" [] code = 18 -> "no disclosure key"
      [] OTHER -> "verification failed"

GetAdmin(val) ==
    LET inner == IF IsVec(val) THEN val.v[1] ELSE val
    IN  IF inner.t = "account" THEN inner.v ELSE None

GetThreshold(val) == IF val.t = "u32" THEN val.v ELSE 1

RootEntry(map) ==
    [sequence |-> Field(map, "sequence", "u64", 0), root |-> Field(map, "root", "bytes", <<>>),
     timestamp |-> Field(map, "timestamp", "u64", 0), metadata |-> Field(map, "metadata", "string", <<>>)]

GetCurrentRoot(val) ==
    LET entry == RootEntry(MapOf(val)) IN IF entry.root = <<>> THEN None ELSE entry

\* Mutant: the history is read like the single entry, which unwraps one Vec.
GetRootHistory_Unwraps(val) ==
    LET entries == IF IsVec(val) /\ val.v[1].t = "vec" THEN val.v[1].v ELSE <<>>
    IN  SelectSeq([i \in DOMAIN entries |-> RootEntry(entries[i].v)], LAMBDA e : e.root # <<>>)

\* Entries that are not maps, and those without a root, are passed over.
GetRootHistory(val) ==
    LET entries == IF val.t = "vec" THEN SelectSeq(val.v, LAMBDA e : e.t = "map") ELSE <<>>
    IN  SelectSeq([i \in DOMAIN entries |-> RootEntry(entries[i].v)], LAMBDA e : e.root # <<>>)

GetOplogCommitment(sequence, val) ==
    LET map == MapOf(val)
    IN  IF Field(map, "oplog_root", "bytes", <<>>) = <<>> THEN None
        ELSE [sequence |-> sequence, oplogRoot |-> Field(map, "oplog_root", "bytes", <<>>),
              start |-> Field(map, "oplog_start_ts", "u64", 0),
              end |-> Field(map, "oplog_end_ts", "u64", 0),
              count |-> Field(map, "oplog_entry_count", "u64", 0)]

GetOplogAttestations(val) ==
    LET maps == IF val.t = "vec" THEN SelectSeq(val.v, LAMBDA e :
                    e.t = "map" /\ "attester" \in DOMAIN e.v /\ e.v["attester"].t = "account") ELSE <<>>
    IN  [i \in DOMAIN maps |-> maps[i].v["attester"].v]

DisclosureRecord(map) ==
    [id |-> Field(map, "record_id", "u64", 0), verifier |-> Field(map, "verifier", "account", <<>>),
     root |-> Field(map, "root", "bytes", <<>>), leaf |-> Field(map, "leaf", "bytes", <<>>),
     ts |-> <<Field(map, "ts_min", "u64", 0), Field(map, "ts_max", "u64", 0)>>,
     preds |-> <<Field(map, "op_pred", "bytes", <<>>), Field(map, "coll_pred", "bytes", <<>>)>>,
     checks |-> [c \in {"check_op", "check_coll", "check_ts"} |-> Field(map, c, "bool", FALSE)],
     timestamp |-> Field(map, "timestamp", "u64", 0)]

\* A record whose id is zero was not decoded.
GetDisclosureRecords(val) ==
    LET maps == IF val.t = "vec" THEN SelectSeq(val.v, LAMBDA e : e.t = "map") ELSE <<>>
    IN  SelectSeq([i \in DOMAIN maps |-> DisclosureRecord(maps[i].v)], LAMBDA r : r.id # 0)

VerifyAttestation(sequence, val) ==
    IF val.t # "map" THEN None
    ELSE [sequence |-> Field(val.v, "sequence", "u64", sequence),
          root |-> Field(val.v, "oplog_root", "bytes", <<>>),
          attested |-> Field(val.v, "attestation_count", "u32", 0),
          authorized |-> Field(val.v, "authorized_count", "u32", 0),
          threshold |-> Field(val.v, "threshold", "u32", 1),
          allMatch |-> Field(val.v, "all_match", "bool", FALSE),
          verdict |-> Field(val.v, "verdict", "string", <<>>)]

----------------------------------------------------------------------------
(* Arguments: a struct of the contract is a map whose entries are sorted by *)
(* name; a field whose text is not hexadecimal makes the whole call fail.   *)

Hex(text) == IF text = None THEN None ELSE [t |-> "bytes", v |-> text]

BuildSortedScmap(order, fields) ==
    IF \E f \in Range(order) : fields[f] = None THEN None
    ELSE [t |-> "map", v |-> [f \in Range(order) |-> Hex(fields[f])]]

BuildProof(a, b, c) == BuildSortedScmap(<<"a", "b", "c">>, [a |-> a, b |-> b, c |-> c])

BuildVerifyingKey(points) ==
    BuildSortedScmap(<<"alpha", "beta", "delta", "gamma", "ic">>, points)

BuildVerifyInclusionArgs(root, leaf, proof) ==
    IF None \in {root, leaf, proof} THEN None ELSE <<Hex(root), Hex(leaf), proof>>

BuildDisclosureArgs(root, leaf, claim, proof) ==
    IF None \in {root, leaf, claim.op, claim.coll, proof} THEN None
    ELSE <<Hex(root), Hex(leaf), Hex(claim.op), Hex(claim.coll), claim.ts, claim.checks, proof>>

----------------------------------------------------------------------------
(* Fees, in stroops, in 32 bits.                                           *)

BaseFee == 100

MaxFeeStroops(minFee) ==
    LET buffered == ((minFee + BaseFee) * 110) \div 100
    IN  IF buffered < BaseFee THEN BaseFee ELSE buffered

\* The buffered fee is replaced whenever the simulation named a resource fee.
AttachedFee(minFee) == IF minFee = None THEN MaxFeeStroops(0) ELSE BaseFee + minFee + 1

----------------------------------------------------------------------------
(* The result of a rejected or failed transaction: TransactionResult is    *)
(* feeCharged (8 bytes), a code (4), and for txFAILED the first operation. *)

DecodeTxResultCode(words) == IF Len(words) < 3 THEN None ELSE words[3]

IsBadSeqError(words) == DecodeTxResultCode(words) = -5

DescribeFailedResult(words) ==
    IF DecodeTxResultCode(words) = -1 /\ Len(words) >= 7 /\ words[6] = 24
    THEN <<"operation", words[7]>> ELSE <<"transaction", DecodeTxResultCode(words)>>

----------------------------------------------------------------------------
(* What the host sends for the contract's types: a struct is a map, a vector *)
(* a vec, a result or an option the value itself or a vec that holds it.    *)

HostVal(type, v) == [t |-> type, v |-> v]
HostEntry(e) ==
    HostVal("map", [sequence |-> HostVal("u64", e.sequence), root |-> HostVal("bytes", e.root),
                    timestamp |-> HostVal("u64", e.timestamp), metadata |-> HostVal("string", e.metadata)])
HostOplog(c) ==
    HostVal("map", [oplog_root |-> HostVal("bytes", c.oplogRoot), oplog_start_ts |-> HostVal("u64", c.start),
                    oplog_end_ts |-> HostVal("u64", c.end), oplog_entry_count |-> HostVal("u64", c.count)])
HostAttestation(key) == HostVal("map", [attester |-> HostVal("account", key), signature |-> HostVal("bytes", <<1>>)])
HostSeq(vals) == HostVal("vec", vals)
Encoding == {"bare", "wrapped"}
Encoded(val, as) == IF as = "bare" THEN val ELSE HostSeq(<<val>>)

\* What the contract holds is what the client reports, in either encoding: a history of
\* any length in its order, the current root, an oplog commitment and its attesters, each
\* of them also when there is none, the admin, the id of a record, and the verdict of a
\* simulation.
HostValuesRead(entries, oplog, keys, verdict) ==
    /\ GetRootHistory(HostSeq([i \in DOMAIN entries |-> HostEntry(entries[i])])) = entries
    /\ GetCurrentRoot(Void) = None /\ GetOplogCommitment(1, Void) = None
    /\ entries # <<>> => \A as \in Encoding : LET val == Encoded(HostEntry(Last(entries)), as) IN GetCurrentRoot(val) = Last(entries)
    /\ \A as \in Encoding : LET val == Encoded(HostOplog(oplog), as) IN GetOplogCommitment(oplog.sequence, val) = oplog
    /\ GetOplogAttestations(HostSeq([i \in DOMAIN keys |-> HostAttestation(keys[i])])) = keys
    /\ \A i \in DOMAIN keys : \A as \in Encoding : LET val == Encoded(HostVal("account", keys[i]), as) IN GetAdmin(val) = keys[i]
    /\ \A as \in Encoding : LET val == Encoded(HostVal("u64", oplog.sequence), as) IN RecordId(val) = oplog.sequence
    /\ \A as \in Encoding : LET val == Encoded(HostVal("bool", verdict), as) IN
          ReadonlyOutcome([error |-> "none", val |-> val]) = [ok |-> TRUE, verified |-> verdict]

\* "Result<bool, _> arrives either as a bare Bool or wrapped as Vec([Bool])": the verdict of
\* a submitted verify_inclusion is the contract's in both encodings.
SubmittedVerdictRead(verdict) ==
    \A as \in Encoding : LET val == Encoded(HostVal("bool", verdict), as) IN SignedVerdict(val) = verdict
=============================================================================
