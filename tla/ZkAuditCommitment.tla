-------------------------- MODULE ZkAuditCommitment --------------------------
(***************************************************************************)
(* The Soroban commitment contract (zk-audit/soroban-contract): the        *)
(* on-chain log of Merkle roots, the oplog commitments bound to them, the  *)
(* attesters' signatures, and the record of verified disclosures.          *)
(*                                                                         *)
(* Every action is one successful invocation.  Soroban runs invocations    *)
(* one after the other and rolls back an invocation that returns an error  *)
(* or panics, so an error path is a stuttering step and appears only as    *)
(* the guard it comes from.  Ledger timestamps, metadata strings and       *)
(* events are left out; a signature and a proof are the statement they     *)
(* were made for, which is what the host's verification establishes.       *)
(***************************************************************************)
EXTENDS Naturals, Sequences, FiniteSets

CONSTANTS
  Address,      \* accounts
  Root,         \* audit-log Merkle roots
  OplogRoot,    \* oplog Merkle roots of the right length (32 bytes)
  Key,          \* ed25519 public keys
  Vk,           \* Groth16 verifying keys
  Claim,        \* (leaf, predicates) of an inclusion or disclosure proof
  Ts,           \* packed oplog timestamps
  Thresholds,   \* K values an admin may set
  MaxRecords,   \* bound on the disclosure log
  None          \* an unset storage slot

ASSUME ContractAssumption ==
  /\ Ts \subseteq Nat
  /\ Thresholds \subseteq Nat
  /\ MaxRecords \in Nat
  /\ None \notin Address /\ None \notin Vk

VARIABLES
  \* instance storage
  admin, sequence, currentRoot, attesters, threshold, verifyingKey,
  disclosureVk, recordCount,
  \* persistent storage
  rootEntry, rootIndex, oplogCommitment, oplogAttestations, disclosureRecord

chainVars == <<sequence, currentRoot, rootEntry, rootIndex, oplogCommitment>>
trustVars == <<admin, attesters, threshold, verifyingKey>>
disclosureVars == <<disclosureVk, recordCount, disclosureRecord>>
vars == <<chainVars, trustVars, disclosureVars, oplogAttestations>>

-----------------------------------------------------------------------------
(* Stored records *)

RootEntry == [sequence : Nat, root : Root]

OplogCommitment == [oplog_root : OplogRoot, oplog_start_ts : Ts, oplog_end_ts : Ts]

(* An ed25519 signature verifies under the key and over the (oplog_root,   *)
(* end_ts) pair it was made for.                                           *)
Signature == [key : Key, oplog_root : OplogRoot, end_ts : Ts]

OplogAttestation == [attester : Address, signature : Signature]

(* A Groth16 proof verifies under the key and for the public signals it    *)
(* was made for.                                                           *)
Proof == [vk : Vk, root : Root, claim : Claim]

DisclosureRecord == [verifier : Address, root : Root, claim : Claim]

(* Map::set: `f` with key `k` bound to `v`. *)
Put(f, k, v) == [x \in DOMAIN f \cup {k} |-> IF x = k THEN v ELSE f[x]]

(* Map::remove *)
Drop(f, k) == [x \in DOMAIN f \ {k} |-> f[x]]

(* `f` is a storage map with keys in `S` and values in `T`. *)
IsMap(f, S, T) ==
  /\ f = [x \in DOMAIN f |-> f[x]]
  /\ DOMAIN f \subseteq S
  /\ \A x \in DOMAIN f : f[x] \in T

-----------------------------------------------------------------------------
(* Storage before any invocation: every slot absent.  get_threshold reads  *)
(* an absent threshold as 1, and an absent sequence or count reads as 0.   *)
Init ==
  /\ admin = None
  /\ sequence = 0
  /\ currentRoot = 0
  /\ attesters = [x \in {} |-> None]
  /\ threshold = 1
  /\ verifyingKey = None
  /\ disclosureVk = None
  /\ recordCount = 0
  /\ rootEntry = [x \in {} |-> None]
  /\ rootIndex = [x \in {} |-> None]
  /\ oplogCommitment = [x \in {} |-> None]
  /\ oplogAttestations = [x \in {} |-> None]
  /\ disclosureRecord = [x \in {} |-> None]

Initialized == admin # None

(* get_admin_or_err / get_admin_or_panic followed by admin.require_auth() *)
AdminAuth(signer) == Initialized /\ signer = admin

(* initialize resets the sequence counter to 0 whatever it held. *)
Initialize(signer, vk) ==
  /\ ~Initialized
  /\ admin' = signer
  /\ sequence' = 0
  /\ threshold' = 1
  /\ verifyingKey' = vk
  /\ UNCHANGED <<currentRoot, rootEntry, rootIndex, oplogCommitment, attesters,
                 disclosureVars, oplogAttestations>>

SetAdmin(signer, newAdmin) ==
  /\ AdminAuth(signer)
  /\ admin' = newAdmin
  /\ UNCHANGED <<attesters, threshold, verifyingKey, chainVars, disclosureVars,
                 oplogAttestations>>

SetThreshold(signer, k) ==
  /\ AdminAuth(signer)
  /\ k >= 1
  /\ threshold' = k
  /\ UNCHANGED <<admin, attesters, verifyingKey, chainVars, disclosureVars,
                 oplogAttestations>>

-----------------------------------------------------------------------------
(* The root log *)

(* Mutants: the duplicate check is dropped; the counter is not advanced. *)
AppendRoot_NoDedup(root) ==
  /\ sequence' = sequence + 1
  /\ rootEntry' = Put(rootEntry, sequence', [sequence |-> sequence', root |-> root])
  /\ rootIndex' = Put(rootIndex, root, sequence')
  /\ currentRoot' = sequence'

AppendRoot_StaleSequence(root) ==
  /\ root \notin DOMAIN rootIndex
  /\ sequence' = IF sequence = 0 THEN 1 ELSE sequence
  /\ rootEntry' = Put(rootEntry, sequence', [sequence |-> sequence', root |-> root])
  /\ rootIndex' = Put(rootIndex, root, sequence')
  /\ currentRoot' = sequence'

(* The shared body of commit_root and commit_root_with_oplog. *)
AppendRoot(root) ==
  /\ root \notin DOMAIN rootIndex
  /\ sequence' = sequence + 1
  /\ rootEntry' = Put(rootEntry, sequence', [sequence |-> sequence', root |-> root])
  /\ rootIndex' = Put(rootIndex, root, sequence')
  /\ currentRoot' = sequence'

CommitRoot(signer, root) ==
  /\ AdminAuth(signer)
  /\ AppendRoot(root)
  /\ UNCHANGED <<oplogCommitment, trustVars, disclosureVars, oplogAttestations>>

(* No admin is read here, so the call also succeeds before initialize. *)
CommitRootWithOplog(root, oplogRoot, start, end) ==
  /\ end >= start
  /\ AppendRoot(root)
  /\ oplogCommitment' =
       Put(oplogCommitment, sequence',
           [oplog_root |-> oplogRoot, oplog_start_ts |-> start, oplog_end_ts |-> end])
  /\ UNCHANGED <<trustVars, disclosureVars, oplogAttestations>>

(* get_current_root: the entry under the current-root pointer, if any. *)
GetCurrentRoot ==
  IF currentRoot \in DOMAIN rootEntry THEN rootEntry[currentRoot].root ELSE None

(* The entries stored under the numbers S, most recent first. *)
NewestFirst(S) ==
  LET stored == S \cap DOMAIN rootEntry
  IN  [i \in 1..Cardinality(stored) |->
         rootEntry[CHOOSE s \in stored : Cardinality({t \in stored : t >= s}) = i]]

(* Mutant: the page starts one entry too early. *)
GetRootHistory_OffByOne(limit) ==
  NewestFirst((IF currentRoot >= limit THEN currentRoot - limit ELSE 1)..currentRoot)

(* get_root_history, for a page size that is not refused (1 to 100). *)
GetRootHistory(limit) ==
  NewestFirst((IF currentRoot >= limit THEN currentRoot - limit + 1 ELSE 1)..currentRoot)

-----------------------------------------------------------------------------
(* Attestations *)

AuthorizeAttester(signer, attester, key) ==
  /\ AdminAuth(signer)
  /\ attesters' = Put(attesters, attester, key)
  /\ UNCHANGED <<admin, threshold, verifyingKey, chainVars, disclosureVars,
                 oplogAttestations>>

RevokeAttester(signer, attester) ==
  /\ AdminAuth(signer)
  /\ attesters' = Drop(attesters, attester)
  /\ UNCHANGED <<admin, threshold, verifyingKey, chainVars, disclosureVars,
                 oplogAttestations>>

GetOplogAttestations(seq) ==
  IF seq \in DOMAIN oplogAttestations THEN oplogAttestations[seq] ELSE <<>>

(* ed25519_verify traps unless the signature was made with `key` over the  *)
(* commitment's oplog_root and end timestamp.                              *)
SignatureVerifies(sig, key, commitment) ==
  /\ sig.key = key
  /\ sig.oplog_root = commitment.oplog_root
  /\ sig.end_ts = commitment.oplog_end_ts

(* Mutant: an attester is counted twice. *)
AttestOplog_NoDuplicateCheck(attester, seq, sig) ==
  /\ seq \in DOMAIN oplogCommitment
  /\ attester \in DOMAIN attesters
  /\ SignatureVerifies(sig, attesters[attester], oplogCommitment[seq])
  /\ oplogAttestations' =
       Put(oplogAttestations, seq,
           Append(GetOplogAttestations(seq), [attester |-> attester, signature |-> sig]))
  /\ UNCHANGED <<chainVars, trustVars, disclosureVars>>

AttestOplog(attester, seq, sig) ==
  /\ seq \in DOMAIN oplogCommitment
  /\ attester \in DOMAIN attesters
  /\ \A i \in 1..Len(GetOplogAttestations(seq)) :
       GetOplogAttestations(seq)[i].attester # attester
  /\ SignatureVerifies(sig, attesters[attester], oplogCommitment[seq])
  /\ oplogAttestations' =
       Put(oplogAttestations, seq,
           Append(GetOplogAttestations(seq), [attester |-> attester, signature |-> sig]))
  /\ UNCHANGED <<chainVars, trustVars, disclosureVars>>

(* verify_attestation's verdict; defined for sequences with a commitment. *)
VerifyAttestation(seq) ==
  LET atts == GetOplogAttestations(seq)
      authorized == {i \in 1..Len(atts) : atts[i].attester \in DOMAIN attesters}
      authorizedCount == Cardinality(authorized)
  IN  CASE Len(atts) = 0 -> "no_attestations"
        [] Len(atts) > 0 /\ authorizedCount < Len(atts) -> "unauthorized_attester"
        [] Len(atts) > 0 /\ authorizedCount = Len(atts)
             /\ authorizedCount >= threshold -> "verified"
        [] OTHER -> "threshold_not_met"

-----------------------------------------------------------------------------
(* Proof verification and the disclosure log *)

(* groth16_verify under the pinned key `vk`; fails when no key is pinned. *)
Groth16Verify(vk, root, claim, proof) ==
  /\ vk # None
  /\ proof.vk = vk
  /\ proof.root = root
  /\ proof.claim = claim

VerifyInclusion(root, claim, proof) ==
  /\ root \in DOMAIN rootIndex
  /\ Groth16Verify(verifyingKey, root, claim, proof)

(* Mutant: the disclosure key may be registered again. *)
RegisterDisclosureVk_Overwrite(signer, vk) ==
  /\ AdminAuth(signer)
  /\ disclosureVk' = vk
  /\ UNCHANGED <<recordCount, disclosureRecord, chainVars, trustVars, oplogAttestations>>

RegisterDisclosureVk(signer, vk) ==
  /\ AdminAuth(signer)
  /\ disclosureVk = None
  /\ disclosureVk' = vk
  /\ UNCHANGED <<recordCount, disclosureRecord, chainVars, trustVars, oplogAttestations>>

(* check_disclosure, which verify_disclosure returns as its verdict. *)
CheckDisclosure(root, claim, proof) ==
  /\ root \in DOMAIN rootIndex
  /\ Groth16Verify(disclosureVk, root, claim, proof)

VerifyAndRecordDisclosure(verifier, root, claim, proof) ==
  /\ recordCount < MaxRecords
  /\ CheckDisclosure(root, claim, proof)
  /\ recordCount' = recordCount + 1
  /\ disclosureRecord' =
       Put(disclosureRecord, recordCount',
           [verifier |-> verifier, root |-> root, claim |-> claim])
  /\ UNCHANGED <<disclosureVk, chainVars, trustVars, oplogAttestations>>

-----------------------------------------------------------------------------
Calls ==
  \/ \E s, a \in Address : SetAdmin(s, a)
  \/ \E s \in Address, k \in Thresholds : SetThreshold(s, k)
  \/ \E s \in Address, r \in Root : CommitRoot(s, r)
  \/ \E r \in Root, o \in OplogRoot, t1, t2 \in Ts : CommitRootWithOplog(r, o, t1, t2)
  \/ \E s, a \in Address, k \in Key : AuthorizeAttester(s, a, k)
  \/ \E s, a \in Address : RevokeAttester(s, a)
  \/ \E a \in Address, q \in DOMAIN oplogCommitment, sig \in Signature : AttestOplog(a, q, sig)
  \/ \E s \in Address, v \in Vk : RegisterDisclosureVk(s, v)
  \/ \E a \in Address, r \in Root, c \in Claim, p \in Proof :
       VerifyAndRecordDisclosure(a, r, c, p)

(* Any invocation in any order. *)
Next == Calls \/ \E s \in Address, v \in Vk : Initialize(s, v)

Spec == Init /\ [][Next]_vars

(* The deployment the setup scripts perform: initialize is the first       *)
(* invocation the contract sees.                                           *)
DeployedNext ==
  \/ Initialized /\ Calls
  \/ \E s \in Address, v \in Vk : Initialize(s, v)

DeployedSpec == Init /\ [][DeployedNext]_vars

-----------------------------------------------------------------------------
(* Properties *)

(* Every storage slot holds a value of the contract's type for it, and the *)
(* threshold never falls to zero.                                          *)
TypeOK ==
  /\ admin \in Address \cup {None}
  /\ sequence \in Nat
  /\ currentRoot \in Nat
  /\ IsMap(attesters, Address, Key)
  /\ threshold \in Nat \ {0}
  /\ verifyingKey \in Vk \cup {None}
  /\ disclosureVk \in Vk \cup {None}
  /\ recordCount \in Nat
  /\ IsMap(rootEntry, Nat, RootEntry)
  /\ IsMap(rootIndex, Root, Nat)
  /\ IsMap(oplogCommitment, Nat, OplogCommitment)
  /\ IsMap(oplogAttestations, Nat, Seq(OplogAttestation))
  /\ IsMap(disclosureRecord, Nat, DisclosureRecord)

(* The counter, the current-root pointer, the stored entries and the       *)
(* dedup index describe one log: entries 1..sequence and no others, each   *)
(* under its own number, the index inverting them, the pointer at the end. *)
ChainConsistent ==
  /\ currentRoot = sequence
  /\ DOMAIN rootEntry = 1..sequence
  /\ \A s \in 1..sequence :
       /\ rootEntry[s].sequence = s
       /\ rootEntry[s].root \in DOMAIN rootIndex
       /\ rootIndex[rootEntry[s].root] = s
  /\ \A r \in DOMAIN rootIndex :
       rootIndex[r] \in 1..sequence /\ rootEntry[rootIndex[r]].root = r

(* The committed roots, read off the storage in sequence order, behave as  *)
(* an append-only log (module doc: "append-only on-chain log").            *)
RootLog == INSTANCE AppendOnlyLog
             WITH Item <- Root, log <- [i \in 1..sequence |-> rootEntry[i].root]
ImplementsAppendOnlyLog == RootLog!Spec

(* An entry once stored under a sequence number is never rewritten. *)
EntriesNeverRewritten ==
  [][\A s \in DOMAIN rootEntry :
       s \in DOMAIN rootEntry' /\ rootEntry'[s] = rootEntry[s]]_vars

(* Every attestation on record signs the commitment stored under the same  *)
(* sequence number, and no attester is on record twice for one sequence,   *)
(* so the verdict's count is a count of distinct witnesses.                *)
AttestationsSignCommitment ==
  \A q \in DOMAIN oplogAttestations :
    /\ q \in DOMAIN oplogCommitment
    /\ \A i \in 1..Len(oplogAttestations[q]) :
         LET att == oplogAttestations[q][i]
         IN  /\ att.signature.oplog_root = oplogCommitment[q].oplog_root
             /\ att.signature.end_ts = oplogCommitment[q].oplog_end_ts
             /\ \A j \in 1..Len(oplogAttestations[q]) :
                  oplogAttestations[q][j].attester = att.attester => i = j

(* A "verified" verdict means at least `threshold` distinct addresses that *)
(* are authorized now have signed this very commitment.                    *)
VerdictSound ==
  \A q \in DOMAIN oplogCommitment :
    VerifyAttestation(q) = "verified" =>
      \E W \in SUBSET DOMAIN attesters :
        /\ Cardinality(W) >= threshold
        /\ \A a \in W : \E i \in 1..Len(GetOplogAttestations(q)) :
             LET att == GetOplogAttestations(q)[i]
             IN  /\ att.attester = a
                 /\ att.signature.oplog_root = oplogCommitment[q].oplog_root
                 /\ att.signature.end_ts = oplogCommitment[q].oplog_end_ts

(* A proof that verifies once verifies for ever: neither a pinned key nor  *)
(* a committed root is ever taken back, whatever the admin does.           *)
VerificationPermanent ==
  [][\A r \in Root, c \in Claim, p \in Proof :
       /\ VerifyInclusion(r, c, p) => VerifyInclusion(r, c, p)'
       /\ CheckDisclosure(r, c, p) => CheckDisclosure(r, c, p)']_vars

(* The disclosure log holds records 1..recordCount, each against a root    *)
(* that is committed and under a pinned disclosure key.                    *)
DisclosuresAnchored ==
  /\ DOMAIN disclosureRecord = 1..recordCount
  /\ \A i \in 1..recordCount :
       disclosureRecord[i].root \in DOMAIN rootIndex /\ disclosureVk # None

(* get_root_history returns the newest entries first with no gap, starting *)
(* from the entry get_current_root returns.                                *)
HistoryComplete ==
  \A limit \in 1..(sequence + 1) :
    LET h == GetRootHistory(limit)
    IN  /\ Len(h) = IF limit <= sequence THEN limit ELSE sequence
        /\ \A i \in 1..Len(h) : h[i].sequence = sequence - i + 1
        /\ Len(h) > 0 => h[1].root = GetCurrentRoot

(* What the contract answers or records is backed by what it stores: a    *)
(* verdict by signatures of attesters of today, a page of the history by   *)
(* the entries, a disclosure by a committed root.                          *)
AnswersBacked == VerdictSound /\ HistoryComplete /\ DisclosuresAnchored
=============================================================================
