---------------------------- MODULE ContractProofs ----------------------------
(***************************************************************************)
(* Theorems about the commitment contract, for every set of accounts,      *)
(* roots, keys, claims and timestamps.                                     *)
(***************************************************************************)
EXTENDS ZkAuditCommitment, FiniteSetTheorems, TLAPS

(* Setting a key of a storage map: the type is kept, the key reads back,   *)
(* every other key reads as before.                                        *)
LEMMA PutMap ==
  ASSUME NEW S, NEW T, NEW f, IsMap(f, S, T), NEW k \in S, NEW v \in T
  PROVE  /\ IsMap(Put(f, k, v), S, T)
         /\ DOMAIN Put(f, k, v) = DOMAIN f \cup {k}
         /\ Put(f, k, v)[k] = v
         /\ \A x \in DOMAIN f : x # k => Put(f, k, v)[x] = f[x]
BY DEF IsMap, Put

(* Removing a key of a storage map keeps its type. *)
LEMMA DropMap ==
  ASSUME NEW S, NEW T, NEW f, IsMap(f, S, T), NEW k
  PROVE  IsMap(Drop(f, k), S, T)
BY DEF IsMap, Drop

(* The attestations of a sequence are a list of attestations. *)
LEMMA AttestationsType ==
  ASSUME TypeOK, NEW q
  PROVE  GetOplogAttestations(q) \in Seq(OplogAttestation)
BY DEF TypeOK, IsMap, GetOplogAttestations

(* AppendRoot, whichever entry point it runs under, keeps the chain's types. *)
LEMMA AppendRootType ==
  ASSUME TypeOK, NEW root \in Root, AppendRoot(root)
  PROVE  /\ sequence' \in Nat
         /\ currentRoot' \in Nat
         /\ IsMap(rootEntry', Nat, RootEntry)
         /\ IsMap(rootIndex', Root, Nat)
<1>1. sequence' \in Nat /\ currentRoot' \in Nat
  BY DEF TypeOK, AppendRoot
<1>2. [sequence |-> sequence', root |-> root] \in RootEntry
  BY <1>1 DEF RootEntry
<1>3. IsMap(rootEntry', Nat, RootEntry)
  <2>1. IsMap(rootEntry, Nat, RootEntry)
    BY DEF TypeOK
  <2> QED BY <2>1, <1>1, <1>2, PutMap DEF AppendRoot
<1>4. IsMap(rootIndex', Root, Nat)
  <2>1. IsMap(rootIndex, Root, Nat)
    BY DEF TypeOK
  <2> QED BY <2>1, <1>1, PutMap DEF AppendRoot
<1> QED BY <1>1, <1>3, <1>4

(* Every invocation, in any order, leaves the storage well typed. *)
LEMMA TypeStep == TypeOK /\ [Next]_vars => TypeOK'
<1> SUFFICES ASSUME TypeOK, [Next]_vars PROVE TypeOK'
  OBVIOUS
<1> USE ContractAssumption
<1>1. CASE \E s, a \in Address : SetAdmin(s, a)
  BY <1>1 DEF TypeOK, SetAdmin, chainVars, disclosureVars
<1>2. CASE \E s \in Address, k \in Thresholds : SetThreshold(s, k)
  BY <1>2 DEF TypeOK, SetThreshold, chainVars, disclosureVars
<1>3. CASE \E s \in Address, r \in Root : CommitRoot(s, r)
  BY <1>3, AppendRootType DEF TypeOK, CommitRoot, trustVars, disclosureVars
<1>4. CASE \E r \in Root, o \in OplogRoot, t1, t2 \in Ts : CommitRootWithOplog(r, o, t1, t2)
  <2>1. PICK r \in Root, o \in OplogRoot, t1 \in Ts, t2 \in Ts :
               CommitRootWithOplog(r, o, t1, t2)
    BY <1>4
  <2>2. AppendRoot(r)
    BY <2>1 DEF CommitRootWithOplog
  <2> DEFINE c == [oplog_root |-> o, oplog_start_ts |-> t1, oplog_end_ts |-> t2]
  <2>3. c \in OplogCommitment
    BY DEF OplogCommitment
  <2>4. oplogCommitment' = Put(oplogCommitment, sequence', c)
    BY <2>1 DEF CommitRootWithOplog
  <2>5. IsMap(oplogCommitment', Nat, OplogCommitment)
    <3>1. IsMap(oplogCommitment, Nat, OplogCommitment) /\ sequence' \in Nat
      BY <2>2, AppendRootType DEF TypeOK
    <3> HIDE DEF c
    <3> QED BY <3>1, <2>3, <2>4, PutMap
  <2>6. UNCHANGED <<trustVars, disclosureVars, oplogAttestations>>
    BY <2>1 DEF CommitRootWithOplog
  <2> QED BY <2>2, <2>5, <2>6, AppendRootType DEF TypeOK, trustVars, disclosureVars
<1>5. CASE \E s, a \in Address, k \in Key : AuthorizeAttester(s, a, k)
  <2>1. PICK s \in Address, a \in Address, k \in Key : AuthorizeAttester(s, a, k)
    BY <1>5
  <2>2. IsMap(attesters', Address, Key)
    BY <2>1, PutMap DEF TypeOK, AuthorizeAttester
  <2> QED BY <2>1, <2>2 DEF TypeOK, AuthorizeAttester, chainVars, disclosureVars
<1>6. CASE \E s, a \in Address : RevokeAttester(s, a)
  <2>1. PICK s \in Address, a \in Address : RevokeAttester(s, a)
    BY <1>6
  <2>2. IsMap(attesters', Address, Key)
    BY <2>1, DropMap DEF TypeOK, RevokeAttester
  <2> QED BY <2>1, <2>2 DEF TypeOK, RevokeAttester, chainVars, disclosureVars
<1>7. CASE \E a \in Address, q \in DOMAIN oplogCommitment, sig \in Signature : AttestOplog(a, q, sig)
  <2>1. PICK a \in Address, q \in DOMAIN oplogCommitment, sig \in Signature :
               AttestOplog(a, q, sig)
    BY <1>7
  <2> DEFINE att == [attester |-> a, signature |-> sig]
             new == Append(GetOplogAttestations(q), att)
  <2>2. new \in Seq(OplogAttestation)
    <3>1. att \in OplogAttestation
      BY DEF OplogAttestation
    <3> HIDE DEF att
    <3> QED BY <3>1, AttestationsType
  <2>3. q \in Nat
    BY DEF TypeOK, IsMap
  <2>4. oplogAttestations' = Put(oplogAttestations, q, new)
    BY <2>1 DEF AttestOplog
  <2>5. IsMap(oplogAttestations', Nat, Seq(OplogAttestation))
    <3>1. IsMap(oplogAttestations, Nat, Seq(OplogAttestation))
      BY DEF TypeOK
    <3> HIDE DEF new
    <3> QED BY <3>1, <2>2, <2>3, <2>4, PutMap
  <2> QED BY <2>1, <2>5 DEF TypeOK, AttestOplog, chainVars, trustVars, disclosureVars
<1>8. CASE \E s \in Address, v \in Vk : RegisterDisclosureVk(s, v)
  BY <1>8 DEF TypeOK, RegisterDisclosureVk, chainVars, trustVars
<1>9. CASE \E a \in Address, r \in Root, c \in Claim, p \in Proof :
              VerifyAndRecordDisclosure(a, r, c, p)
  <2>1. PICK a \in Address, r \in Root, c \in Claim, p \in Proof :
               VerifyAndRecordDisclosure(a, r, c, p)
    BY <1>9
  <2> DEFINE rec == [verifier |-> a, root |-> r, claim |-> c]
  <2>2. rec \in DisclosureRecord /\ recordCount' \in Nat
    BY <2>1 DEF DisclosureRecord, TypeOK, VerifyAndRecordDisclosure
  <2>3. disclosureRecord' = Put(disclosureRecord, recordCount', rec)
    BY <2>1 DEF VerifyAndRecordDisclosure
  <2>4. IsMap(disclosureRecord', Nat, DisclosureRecord)
    <3>1. IsMap(disclosureRecord, Nat, DisclosureRecord)
      BY DEF TypeOK
    <3> HIDE DEF rec
    <3> QED BY <3>1, <2>2, <2>3, PutMap
  <2> QED BY <2>1, <2>2, <2>4 DEF TypeOK, VerifyAndRecordDisclosure, chainVars, trustVars
<1>10. CASE \E s \in Address, v \in Vk : Initialize(s, v)
  BY <1>10 DEF TypeOK, Initialize, disclosureVars
<1>11. CASE UNCHANGED vars
  BY <1>11 DEF TypeOK, vars, chainVars, trustVars, disclosureVars
<1> QED
  BY <1>1, <1>2, <1>3, <1>4, <1>5, <1>6, <1>7, <1>8, <1>9, <1>10, <1>11 DEF Next, Calls

(* Empty storage is well typed. *)
LEMMA TypeInit == Init => TypeOK
BY ContractAssumption DEF Init, TypeOK, IsMap

(* Whatever is called, and in whatever order (calls made before initialize *)
(* included), storage stays well typed and the threshold at least 1.       *)
THEOREM TypeCorrect == Spec => []TypeOK
BY TypeInit, TypeStep, PTL DEF Spec

-----------------------------------------------------------------------------
(* The chain invariant.  ChainConsistent is not inductive by itself: that  *)
(* initialize does no harm when it zeroes the counter rests on the counter *)
(* being zero until then, and that a new commitment lands in an empty slot *)
(* rests on commitments being stored only under used numbers.              *)

CommitmentsBelowSequence == DOMAIN oplogCommitment \subseteq 1..sequence

ChainInv ==
  /\ TypeOK
  /\ ChainConsistent
  /\ CommitmentsBelowSequence
  /\ ~Initialized => sequence = 0

(* What AppendRoot does to a consistent chain. *)
LEMMA AppendRootChain ==
  ASSUME TypeOK, ChainConsistent, NEW root \in Root, AppendRoot(root)
  PROVE  /\ ChainConsistent'
         /\ sequence' = sequence + 1
         /\ sequence' \notin DOMAIN rootEntry
         /\ rootEntry'[sequence'].root = root
         /\ \A s \in 1..sequence : rootEntry'[s] = rootEntry[s]
<1> DEFINE e == [sequence |-> sequence', root |-> root]
<1>1. /\ sequence \in Nat /\ sequence' = sequence + 1 /\ currentRoot' = sequence'
      /\ rootEntry' = Put(rootEntry, sequence', e)
      /\ rootIndex' = Put(rootIndex, root, sequence')
      /\ root \notin DOMAIN rootIndex
  BY DEF TypeOK, AppendRoot
<1>2. e \in RootEntry /\ e.sequence = sequence' /\ e.root = root
  BY <1>1 DEF RootEntry
<1> HIDE DEF e
<1>3. /\ DOMAIN rootEntry' = DOMAIN rootEntry \cup {sequence'}
      /\ rootEntry'[sequence'] = e
      /\ \A s \in DOMAIN rootEntry : s # sequence' => rootEntry'[s] = rootEntry[s]
  BY <1>1 DEF Put
<1>4. /\ DOMAIN rootIndex' = DOMAIN rootIndex \cup {root}
      /\ rootIndex'[root] = sequence'
      /\ \A r \in DOMAIN rootIndex : rootIndex'[r] = rootIndex[r]
  BY <1>1 DEF Put
<1>5. /\ currentRoot = sequence /\ DOMAIN rootEntry = 1..sequence
      /\ \A s \in 1..sequence : /\ rootEntry[s].sequence = s
                                /\ rootEntry[s].root \in DOMAIN rootIndex
                                /\ rootIndex[rootEntry[s].root] = s
      /\ \A r \in DOMAIN rootIndex :
            rootIndex[r] \in 1..sequence /\ rootEntry[rootIndex[r]].root = r
  BY DEF ChainConsistent
<1>6. 1..sequence' = (1..sequence) \cup {sequence'} /\ sequence' \notin 1..sequence
  BY <1>1
<1>7. \A s \in 1..sequence : rootEntry'[s] = rootEntry[s]
  BY <1>3, <1>5, <1>6
<1>8. ASSUME NEW s \in 1..sequence'
      PROVE  /\ rootEntry'[s].sequence = s
             /\ rootEntry'[s].root \in DOMAIN rootIndex'
             /\ rootIndex'[rootEntry'[s].root] = s
  <2>1. CASE s = sequence'
    BY <2>1, <1>2, <1>3, <1>4
  <2>2. CASE s \in 1..sequence
    BY <2>2, <1>4, <1>5, <1>7
  <2> QED BY <2>1, <2>2, <1>6
<1>9. ASSUME NEW r \in DOMAIN rootIndex'
      PROVE  rootIndex'[r] \in 1..sequence' /\ rootEntry'[rootIndex'[r]].root = r
  <2>1. CASE r = root
    BY <2>1, <1>2, <1>3, <1>4, <1>6
  <2>2. CASE r \in DOMAIN rootIndex
    <3>1. rootIndex'[r] = rootIndex[r] /\ rootIndex[r] \in 1..sequence
      BY <2>2, <1>4, <1>5
    <3> QED BY <3>1, <2>2, <1>5, <1>6, <1>7
  <2> QED BY <2>1, <2>2, <1>4
<1>10. DOMAIN rootEntry' = 1..sequence' /\ currentRoot' = sequence'
  BY <1>1, <1>3, <1>5, <1>6
<1> QED BY <1>1, <1>2, <1>3, <1>5, <1>6, <1>7, <1>8, <1>9, <1>10 DEF ChainConsistent

(* Invocations other than the two commits and initialize leave the chain   *)
(* variables alone.                                                        *)
LEMMA OtherCallsKeepChain ==
  ASSUME Calls,
         ~ \E s \in Address, r \in Root : CommitRoot(s, r),
         ~ \E r \in Root, o \in OplogRoot, t1, t2 \in Ts : CommitRootWithOplog(r, o, t1, t2)
  PROVE  UNCHANGED chainVars /\ (Initialized => (admin' \in Address \/ UNCHANGED admin))
BY DEF Calls, SetAdmin, SetThreshold, AuthorizeAttester, RevokeAttester, AttestOplog,
       RegisterDisclosureVk, VerifyAndRecordDisclosure, trustVars

(* Empty storage is a consistent chain of length zero. *)
LEMMA ChainInit == Init => ChainInv
<1> SUFFICES ASSUME Init PROVE ChainInv
  OBVIOUS
<1>1. ChainConsistent
  BY DEF Init, ChainConsistent
<1> QED BY <1>1, TypeInit DEF Init, ChainInv, CommitmentsBelowSequence

(* Every invocation after initialize keeps the chain consistent. *)
LEMMA ChainStep == ChainInv /\ [DeployedNext]_vars => ChainInv'
<1> SUFFICES ASSUME ChainInv, [DeployedNext]_vars PROVE ChainInv'
  OBVIOUS
<1> USE ContractAssumption
<1>1. TypeOK /\ TypeOK'
  BY TypeStep DEF ChainInv, DeployedNext, Next
<1>2. CASE Initialized /\ \E s \in Address, r \in Root : CommitRoot(s, r)
  <2>1. PICK s \in Address, r \in Root : CommitRoot(s, r)
    BY <1>2
  <2>2. AppendRoot(r) /\ UNCHANGED <<oplogCommitment, admin>>
    BY <2>1 DEF CommitRoot, trustVars
  <2>3. ChainConsistent' /\ sequence' = sequence + 1 /\ sequence \in Nat
    BY <1>1, <2>2, AppendRootChain DEF ChainInv, TypeOK
  <2> QED BY <1>1, <1>2, <2>2, <2>3 DEF ChainInv, CommitmentsBelowSequence, Initialized
<1>3. CASE /\ Initialized
           /\ \E r \in Root, o \in OplogRoot, t1, t2 \in Ts : CommitRootWithOplog(r, o, t1, t2)
  <2>1. PICK r \in Root, o \in OplogRoot, t1 \in Ts, t2 \in Ts :
               CommitRootWithOplog(r, o, t1, t2)
    BY <1>3
  <2>2. AppendRoot(r) /\ UNCHANGED admin
    BY <2>1 DEF CommitRootWithOplog, trustVars
  <2>3. ChainConsistent' /\ sequence' = sequence + 1 /\ sequence \in Nat
    BY <1>1, <2>2, AppendRootChain DEF ChainInv, TypeOK
  <2>4. DOMAIN oplogCommitment' = DOMAIN oplogCommitment \cup {sequence'}
    BY <2>1 DEF CommitRootWithOplog, Put
  <2>5. DOMAIN oplogCommitment' \subseteq 1..sequence'
    BY <2>3, <2>4 DEF ChainInv, CommitmentsBelowSequence
  <2> QED BY <1>1, <1>3, <2>2, <2>3, <2>5 DEF ChainInv, CommitmentsBelowSequence, Initialized
<1>4. CASE /\ Initialized /\ Calls
           /\ ~ \E s \in Address, r \in Root : CommitRoot(s, r)
           /\ ~ \E r \in Root, o \in OplogRoot, t1, t2 \in Ts : CommitRootWithOplog(r, o, t1, t2)
  <2>1. UNCHANGED chainVars /\ Initialized'
    BY <1>4, OtherCallsKeepChain DEF Initialized
  <2> QED BY <1>1, <2>1 DEF ChainInv, ChainConsistent, CommitmentsBelowSequence, chainVars
<1>5. CASE \E s \in Address, v \in Vk : Initialize(s, v)
  <2>1. sequence' = 0 /\ UNCHANGED <<currentRoot, rootEntry, rootIndex, oplogCommitment>>
    BY <1>5 DEF Initialize
  <2>2. sequence = 0
    BY <1>5 DEF ChainInv, Initialize
  <2> QED BY <1>1, <2>1, <2>2 DEF ChainInv, ChainConsistent, CommitmentsBelowSequence
<1>6. CASE UNCHANGED vars
  BY <1>1, <1>6 DEF ChainInv, ChainConsistent, CommitmentsBelowSequence, Initialized,
                    vars, chainVars, trustVars
<1> QED BY <1>2, <1>3, <1>4, <1>5, <1>6 DEF DeployedNext

(* On a contract whose first invocation is initialize, the counter, the    *)
(* pointer, the entries and the dedup index always describe one log.       *)
THEOREM ChainAlwaysConsistent == DeployedSpec => []ChainConsistent
<1>1. ChainInv => ChainConsistent
  BY DEF ChainInv
<1> QED BY <1>1, ChainInit, ChainStep, PTL DEF DeployedSpec

-----------------------------------------------------------------------------
(* Consequences of the chain invariant *)

(* A step of a deployed contract either appends one new root at the end of *)
(* the log, leaving every earlier entry alone, or leaves the log alone.    *)
LEMMA LogGrowsAtEnd ==
  ASSUME ChainInv, [DeployedNext]_vars
  PROVE  \/ /\ \E r \in Root : /\ r \notin DOMAIN rootIndex
                                /\ rootEntry'[sequence'].root = r
           /\ sequence' = sequence + 1
           /\ \A s \in 1..sequence : rootEntry'[s] = rootEntry[s]
         \/ UNCHANGED <<sequence, rootEntry>>
<1>1. CASE \E r \in Root : AppendRoot(r)
  <2>1. PICK r \in Root : AppendRoot(r)
    BY <1>1
  <2>2. /\ sequence' = sequence + 1
        /\ rootEntry'[sequence'].root = r
        /\ \A s \in 1..sequence : rootEntry'[s] = rootEntry[s]
    BY <2>1, AppendRootChain DEF ChainInv
  <2>3. r \notin DOMAIN rootIndex
    BY <2>1 DEF AppendRoot
  <2> QED BY <2>2, <2>3
<1>2. CASE \E s \in Address, v \in Vk : Initialize(s, v)
  BY <1>2 DEF Initialize, ChainInv
<1>3. CASE UNCHANGED vars
  BY <1>3 DEF vars, chainVars
<1>4. CASE Calls /\ ~ \E r \in Root : AppendRoot(r)
  BY <1>4, OtherCallsKeepChain DEF CommitRoot, CommitRootWithOplog, chainVars
<1> QED BY <1>1, <1>2, <1>3, <1>4 DEF DeployedNext

(* On a contract whose first invocation is initialize no stored root entry *)
(* is ever rewritten.                                                      *)
THEOREM DeployedNeverRewrites == DeployedSpec => EntriesNeverRewritten
<1>1. ASSUME ChainInv, ChainInv', [DeployedNext]_vars
      PROVE  [\A s \in DOMAIN rootEntry :
                s \in DOMAIN rootEntry' /\ rootEntry'[s] = rootEntry[s]]_vars
  <2>1. DOMAIN rootEntry = 1..sequence /\ DOMAIN rootEntry' = 1..sequence' /\ sequence \in Nat
    BY <1>1 DEF ChainInv, ChainConsistent, TypeOK
  <2> QED BY <1>1, <2>1, LogGrowsAtEnd
<1> QED BY <1>1, ChainInit, ChainStep, PTL DEF DeployedSpec, EntriesNeverRewritten

(* The stored chain, read in sequence order, implements the append-only    *)
(* log of distinct roots.                                                  *)
THEOREM DeployedRefinesLog == DeployedSpec => ImplementsAppendOnlyLog
<1> DEFINE L == [i \in 1..sequence |-> rootEntry[i].root]
<1>1. Init => RootLog!Init
  BY DEF Init, RootLog!Init
<1>2. ASSUME ChainInv, ChainInv', [DeployedNext]_vars
      PROVE  [RootLog!Next]_L
  <2>1. sequence \in Nat /\ Len(L) = sequence
    BY <1>2 DEF ChainInv, TypeOK
  <2>2. CASE UNCHANGED <<sequence, rootEntry>>
    BY <2>2
  <2>3. CASE /\ \E r \in Root : /\ r \notin DOMAIN rootIndex
                                /\ rootEntry'[sequence'].root = r
             /\ sequence' = sequence + 1
             /\ \A s \in 1..sequence : rootEntry'[s] = rootEntry[s]
    <3>1. PICK r \in Root : r \notin DOMAIN rootIndex /\ rootEntry'[sequence'].root = r
      BY <2>3
    <3>2. \A i \in 1..Len(L) : L[i] # r
      BY <3>1, <2>1, <1>2 DEF ChainInv, ChainConsistent
    <3>3. L' = Append(L, r)
      <4>1. \A i \in 1..sequence : rootEntry'[i].root \in Root /\ rootEntry[i].root \in Root
        BY <1>2, <2>1, <2>3 DEF ChainInv, ChainConsistent, TypeOK, IsMap, RootEntry
      <4>2. L \in Seq(Root)
        BY <2>1, <4>1
      <4>3. Append(L, r) = [i \in 1..(sequence + 1) |-> IF i = sequence + 1 THEN r ELSE L[i]]
        BY <2>1, <4>2
      <4>4. \A i \in 1..(sequence + 1) : L'[i] = Append(L, r)[i]
        BY <2>1, <2>3, <3>1, <4>3
      <4> QED BY <2>1, <2>3, <4>3, <4>4
    <3> QED BY <3>2, <3>3 DEF RootLog!Next, RootLog!AppendItem
  <2> QED BY <1>2, <2>2, <2>3, LogGrowsAtEnd
<1> QED BY <1>1, <1>2, ChainInit, ChainStep, PTL
        DEF DeployedSpec, ImplementsAppendOnlyLog, RootLog!Spec

-----------------------------------------------------------------------------
(* Attestations *)

(* Every invocation on a deployed contract keeps every recorded signature  *)
(* over the commitment it is recorded under, by distinct attesters.        *)
LEMMA AttestationStep ==
  ChainInv /\ AttestationsSignCommitment /\ [DeployedNext]_vars => AttestationsSignCommitment'
<1> SUFFICES ASSUME ChainInv, AttestationsSignCommitment, [DeployedNext]_vars
             PROVE  AttestationsSignCommitment'
  OBVIOUS
<1>1. CASE \E a \in Address, q \in DOMAIN oplogCommitment, sig \in Signature :
               AttestOplog(a, q, sig)
  <2>1. PICK a \in Address, q \in DOMAIN oplogCommitment, sig \in Signature :
               AttestOplog(a, q, sig)
    BY <1>1
  <2> DEFINE old == GetOplogAttestations(q)
             att == [attester |-> a, signature |-> sig]
  <2>2. /\ oplogAttestations' = Put(oplogAttestations, q, Append(old, att))
        /\ UNCHANGED oplogCommitment
        /\ sig.oplog_root = oplogCommitment[q].oplog_root
        /\ sig.end_ts = oplogCommitment[q].oplog_end_ts
        /\ \A i \in 1..Len(old) : old[i].attester # a
    BY <2>1 DEF AttestOplog, SignatureVerifies, chainVars
  <2>3. old \in Seq(OplogAttestation)
    BY AttestationsType DEF ChainInv
  <2>4. \A i \in 1..Len(old) :
          /\ old[i].signature.oplog_root = oplogCommitment[q].oplog_root
          /\ old[i].signature.end_ts = oplogCommitment[q].oplog_end_ts
          /\ \A j \in 1..Len(old) : old[j].attester = old[i].attester => i = j
    BY DEF AttestationsSignCommitment, GetOplogAttestations
  <2>5. att.attester = a /\ att.signature = sig
    OBVIOUS
  <2> HIDE DEF old, att
  <2> DEFINE new == Append(old, att)
  <2>6. /\ Len(new) = Len(old) + 1 /\ Len(old) \in Nat
        /\ new[Len(old) + 1] = att
        /\ \A i \in 1..Len(old) : new[i] = old[i]
    BY <2>3
  <2> HIDE DEF new
  <2>7. ASSUME NEW i \in 1..Len(new)
        PROVE  /\ new[i].signature.oplog_root = oplogCommitment[q].oplog_root
               /\ new[i].signature.end_ts = oplogCommitment[q].oplog_end_ts
               /\ \A j \in 1..Len(new) : new[j].attester = new[i].attester => i = j
    <3>1. CASE i = Len(old) + 1
      BY <3>1, <2>2, <2>5, <2>6
    <3>2. CASE i \in 1..Len(old)
      BY <3>2, <2>2, <2>4, <2>5, <2>6
    <3> QED BY <3>1, <3>2, <2>6
  <2>8. /\ DOMAIN oplogAttestations' = DOMAIN oplogAttestations \cup {q}
        /\ oplogAttestations'[q] = new
        /\ \A x \in DOMAIN oplogAttestations : x # q => oplogAttestations'[x] = oplogAttestations[x]
    BY <2>2 DEF Put, new
  <2>9. ASSUME NEW x \in DOMAIN oplogAttestations'
        PROVE  /\ x \in DOMAIN oplogCommitment'
               /\ \A i \in 1..Len(oplogAttestations'[x]) :
                    /\ oplogAttestations'[x][i].signature.oplog_root
                         = oplogCommitment'[x].oplog_root
                    /\ oplogAttestations'[x][i].signature.end_ts
                         = oplogCommitment'[x].oplog_end_ts
                    /\ \A j \in 1..Len(oplogAttestations'[x]) :
                         oplogAttestations'[x][j].attester = oplogAttestations'[x][i].attester
                           => i = j
    <3>1. CASE x = q
      BY <3>1, <2>2, <2>7, <2>8
    <3>2. CASE x # q
      BY <3>2, <2>2, <2>8 DEF AttestationsSignCommitment
    <3> QED BY <3>1, <3>2
  <2> QED BY <2>9 DEF AttestationsSignCommitment
<1>2. CASE \E r \in Root, o \in OplogRoot, t1, t2 \in Ts : CommitRootWithOplog(r, o, t1, t2)
  <2>1. PICK r \in Root, o \in OplogRoot, t1 \in Ts, t2 \in Ts :
               CommitRootWithOplog(r, o, t1, t2)
    BY <1>2
  <2>2. sequence' = sequence + 1 /\ sequence \in Nat
    BY <2>1 DEF CommitRootWithOplog, AppendRoot, ChainInv, TypeOK
  <2>3. /\ DOMAIN oplogCommitment \subseteq DOMAIN oplogCommitment'
        /\ \A x \in DOMAIN oplogCommitment :
              x # sequence' => oplogCommitment'[x] = oplogCommitment[x]
        /\ UNCHANGED oplogAttestations
    BY <2>1 DEF CommitRootWithOplog, Put
  <2>4. \A x \in DOMAIN oplogCommitment : x # sequence'
    BY <2>2 DEF ChainInv, CommitmentsBelowSequence
  <2> QED BY <2>3, <2>4 DEF AttestationsSignCommitment
<1>3. CASE UNCHANGED <<oplogCommitment, oplogAttestations>>
  BY <1>3 DEF AttestationsSignCommitment
<1> QED BY <1>1, <1>2, <1>3
        DEF DeployedNext, Calls, Initialize, SetAdmin, SetThreshold, CommitRoot,
            AuthorizeAttester, RevokeAttester, RegisterDisclosureVk,
            VerifyAndRecordDisclosure, vars, chainVars

(* On a deployed contract every attestation on record signs the commitment *)
(* stored under its sequence number, and attesters are counted once.       *)
THEOREM AttestationsAlwaysSigned == DeployedSpec => []AttestationsSignCommitment
<1>1. Init => AttestationsSignCommitment
  BY DEF Init, AttestationsSignCommitment
<1> QED BY <1>1, ChainInit, ChainStep, AttestationStep, PTL DEF DeployedSpec

-----------------------------------------------------------------------------
(* Proof verification and the disclosure log, in any order of calls *)

(* A root stays in the dedup index, and a pinned disclosure key stays.  The *)
(* inclusion key can only be written by an initialize on a contract that    *)
(* has no admin yet.                                                        *)
LEMMA PinnedStep ==
  ASSUME [Next]_vars
  PROVE  /\ DOMAIN rootIndex \subseteq DOMAIN rootIndex'
         /\ disclosureVk # None => disclosureVk' = disclosureVk
         /\ Initialized => verifyingKey' = verifyingKey
<1>1. CASE \E r \in Root : AppendRoot(r) /\ UNCHANGED <<trustVars, disclosureVars>>
  BY <1>1 DEF AppendRoot, Put, trustVars, disclosureVars
<1>2. CASE \E s \in Address, v \in Vk : Initialize(s, v)
  BY <1>2 DEF Initialize, disclosureVars
<1>3. CASE UNCHANGED <<rootIndex, disclosureVk, verifyingKey>>
  BY <1>3
<1>4. CASE \E s \in Address, v \in Vk : RegisterDisclosureVk(s, v)
  BY <1>4 DEF RegisterDisclosureVk, chainVars, trustVars
<1> QED BY <1>1, <1>2, <1>3, <1>4
        DEF Next, Calls, SetAdmin, SetThreshold, CommitRoot, CommitRootWithOplog,
            AuthorizeAttester, RevokeAttester, AttestOplog, VerifyAndRecordDisclosure,
            vars, chainVars, trustVars, disclosureVars

(* The inclusion key is pinned in the same call that sets the admin, and   *)
(* an admin is never unset.                                                *)
KeyPinnedWithAdmin == verifyingKey # None => Initialized

(* No invocation unpins the inclusion key or unsets the admin. *)
LEMMA KeyPinnedStep ==
  TypeOK /\ KeyPinnedWithAdmin /\ [Next]_vars => KeyPinnedWithAdmin'
BY ContractAssumption
   DEF KeyPinnedWithAdmin, Initialized, Next, Calls, SetAdmin, SetThreshold, CommitRoot,
       CommitRootWithOplog, AuthorizeAttester, RevokeAttester, AttestOplog,
       RegisterDisclosureVk, VerifyAndRecordDisclosure, Initialize, vars, trustVars

(* An inclusion or disclosure proof that the contract once accepts it      *)
(* accepts for ever, whatever is called afterwards and by whom.            *)
THEOREM VerificationStaysValid == Spec => VerificationPermanent
<1>1. Init => TypeOK /\ KeyPinnedWithAdmin
  BY TypeInit DEF Init, KeyPinnedWithAdmin
<1>2. ASSUME KeyPinnedWithAdmin, [Next]_vars
      PROVE  [\A r \in Root, c \in Claim, p \in Proof :
                /\ VerifyInclusion(r, c, p) => VerifyInclusion(r, c, p)'
                /\ CheckDisclosure(r, c, p) => CheckDisclosure(r, c, p)']_vars
  BY <1>2, PinnedStep DEF VerifyInclusion, CheckDisclosure, Groth16Verify, KeyPinnedWithAdmin
<1> QED BY <1>1, <1>2, TypeStep, KeyPinnedStep, PTL DEF Spec, VerificationPermanent

(* One invocation keeps every recorded disclosure anchored. *)
LEMMA DisclosureStep ==
  TypeOK /\ DisclosuresAnchored /\ [Next]_vars => DisclosuresAnchored'
<1> SUFFICES ASSUME TypeOK, DisclosuresAnchored, [Next]_vars PROVE DisclosuresAnchored'
  OBVIOUS
<1>1. /\ DOMAIN rootIndex \subseteq DOMAIN rootIndex'
      /\ disclosureVk # None => disclosureVk' = disclosureVk
  BY PinnedStep
<1>2. CASE \E a \in Address, r \in Root, c \in Claim, p \in Proof :
               VerifyAndRecordDisclosure(a, r, c, p)
  <2>1. PICK a \in Address, r \in Root, c \in Claim, p \in Proof :
               VerifyAndRecordDisclosure(a, r, c, p)
    BY <1>2
  <2> DEFINE rec == [verifier |-> a, root |-> r, claim |-> c]
  <2>2. /\ recordCount \in Nat /\ recordCount' = recordCount + 1
        /\ r \in DOMAIN rootIndex /\ disclosureVk # None
        /\ disclosureRecord' = Put(disclosureRecord, recordCount', rec)
    BY <2>1 DEF TypeOK, VerifyAndRecordDisclosure, CheckDisclosure, Groth16Verify
  <2>3. rec.root = r
    OBVIOUS
  <2> HIDE DEF rec
  <2>4. /\ DOMAIN disclosureRecord' = DOMAIN disclosureRecord \cup {recordCount'}
        /\ disclosureRecord'[recordCount'] = rec
        /\ \A i \in DOMAIN disclosureRecord :
              i # recordCount' => disclosureRecord'[i] = disclosureRecord[i]
    BY <2>2 DEF Put
  <2>5. 1..recordCount' = (1..recordCount) \cup {recordCount'}
    BY <2>2
  <2> QED BY <1>1, <2>2, <2>3, <2>4, <2>5 DEF DisclosuresAnchored
<1>3. CASE UNCHANGED <<recordCount, disclosureRecord>>
  BY <1>1, <1>3 DEF DisclosuresAnchored
<1> QED BY <1>2, <1>3
        DEF Next, Calls, SetAdmin, SetThreshold, CommitRoot, CommitRootWithOplog,
            AuthorizeAttester, RevokeAttester, AttestOplog, RegisterDisclosureVk,
            Initialize, vars, disclosureVars

(* Every disclosure on record was made against a root that is committed    *)
(* and under a pinned key, and the log has no gap, in any order of calls.  *)
THEOREM DisclosuresAlwaysAnchored == Spec => []DisclosuresAnchored
<1>1. Init => DisclosuresAnchored
  BY DEF Init, DisclosuresAnchored
<1> QED BY <1>1, TypeInit, TypeStep, DisclosureStep, PTL DEF Spec

-----------------------------------------------------------------------------
(* What the contract answers *)

(* A page of consecutive stored numbers, listed from the newest. *)
LEMMA PageShape ==
  ASSUME NEW a \in Nat \ {0}, NEW b \in Nat, a <= b + 1, a..b \subseteq DOMAIN rootEntry
  PROVE  /\ Len(NewestFirst(a..b)) = b - a + 1
         /\ \A i \in 1..(b - a + 1) : NewestFirst(a..b)[i] = rootEntry[b - i + 1]
<1> DEFINE stored == a..b \cap DOMAIN rootEntry
           At(i) == CHOOSE s \in stored : Cardinality({t \in stored : t >= s}) = i
<1>1. stored = a..b
  OBVIOUS
<1>2. \A s \in a..b : Cardinality({t \in a..b : t >= s}) = b - s + 1
  <2> SUFFICES ASSUME NEW s \in a..b PROVE Cardinality({t \in a..b : t >= s}) = b - s + 1
    OBVIOUS
  <2>1. {t \in a..b : t >= s} = s..b
    OBVIOUS
  <2>2. s \in Int /\ b \in Int /\ ~(s > b)
    OBVIOUS
  <2>3. Cardinality(s..b) = IF s > b THEN 0 ELSE b - s + 1
    BY <2>2, FS_Interval
  <2> QED BY <2>1, <2>2, <2>3
<1>3. Cardinality(a..b) = b - a + 1
  <2>1. Cardinality(a..b) = IF a > b THEN 0 ELSE b - a + 1
    BY FS_Interval
  <2> QED BY <2>1
<1>4. ASSUME NEW i \in 1..(b - a + 1) PROVE At(i) = b - i + 1
  <2>1. b - i + 1 \in a..b /\ b - (b - i + 1) + 1 = i
    BY <1>4
  <2>2. Cardinality({t \in a..b : t >= b - i + 1}) = i
    BY <2>1, <1>2
  <2>3. \A s \in a..b : Cardinality({t \in a..b : t >= s}) = i => s = b - i + 1
    <3> SUFFICES ASSUME NEW s \in a..b, Cardinality({t \in a..b : t >= s}) = i PROVE s = b - i + 1
      OBVIOUS
    <3>1. b - s + 1 = i
      BY <1>2
    <3> QED BY <3>1
  <2>4. PICK c : c = b - i + 1
    OBVIOUS
  <2>5. /\ c \in stored /\ Cardinality({t \in stored : t >= c}) = i
        /\ \A s \in stored : Cardinality({t \in stored : t >= s}) = i => s = c
    BY <2>1, <2>2, <2>3, <2>4, <1>1
  <2> HIDE DEF stored
  <2>6. At(i) = c
    BY <2>5
  <2> QED BY <2>4, <2>6
<1>5. NewestFirst(a..b) = [i \in 1..(b - a + 1) |-> rootEntry[At(i)]]
  BY <1>1, <1>3 DEF NewestFirst
<1> HIDE DEF At
<1>6. b - a + 1 \in Nat
  OBVIOUS
<1> QED BY <1>4, <1>5, <1>6

(* A page of the history of a consistent chain has no gap. *)
LEMMA HistoryTold ==
  ASSUME TypeOK, ChainConsistent
  PROVE  HistoryComplete
<1> SUFFICES ASSUME NEW limit \in 1..(sequence + 1)
             PROVE  LET h == GetRootHistory(limit)
                    IN  /\ Len(h) = IF limit <= sequence THEN limit ELSE sequence
                        /\ \A i \in 1..Len(h) : h[i].sequence = sequence - i + 1
                        /\ Len(h) > 0 => h[1].root = GetCurrentRoot
  BY DEF HistoryComplete
<1>1. /\ sequence \in Nat /\ currentRoot = sequence /\ DOMAIN rootEntry = 1..sequence
      /\ \A s \in 1..sequence : rootEntry[s].sequence = s
  BY DEF TypeOK, ChainConsistent
<1> DEFINE n == IF limit <= sequence THEN limit ELSE sequence
           a == sequence - n + 1
           h == GetRootHistory(limit)
<1>2. h = NewestFirst(a..sequence)
  BY <1>1 DEF GetRootHistory
<1>3. n \in Nat /\ n <= sequence /\ a \in Nat \ {0} /\ a <= sequence + 1 /\ sequence - a + 1 = n
      /\ a..sequence \subseteq DOMAIN rootEntry
  BY <1>1
<1>4. Len(NewestFirst(a..sequence)) = n
      /\ \A i \in 1..n : NewestFirst(a..sequence)[i] = rootEntry[sequence - i + 1]
  <2> HIDE DEF a, n
  <2>1. /\ Len(NewestFirst(a..sequence)) = sequence - a + 1
        /\ \A i \in 1..(sequence - a + 1) :
             NewestFirst(a..sequence)[i] = rootEntry[sequence - i + 1]
    BY <1>1, <1>3, PageShape
  <2> QED BY <2>1, <1>3
<1> HIDE DEF h, a, n
<1>5. Len(h) = n /\ \A i \in 1..n : h[i] = rootEntry[sequence - i + 1]
  BY <1>2, <1>4
<1>6. \A i \in 1..n : sequence - i + 1 \in 1..sequence
  BY <1>1, <1>3
<1>7. Len(h) > 0 => h[1].root = GetCurrentRoot
  <2> SUFFICES ASSUME n > 0 PROVE h[1].root = GetCurrentRoot
    BY <1>5
  <2>1. 1 \in 1..n /\ sequence - 1 + 1 = sequence /\ sequence \in 1..sequence
    BY <1>1, <1>3
  <2>2. h[1] = rootEntry[sequence]
    BY <2>1, <1>5
  <2> QED BY <2>1, <2>2, <1>1 DEF GetCurrentRoot
<1> QED BY <1>1, <1>5, <1>6, <1>7 DEF h, n

(* Attesters that are on record once each are as many as the attestations. *)
LEMMA DistinctCount ==
  ASSUME NEW n \in Nat, NEW g, \A i, j \in 1..n : g[i] = g[j] => i = j
  PROVE  Cardinality({g[i] : i \in 1..n}) = n
<1> DEFINE T == {g[i] : i \in 1..n}
           f == [i \in 1..n |-> g[i]]
<1>1. IsFiniteSet(1..n) /\ Cardinality(1..n) = n
  <2>1. IsFiniteSet(1..n) /\ Cardinality(1..n) = IF 1 > n THEN 0 ELSE n - 1 + 1
    BY FS_Interval
  <2> QED BY <2>1
<1>2. f \in [1..n -> T] /\ (\A i, j \in 1..n : f[i] = f[j] => i = j)
      /\ (\A t \in T : \E i \in 1..n : f[i] = t)
  OBVIOUS
<1> HIDE DEF f, T
<1>3. f \in Bijection(1..n, T)
  BY <1>2 DEF Bijection, Injection, Surjection, IsInjective
<1>4. ExistsBijection(1..n, T)
  BY <1>3 DEF ExistsBijection
<1>5. Cardinality(T) = Cardinality(1..n)
  BY <1>1, <1>4, FS_Bijection
<1> QED BY <1>1, <1>5 DEF T

(* A verdict counts distinct attesters of today that signed. *)
LEMMA VerdictTold ==
  ASSUME TypeOK, AttestationsSignCommitment
  PROVE  VerdictSound
<1> SUFFICES ASSUME NEW q \in DOMAIN oplogCommitment, VerifyAttestation(q) = "verified"
             PROVE  \E W \in SUBSET DOMAIN attesters :
                      /\ Cardinality(W) >= threshold
                      /\ \A a \in W : \E i \in 1..Len(GetOplogAttestations(q)) :
                           LET att == GetOplogAttestations(q)[i]
                           IN  /\ att.attester = a
                               /\ att.signature.oplog_root = oplogCommitment[q].oplog_root
                               /\ att.signature.end_ts = oplogCommitment[q].oplog_end_ts
  BY DEF VerdictSound
<1> DEFINE atts == GetOplogAttestations(q)
           n == Len(atts)
           authorized == {i \in 1..n : atts[i].attester \in DOMAIN attesters}
           W == {atts[i].attester : i \in 1..n}
<1>1. atts \in Seq(OplogAttestation)
  BY AttestationsType
<1> HIDE DEF atts
<1>2. n \in Nat /\ threshold \in Nat
  BY <1>1 DEF TypeOK
<1>3. Cardinality(authorized) = n /\ n >= threshold /\ n # 0
  <2> DEFINE c == Cardinality(authorized)
  <2>1. "verified" = CASE n = 0 -> "no_attestations"
                       [] n > 0 /\ c < n -> "unauthorized_attester"
                       [] n > 0 /\ c = n /\ c >= threshold -> "verified"
                       [] OTHER -> "threshold_not_met"
    BY DEF VerifyAttestation, atts
  <2> HIDE DEF c, n
  <2> QED BY <2>1, <1>2 DEF c
<1>4. authorized = 1..n
  <2>1. authorized \in SUBSET (1..n)
    OBVIOUS
  <2> HIDE DEF authorized, n
  <2>2. IsFiniteSet(1..n) /\ Cardinality(1..n) = IF 1 > n THEN 0 ELSE n - 1 + 1
    BY <1>2, FS_Interval
  <2>3. Cardinality(1..n) = Cardinality(authorized)
    BY <2>2, <1>2, <1>3
  <2> QED BY <2>1, <2>2, <2>3, FS_Subset
<1>5. \A i \in 1..n : atts[i].attester \in DOMAIN attesters
  BY <1>4
<1>6. \A i \in 1..n :
        /\ atts[i].signature.oplog_root = oplogCommitment[q].oplog_root
        /\ atts[i].signature.end_ts = oplogCommitment[q].oplog_end_ts
        /\ \A j \in 1..n : atts[j].attester = atts[i].attester => i = j
  <2>1. q \in DOMAIN oplogAttestations => atts = oplogAttestations[q]
    BY DEF GetOplogAttestations, atts
  <2>2. q \notin DOMAIN oplogAttestations => atts = <<>>
    BY DEF GetOplogAttestations, atts
  <2>3. CASE q \in DOMAIN oplogAttestations
    BY <2>1, <2>3 DEF AttestationsSignCommitment
  <2>4. CASE q \notin DOMAIN oplogAttestations
    BY <2>2, <2>4
  <2> QED BY <2>3, <2>4
<1>7. Cardinality(W) = n
  <2> DEFINE g == [i \in 1..n |-> atts[i].attester]
  <2>1. \A i, j \in 1..n : g[i] = g[j] => i = j
    BY <1>6
  <2>2. W = {g[i] : i \in 1..n}
    OBVIOUS
  <2> HIDE DEF g, W, n
  <2>3. Cardinality({g[i] : i \in 1..n}) = n
    BY <2>1, <1>2, DistinctCount
  <2> QED BY <2>2, <2>3
<1>8. W \in SUBSET DOMAIN attesters
  BY <1>5
<1>9. \A a \in W : \E i \in 1..n :
        /\ atts[i].attester = a
        /\ atts[i].signature.oplog_root = oplogCommitment[q].oplog_root
        /\ atts[i].signature.end_ts = oplogCommitment[q].oplog_end_ts
  BY <1>6
<1> HIDE DEF W
<1> QED BY <1>2, <1>3, <1>7, <1>8, <1>9 DEF atts

(* What a deployed contract answers is backed by what it stores: a         *)
(* "verified" verdict by `threshold` attesters of today who signed this    *)
(* commitment, a page of the history by the newest entries without a gap,  *)
(* a disclosure by a committed root.                                       *)
THEOREM AnswersAlwaysBacked == DeployedSpec => []AnswersBacked
<1> DEFINE IInv == ChainInv /\ AttestationsSignCommitment /\ DisclosuresAnchored
<1>1. Init => IInv
  BY ChainInit DEF Init, AttestationsSignCommitment, DisclosuresAnchored
<1>2. IInv /\ [DeployedNext]_vars => IInv'
  <2>1. [DeployedNext]_vars => [Next]_vars
    BY DEF DeployedNext, Next
  <2> QED BY <2>1, ChainStep, AttestationStep, DisclosureStep DEF ChainInv
<1>3. IInv => AnswersBacked
  BY HistoryTold, VerdictTold DEF ChainInv, AnswersBacked
<1> QED BY <1>1, <1>2, <1>3, PTL DEF DeployedSpec
=============================================================================
