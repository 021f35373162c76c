---------------------------- MODULE MerkleTrees ----------------------------
(***************************************************************************)
(* The two Merkle trees: the audit log's tree of a fixed height with zero  *)
(* padding (zk-audit/src/merkle.rs) and the tree over the entries of an    *)
(* oplog range, which repeats an odd node, with the canonical bytes its    *)
(* leaves are hashes of (audit-service/src/audit/oplog.rs, oplog_canon.rs). *)
(*                                                                         *)
(* Poseidon and SHA-256 are taken as injective: the hash of two nodes is   *)
(* their pair, a leaf a sequence of length one.                            *)
(***************************************************************************)
EXTENDS Integers, Sequences, FiniteSets, FiniteSetsExt, SequencesExt, TLC

Leaf(x) == <<x>>
Zero == Leaf("0")
Hash(left, right) == <<left, right>>

-----------------------------------------------------------------------------
(* AuditMerkleTree: the inserts so far, each with its index.                *)

Insert(leaves, value) == Append(leaves, [index |-> Len(leaves), value |-> value])
AllInserted(values) == FoldLeft(Insert, <<>>, values)

Indices(leaves) == {leaves[i].index : i \in DOMAIN leaves}
\* The HashMap of the leaves: a later insert replaces an earlier one.
LeafAt(leaves, k) ==
    IF k \in Indices(leaves)
    THEN leaves[Max({i \in DOMAIN leaves : leaves[i].index = k})].value
    ELSE Zero

ZeroHash[h \in Nat] == IF h = 0 THEN Zero ELSE Hash(ZeroHash[h - 1], ZeroHash[h - 1])

SubtreeHash(leaves, first, height) ==
    LET hash[level \in 0 .. height, k \in Nat] ==
            IF level = 0 THEN LeafAt(leaves, k)
            ELSE IF Indices(leaves) \cap k .. k + 2 ^ level - 1 = {} THEN ZeroHash[level]
            ELSE Hash(hash[level - 1, k], hash[level - 1, k + 2 ^ (level - 1)])
    IN hash[height, first]

Root(leaves, height) == IF leaves = <<>> THEN ZeroHash[height] ELSE SubtreeHash(leaves, 0, height)

Direction(index, level) == (index \div 2 ^ level) % 2
Sibling(node) == IF node % 2 = 0 THEN node + 1 ELSE node - 1
\* Mutant: the sibling's node index is taken for a leaf index.
SiblingLeaf_NotShifted(index, level) == Sibling(index \div 2 ^ level)
\* The sibling's node index becomes the index of its first leaf.
SiblingLeaf(index, level) == Sibling(index \div 2 ^ level) * 2 ^ level

Climb(leaf, path) ==
    FoldLeft(LAMBDA node, step : IF step.dir = 0 THEN Hash(node, step.with) ELSE Hash(step.with, node), leaf, path)

\* For an index that was inserted; any other is an error.
ProveInclusion(leaves, index, height) ==
    LET path == [i \in 1 .. height |-> [dir |-> Direction(index, i - 1),
                                        with |-> SubtreeHash(leaves, SiblingLeaf(index, i - 1), i - 1)]]
    IN [leaf |-> LeafAt(leaves, index), index |-> index, path |-> path, root |-> Climb(LeafAt(leaves, index), path)]

Verify(proof) == Climb(proof.leaf, proof.path) = proof.root

-----------------------------------------------------------------------------
(* OplogMerkleTree: the levels, leaves first.                               *)

EmptyRoot == Leaf("empty_oplog_tree")

Parents(level) ==
    [i \in 1 .. (Len(level) + 1) \div 2 |->
        Hash(level[2 * i - 1], level[IF 2 * i <= Len(level) THEN 2 * i ELSE 2 * i - 1])]
\* The loop runs until one node is left.
Depth(n) == CHOOSE d \in 0 .. n : 2 ^ d >= n /\ \A e \in 0 .. d - 1 : 2 ^ e < n
Levels(leaves) ==
    LET level[i \in 1 .. Depth(Len(leaves)) + 1] == IF i = 1 THEN leaves ELSE Parents(level[i - 1])
    IN level
OplogRoot(leaves) == IF leaves = <<>> THEN EmptyRoot ELSE Head(Last(Levels(leaves)))

OplogProof(leaves, index) ==
    LET levels == Levels(leaves)
        node(l) == index \div 2 ^ (l - 1)
    IN [l \in 1 .. Len(levels) - 1 |->
          levels[l][1 + (IF Sibling(node(l)) < Len(levels[l]) THEN Sibling(node(l)) ELSE node(l))]]
VerifyOplog(leaf, index, proof, root) ==
    Climb(leaf, [l \in DOMAIN proof |-> [dir |-> Direction(index, l - 1), with |-> proof[l]]]) = root

-----------------------------------------------------------------------------
(* OplogTimestamp::pack_u64 and unpack_u64, in words of w bits.             *)

Pack(ts, w) == ts.time * 2 ^ w + ts.increment
Unpack(packed, w) == [time |-> packed \div 2 ^ w, increment |-> packed % 2 ^ w]
Before(s, t) == s.time < t.time \/ (s.time = t.time /\ s.increment < t.increment)

-----------------------------------------------------------------------------
(* The canonical bytes of an oplog entry.  A value is <<type, content>>: the *)
(* bytes of a number, date or id, all of one width; the bytes of a text; a   *)
(* sequence of values, or of pairs of a name and a value.  A length is one   *)
(* byte.                                                                     *)

FixedTag == [null |-> 1, bool |-> 2, int32 |-> 3, int64 |-> 4, double |-> 5, objectId |-> 7, date |-> 8, timestamp |-> 9, decimal |-> 14]
\* Code, symbols, the code of one with scope and anything else are written as text.
TextTypes == {"string", "code", "symbol", "scoped", "other"}

NaN(bytes) == <<255, bytes>>
Bits(content) == IF content[1] = 255 THEN NaN(0) ELSE content

Sized(bytes) == <<Len(bytes)>> \o bytes
NameBefore(x, y) ==
    \E i \in 1 .. Min({Len(x) + 1, Len(y)}) :
        /\ SubSeq(x, 1, i - 1) = SubSeq(y, 1, i - 1)
        /\ i > Len(x) \/ x[i] < y[i]

RECURSIVE CanonicalBson(_)
CanonicalBson(value) ==
    LET t == value[1]
        v == value[2]
        field(pair) == Sized(pair[1]) \o CanonicalBson(pair[2])
    IN CASE t \in TextTypes -> <<6>> \o Sized(v)
         [] t = "binary" -> <<10, v[1]>> \o Sized(v[2])
         [] t = "regex" -> <<11>> \o Sized(v[1]) \o Sized(v[2])
         [] t = "array" -> <<12, Len(v)>> \o FlattenSeq([i \in DOMAIN v |-> CanonicalBson(v[i])])
         [] t = "document" ->
              LET sorted == SortSeq(v, LAMBDA p, q : NameBefore(p[1], q[1]))
              IN <<13, Len(v)>> \o FlattenSeq([i \in DOMAIN sorted |-> field(sorted[i])])
         [] t = "double" -> <<FixedTag[t]>> \o Bits(v)
         [] OTHER -> <<FixedTag[t]>> \o v

\* The projected fields in sorted order, o and o2 and t and ts among them.
CanonicalFields == <<"ns", "o", "o2", "op", "t", "ts", "ui", "v">>
NameBytes == [ns |-> <<14, 19>>, o |-> <<15>>, o2 |-> <<15, 2>>, op |-> <<15, 16>>, t |-> <<20>>, ts |-> <<20, 19>>, ui |-> <<21, 9>>, v |-> <<22>>]

CanonicalEntry(entry) ==
    LET present == SelectSeq(CanonicalFields, LAMBDA f : f \in DOMAIN entry)
    IN <<Len(present)>> \o FlattenSeq([i \in DOMAIN present |-> Sized(NameBytes[present[i]]) \o CanonicalBson(entry[present[i]])])

-----------------------------------------------------------------------------
Padded(values, height) == [i \in 1 .. 2 ^ height |-> IF i \in DOMAIN values THEN values[i] ELSE Zero]

(* For as many leaves as the tree has room for, the root is the one of the   *)
(* whole padded tree, every inserted leaf has a proof that verifies and ends *)
(* in that root, and the proof fits no other leaf and no other position.     *)
LogTreeBinds(values, height) ==
    LET leaves == AllInserted(values)
    IN Len(values) <= 2 ^ height =>
         /\ Root(leaves, height) = OplogRoot(Padded(values, height))
         /\ \A k \in Indices(leaves) :
              LET proof == ProveInclusion(leaves, k, height)
              IN /\ proof.root = Root(leaves, height) /\ Verify(proof)
                 /\ proof.leaf = values[k + 1]
                 /\ \A other \in ToSet(values) \ {proof.leaf} : ~ Verify([proof EXCEPT !.leaf = other])
                 /\ \A j \in 0 .. 2 ^ height - 1 :
                      Verify([proof EXCEPT !.path = [i \in DOMAIN proof.path |-> [proof.path[i] EXCEPT !.dir = Direction(j, i - 1)]]])
                      => LeafAt(leaves, j) = proof.leaf

(* The root and the number of entries, which are committed together, fix the *)
(* entries; every entry has a proof, which fits only the places that hold    *)
(* the same entry.                                                           *)
OplogTreeBinds(values, others) ==
    /\ Len(values) = Len(others) /\ OplogRoot(values) = OplogRoot(others) => values = others
    /\ \A i \in 0 .. Len(values) - 1 :
         LET proof == OplogProof(values, i)
         IN /\ VerifyOplog(values[i + 1], i, proof, OplogRoot(values))
            /\ \A j \in 0 .. Len(values) - 1 : \A v \in ToSet(values) \cup ToSet(others) :
                 VerifyOplog(v, j, proof, OplogRoot(values)) => values[j + 1] = v

\* What two values may differ in and still be hashed alike: the order of a document's
\* fields, the bits of a NaN, and which of the types written as text they have.
RECURSIVE Meaning(_)
Meaning(value) ==
    LET t == value[1]
        v == value[2]
    IN CASE t \in TextTypes -> <<"string", v>>
         [] t = "array" -> <<t, [i \in DOMAIN v |-> Meaning(v[i])]>>
         [] t = "document" -> <<t, {<<v[i][1], Meaning(v[i][2])>> : i \in DOMAIN v}>>
         [] t = "double" -> <<t, IF v[1] = 255 THEN <<255>> ELSE v>>
         [] OTHER -> value

(* Two parties that hold the same value write the same bytes, and no two    *)
(* values that differ in more than that do, however texts and nested         *)
(* documents line up with the tags and lengths around them; the same of      *)
(* entries, whose other fields do not count.                                 *)
CanonicalBinds(x, y) == CanonicalBson(x) = CanonicalBson(y) <=> Meaning(x) = Meaning(y)
EntryBinds(e, f) ==
    LET kept(entry) == {<<name, Meaning(entry[name])>> : name \in DOMAIN entry \cap ToSet(CanonicalFields)}
    IN CanonicalEntry(e) = CanonicalEntry(f) <=> kept(e) = kept(f)

(* Packed timestamps read back and keep their order.                         *)
PackingKeepsOrder(s, t, w) ==
    /\ Unpack(Pack(s, w), w) = s
    /\ Before(s, t) <=> Pack(s, w) < Pack(t, w)
=============================================================================
