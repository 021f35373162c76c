------------------------------ MODULE MCContract ------------------------------
(* Small instance of the commitment contract for TLC. *)
EXTENDS ZkAuditCommitment, TLC

CONSTANTS a1, a2, r1, r2, o1, o2, k1, k2, v1, v2, c1

MCAddress == {a1, a2}
MCRoot == {r1, r2}
MCOplogRoot == {o1, o2}
MCKey == {k1, k2}
MCVk == {v1, v2}
MCClaim == {c1}
MCTs == {0, 1}
MCThresholds == {0, 2}

MCSymmetry ==
  Permutations(MCAddress) \cup Permutations(MCRoot) \cup Permutations(MCOplogRoot)
    \cup Permutations(MCVk) \cup Permutations(MCKey)
=============================================================================
