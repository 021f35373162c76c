SPECIFICATION DeployedSpec
CONSTANTS
  a1 = a1
  a2 = a2
  r1 = r1
  r2 = r2
  o1 = o1
  o2 = o2
  k1 = k1
  k2 = k2
  v1 = v1
  v2 = v2
  c1 = c1
  None = None
  Address <- MCAddress
  Root <- MCRoot
  OplogRoot <- MCOplogRoot
  Key <- MCKey
  Vk <- MCVk
  Claim <- MCClaim
  Ts <- MCTs
  Thresholds <- MCThresholds
  MaxRecords = 1
SYMMETRY MCSymmetry
INVARIANTS
    ChainConsistent
    AttestationsSignCommitment
    AnswersBacked
PROPERTY ImplementsAppendOnlyLog
PROPERTY VerificationPermanent
