SPECIFICATION Spec
CONSTANTS
  q1 = q1
  Request = {q1}
  Threshold = 2
  MaxLeaves = 3
  MaxTs = 2
  MaxCrashes = 1
  MaxRequests = 1
  HistoryLimit = 1
  SaveFaults = FALSE
  IpfsFaults = FALSE
CHECK_DEADLOCK FALSE
INVARIANTS
    EpochsPartition
    CommittedOnChain
    AnchorsMatchSavedEpochs
    OplogCovered
