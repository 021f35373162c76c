SPECIFICATION FairSpec
CONSTANTS
  q1 = q1
  Request = {}
  Threshold = 2
  MaxLeaves = 4
  MaxTs = 0
  MaxCrashes = 1
  MaxRequests = 0
  HistoryLimit = 1
  SaveFaults = TRUE
  IpfsFaults = TRUE
PROPERTY FullEpochCloses
CHECK_DEADLOCK FALSE
