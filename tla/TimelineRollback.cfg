SPECIFICATION MCSpec
CONSTANTS
    Profiles = {p1, p2}
    Tasks = {t1, t2}
    MaxEntries = 3
    MaxRemovals = 2
    MaxFaults = 1
    Docs = {1, 2, 3}
    DisplayLimit = 1
    CaptureLimit = 2
    Collections <- MCCollections
    Requests <- MCRequests
    MaxWrites = 1
SYMMETRY Symmetry
CHECK_DEADLOCK FALSE
INVARIANT
    RollbackUndoes
