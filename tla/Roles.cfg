\* Three writes, two epochs, one failure and one restart or scan.
CONSTANTS
    Key = {k1, k2}
    Spelling = {lower, upper}
    ReaderHasKey = TRUE
    MaxWrites = 3
    MaxEpochs = 2
    MaxFaults = 1
    MaxRestarts = 1
    HistoryLimit = 2
    NoOplog = NoOplog
SPECIFICATION MCSpec
CHECK_DEADLOCK FALSE
INVARIANTS
    AttesterSound
    RebuildOutcomeTellsTheCopy
    
PROPERTY LoopReaches
