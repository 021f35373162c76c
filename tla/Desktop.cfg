SPECIFICATION MCSpec
CONSTANTS
    Threshold = 2
    MaxEvents = 3
    MaxResets = 1
    MaxTs = 2
    MaxCommits = 2
    MaxRecords = 1
    NoValue = NoValue
    Dir = Dir
    MaxSetups = 2
    MaxProvisions = 2
    MaxSettings = 2
    MaxUps = 2
CHECK_DEADLOCK FALSE
INVARIANTS
    OplogAccounted
    LeftoversHarmless
