SPECIFICATION MCSpec
CONSTANTS
    Conns = {"c1", "c2"}
    Daemon = "audit"
    MaxWrites = 3
    MaxCalls = 2
    MaxFaults = 2
CHECK_DEADLOCK FALSE
INVARIANTS
    StreamTellsWrites
    WritesCaptured
PROPERTY DaemonCaptures
