SPECIFICATION MCSpec
CONSTANTS
    c1 = c1
    c2 = c2
    c3 = c3
    c4 = c4
    daemon = daemon
    desktop = desktop
    admin = admin
    other = other
    Free = Free
    Task = {c1, c2, c3, c4}
    Process = {daemon, desktop}
    Account = {admin, other}
    Admin = admin
    Home <- MCHome
    Signer <- MCSigner
    Calls <- MCCalls
    MaxBadSeqRetries = 1
    MaxPolls = 1
    MaxFaults = 1
INVARIANTS
    CallsTellEffects
PROPERTY EveryCallReturns
