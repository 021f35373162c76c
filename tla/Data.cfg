SPECIFICATION MCSpec
CONSTANTS
  Command = {"export", "clipboard", "copy", "import", "dump", "restore"}
  Source <- MCSource
  BatchSize = 2
  MaxErrors = 1
  Relation = {"r1", "r2"}
  MaxScans = 1
  MaxOverrides = 2
  Id = {"p", "q"}
  ProfileName = {"n", "m"}
  Secret = {"s", "u"}
  Mechanism = {"none", "external"}
  Form <- MCForm
  Thread = {"t1", "t2"}
  MaxCommands = 3
CHECK_DEADLOCK FALSE
INVARIANTS
    TransfersTellTheTruth
    FiltersKeepMeaning
    RootsBindLeaves
    
    QueriesTellTheTruth
    HostValuesReadBack
    ModelFollowsSample
    OverrideHitsSeenEdge
    ProfilesKept
