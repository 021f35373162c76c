SPECIFICATION Spec
CONSTANTS
  d1 = d1
  d2 = d2
  t1 = t1
  t2 = t2
  Domain <- MCDomain
  Recorder <- MCRecorder
  MaxEvents = 2
  MaxMeta = 2
  MaxCrashes = 2
  MaxClears = 1
  MaxErrors = 1
  Faults = {"append", "torn", "sled"}
SYMMETRY MCSymmetry
CHECK_DEADLOCK FALSE
INVARIANTS
    AckedDurableWhileIntact
    SequencesDistinct
    MemoryMatchesFile
