SPECIFICATION MCSpec
CONSTANTS
  u1 = u1
  r1 = r1
  r2 = r2
  c1 = c1
  UserJob = {u1}
  RunId = {r1, r2}
  Ui = {c1}
  Kind = {"dump", "copy"}
  Cron <- MCCron
  Retention <- MCKeep
  MaxConcurrent = 2
  MaxTime = 2
  MaxCommands = 1
  MaxFaults = 1
  MaxCrashes = 1
CHECK_DEADLOCK FALSE
INVARIANTS
    RunsOnce
    RecordsKept
PROPERTY RunsDrain
