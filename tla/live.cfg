SPECIFICATION Spec
CONSTANTS
  r1 = r1
  r2 = r2
  Topics = {r1, r2}
  Script <- TwoRuns
  Modes <- Sessions
  HistoryLimit = 3
  MaxRetries = 1
  MaxRequests = 2
  MaxFaults = 1
CONSTRAINT Bounded
INVARIANTS NothingMissed ShowsTheRun NotStranded
CHECK_DEADLOCK FALSE
