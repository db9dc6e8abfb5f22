SPECIFICATION FairSpec
CONSTANTS
  j1 = j1
  j2 = j2
  w1 = w1
  w2 = w2
  Ids = {j1, j2}
  Workers = {w1, w2}
  Adapters <- AllAdapters
  NoJob = NoJob
  Attempts = 2
  MaxSize = 2
  MaxFaults = 1
INVARIANTS HandledAlone
PROPERTIES JobsEnd
CHECK_DEADLOCK FALSE
