SPECIFICATION FairSpec
CONSTANTS
  i1 = i1
  i2 = i2
  c1 = c1
  c2 = c2
  Inst = {i1, i2}
  Slots = {c1, c2}
  Origin = i1
  NoOne = NoOne
  Cases <- Deployed
  MaxLosses = 1
INVARIANTS RunsOnceAlone
PROPERTIES CancelHolds JobRuns RecurringGoesOn
CHECK_DEADLOCK FALSE
