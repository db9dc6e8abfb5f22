SPECIFICATION FairSpec
CONSTANTS
  Steps = {"a"}
  Entry = "entry"
  Events = {"x"}
  Flow <- PairFlow
  AwaitBefore = {}
  AwaitAfter = {}
  AwaitType <- AllTime
  TimeoutAction <- AllFail
  Instances = {i1}
  MaxAttempts = 2
  Faulty = {"a"}
  Silent = {}
  RemoveFinished = TRUE
  EntryAfter = "published"
  MayStall = TRUE
  MaxCalls = 0
  MaxCancels = 1
  NoStep = NoStep
  NoInstance = NoInstance
CHECK_DEADLOCK FALSE
PROPERTIES RunEnds NoStepAfterCancel
