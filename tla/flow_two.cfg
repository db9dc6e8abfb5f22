SPECIFICATION FairSpec
CONSTANTS
  Steps = {"a", "b", "c"}
  Entry = "entry"
  Events = {"x", "y", "z"}
  Flow <- JoinFlow
  AwaitBefore = {}
  AwaitAfter = {}
  AwaitType <- AllTime
  TimeoutAction <- AllFail
  Instances = {i1, i2}
  MaxAttempts = 2
  Faulty = {}
  Silent = {}
  RemoveFinished = FALSE
  EntryAfter = "indexed"
  MayStall = FALSE
  MaxCalls = 0
  MaxCancels = 0
  NoStep = NoStep
  NoInstance = NoInstance
CHECK_DEADLOCK FALSE
PROPERTIES RunEnds
