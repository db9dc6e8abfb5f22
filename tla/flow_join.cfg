SPECIFICATION Spec
CONSTANTS
  Steps = {"a", "b", "c"}
  Entry = "entry"
  Events = {"x", "y", "z"}
  Flow <- JoinFlow
  AwaitBefore = {}
  AwaitAfter = {}
  AwaitType <- AllTime
  TimeoutAction <- AllFail
  Instances = {i1}
  MaxAttempts = 2
  Faulty = {"a", "c"}
  Silent = {}
  RemoveFinished = FALSE
  EntryAfter = "published"
  MayStall = FALSE
  MaxCalls = 0
  MaxCancels = 0
  NoStep = NoStep
  NoInstance = NoInstance
CHECK_DEADLOCK FALSE
INVARIANTS OneTerminalEvent StepsCompleteOnce NoLimbo StatsSettle
