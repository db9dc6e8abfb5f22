SPECIFICATION Spec
CONSTANTS
  Steps = {"a"}
  Entry = "entry"
  Events = {"x"}
  Flow <- PairFlow
  AwaitBefore = {"a"}
  AwaitAfter = {"entry"}
  AwaitType <- AllWebhook
  TimeoutAction <- MixedActions
  Instances = {i1}
  MaxAttempts = 2
  Faulty = {}
  Silent = {"entry"}
  RemoveFinished = FALSE
  EntryAfter = "any"
  MayStall = FALSE
  MaxCalls = 2
  MaxCancels = 1
  NoStep = NoStep
  NoInstance = NoInstance
CHECK_DEADLOCK FALSE
INVARIANTS Backed AwaitAfterHolds
PROPERTIES ContractSpec CanceledIsFinal
