SPECIFICATION FairSpec
CONSTANTS
  JobIds = {j1, j2}
  DelayIds = {d1}
  LaterJob = j1
  RepeatLimit = 2
  Concurrency = 2
  MaxAttempts = 2
  MaxQueueSize = 2
  Outcomes = {"returns", "throws", "awaits"}
  KeepFinished = TRUE
  ReuseAtOnce = FALSE
  EarlyEnqueue = FALSE
  MayCrash = TRUE
  MayClose = TRUE
  MayPause = TRUE
INVARIANTS HandledOnce AttemptsBounded FilesAgree
PROPERTIES JobsFinish
