SPECIFICATION FairStarts
CONSTANTS
  Layers <- TheLayers
  Paths <- ThePaths
  Contents <- Changed
  Builds <- TheBuilds
  DevDisks <- Developed
  MaxEdits = 2
  FlowStepTimeout = None
  QueueTimeout = 2
  None = None
  NoFile = NoFile
  Servers = {v1, v2}
  Deployed <- TheDeployed
  Configs <- TheConfigs
  PageSize = 2
  MaxFaults = 1
  MaxRuns = 1
INVARIANTS SettledIsCurrent StallCoversChains UpAsConfigured StartsKeepCounts
PROPERTIES EveryServerStarts
CHECK_DEADLOCK FALSE
