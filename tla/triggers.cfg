SPECIFICATION FairSpec
CONSTANTS
  f1 = f1
  f2 = f2
  Flows = {f1, f2}
  Types <- AllTypes
  Backends <- AllBackends
  Declared = {f1}
  MaxEvents = 3
  MaxTasks = 4
  MaxFailures = 1
  MaxCrashes = 1
INVARIANTS SettledAgrees TimersFollow
PROPERTIES FiresReachAllFlows
CHECK_DEADLOCK FALSE
