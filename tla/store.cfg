SPECIFICATION StoreSpec
CONSTANTS
  c1 = c1
  c2 = c2
  Clients = {c1, c2}
  Backends <- AllBackends
  Paths <- AllPaths
  Counter <- Fires
  Columns <- AllColumns
  Patches <- SomePatches
  Initial <- FirstDoc
  Streams <- SomeStreams
  Keys <- SomeKeys
  RunPrefix <- StateOfRun
  EventTypes <- TwoTypes
  Queries <- SomeQueries
  Increments = {"memory", "file"}
  ReadLimit = 10
  Ahead <- SameClocks
  MaxRetries = 2
  MaxCalls = 3
  MaxCrashes = 1
INVARIANTS CountersExact DiskCatchesUp Kept
PROPERTIES UpdatesDontOverwrite CallsReturn
CHECK_DEADLOCK FALSE
