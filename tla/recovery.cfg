SPECIFICATION FairSpec
CONSTANTS
  Runs = {r1}
  Kinds = {"time", "event"}
  Actions = {"fail", "continue"}
  MaxChain = 2
  MaxUpsets = 2
CHECK_DEADLOCK FALSE
INVARIANTS Watched
PROPERTIES Settles RecoverySparesWaits
