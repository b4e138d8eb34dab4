SPECIFICATION FairSpec
CONSTANTS
  n1 = n1
  n2 = n2
  None = None
  Node = {n1, n2}
  Rank <- MCRank
  Requests = {"started", "stopped"}
  MaxRequests = 2
  Faults = {"action"}
  MaxFaults = 1
  MaxQueue = 3
  Calm = {"prompt", "local"}
PROPERTY OrchestrationEnds
CHECK_DEADLOCK FALSE
