SPECIFICATION Spec
CONSTANTS
  n1 = n1
  n2 = n2
  None = None
  Node = {n1, n2}
  Rank <- MCRank
  Requests = {"stopped"}
  MaxRequests = 1
  Faults = {"node"}
  MaxFaults = 1
  MaxQueue = 3
  Calm = {"prompt", "local"}
PROPERTY StopReachesAll
CHECK_DEADLOCK FALSE
