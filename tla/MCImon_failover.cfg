SPECIFICATION Spec
CONSTANTS
  n1 = n1
  n2 = n2
  None = None
  Node = {n1, n2}
  Rank <- MCRank
  Requests = {"started", "stopped", "aborted"}
  MaxRequests = 1
  Faults = {"action", "instance", "node"}
  MaxFaults = 1
  MaxQueue = 3
  Calm = {"prompt", "local"}
INVARIANT TypeOK
PROPERTY ImplementsFailover
CHECK_DEADLOCK FALSE
