SPECIFICATION FairSpec
CONSTANTS
  n1 = n1
  n2 = n2
  pool = pool
  Node = {n1, n2}
  Key = {pool}
  PoolKey = {pool}
  NoData = NoData
  NoMsg = NoMsg
  ConfirmCount = 3
  StaleAge = 3
  Writers = {n1}
  MaxChange = 1
  MaxGen = 2
  MaxRun = 2
  Start <- Together
  MaxClock = 27
  MaxInFlight = 1
  FaultKinds = {"drop", "restart", "restart back", "forget", "step", "refresh", "expire"}
  MaxFaults = 1
  Calm = {"change", "fault"}
INVARIANTS
  NoMessageStorm
PROPERTIES
  Convergence
CHECK_DEADLOCK FALSE
