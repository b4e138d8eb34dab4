SPECIFICATION Spec
CONSTANTS
  n1 = n1
  n2 = n2
  pool = pool
  Node = {n1, n2}
  Key = {pool}
  PoolKey = {pool}
  NoData = NoData
  NoMsg = NoMsg
  ConfirmCount = 3
  StaleAge = 2
  Writers = {n1}
  MaxChange = 2
  MaxGen = 3
  MaxRun = 1
  Start <- Together
  MaxClock = 6
  MaxInFlight = 1
  FaultKinds = {"step"}
  MaxFaults = 1
  Calm = {"fault"}
PROPERTIES
  ProcessedIsAppliedOrAsked
CHECK_DEADLOCK FALSE
