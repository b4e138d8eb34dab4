SPECIFICATION Spec
CONSTANTS
  n1 = n1
  n2 = n2
  pool = pool
  inst = inst
  Node = {n1, n2}
  Key = {pool, inst}
  PoolKey = {pool}
  NoData = NoData
  NoMsg = NoMsg
  ConfirmCount = 3
  StaleAge = 9
  Writers = {n1}
  MaxChange = 2
  MaxGen = 3
  MaxRun = 2
  Start <- Apart
  MaxClock = 4
  MaxInFlight = 3
  FaultKinds = {"drop", "member", "refresh", "restart"}
  MaxFaults = 1
  Calm = {}
INVARIANTS
  TypeOK
  QueueIsContiguous
  HoldersAgree
  GenMeansData
  NoGensOfStrangers
PROPERTIES
  ProcessedIsAppliedOrAsked
  NeverSetBack
CHECK_DEADLOCK FALSE
