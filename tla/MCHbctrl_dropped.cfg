SPECIFICATION FairSpec
CONSTANTS
  h1 = h1
  h2 = h2
  Rid = {h1, h2}
  Grace = 1
  MaxWatch = 3
  MaxOps <- ThreeOrOne
  MaxFlips <- TwoOrOne
  MaxBus = 3
  Ops = {"rescan", "delete", "stop", "start", "restart", "fail", "conf"}
  OpRid = {h1}
  Calm = {"steady"}
INVARIANTS
  TypeOK
PROPERTIES
  SilentIsDropped
CHECK_DEADLOCK FALSE
