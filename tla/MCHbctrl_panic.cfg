SPECIFICATION Spec
CONSTANTS
  h1 = h1
  h2 = h2
  Rid = {h1}
  Grace = 1
  MaxWatch = 2
  MaxOps <- One
  MaxFlips <- One
  MaxBus = 3
  Ops = {"rescan"}
  OpRid = {h1}
  Calm = {}
INVARIANTS
  NeverStaleTwice
CHECK_DEADLOCK FALSE
