SPECIFICATION Spec
CONSTANTS
  n1 = n1
  n2 = n2
  c1 = c1
  c2 = c2
  NodeList <- TwoNodes
  Home <- Apart
  Client = {c1, c2}
  AskedLease = 9
  DefaultLease = 1
  Wait = 2
  Margin = 1
  MaxLease = 3
  MaxId = 2
  MaxAsks = 2
  MaxTime = 3
  Horizon = 6
  MaxFlips = 2
  MaxStops = 0
  Calm = {"agreed", "die"}
INVARIANTS
  MutualExclusion
CHECK_DEADLOCK FALSE
