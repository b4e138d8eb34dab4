SPECIFICATION Spec
CONSTANTS
  n1 = n1
  n2 = n2
  c1 = c1
  c2 = c2
  NodeList <- TwoNodes
  Home <- Apart
  Client = {c1, c2}
  AskedLease = 9
  DefaultLease = 1
  Wait = 1
  Margin = 1
  MaxLease = 2
  MaxId = 2
  MaxAsks = 2
  MaxTime = 2
  Horizon = 4
  MaxFlips = 2
  MaxStops = 1
  Calm = {"agreed", "checked", "die"}
INVARIANTS
  TypeOK
  MutualExclusion
  RebuiltHoldsAll
  ForgottenStaysForgotten
  NoLostWakeup
CHECK_DEADLOCK FALSE
