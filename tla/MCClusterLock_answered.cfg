SPECIFICATION FairSpec
CONSTANTS
  n1 = n1
  n2 = n2
  c1 = c1
  c2 = c2
  NodeList <- TwoNodes
  Home <- Apart
  Client = {c1, c2}
  AskedLease = 9
  DefaultLease = 1
  Wait = 2
  Margin = 1
  MaxLease = 3
  MaxId = 2
  MaxAsks = 2
  MaxTime = 3
  Horizon = 6
  MaxFlips = 1
  MaxStops = 0
  Calm = {"prompt"}
INVARIANTS
  ForgottenStaysForgotten
  NoLostWakeup
PROPERTIES
  Answered
CHECK_DEADLOCK FALSE
