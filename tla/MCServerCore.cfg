SPECIFICATION FairSpec
CONSTANTS
  n1 = n1
  n2 = n2
  Admin = {a1, a2}
  Page = {p1}
  Tox = tox
  Nodes <- OneNode
  None = None
  FinalizeReturns = TRUE
  MaxIterations = 3
  MaxMade = 2
  MaxCalls = 3
  Ops = {"init", "start", "stop", "restart"}
CHECK_DEADLOCK FALSE
INVARIANTS
  StopHonest
  StopNeverRaises
  NoOrphan
PROPERTIES
  InstancesComply
  JoinsEnd
