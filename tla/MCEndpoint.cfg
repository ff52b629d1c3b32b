SPECIFICATION Spec
CONSTANTS
  n1 = n1
  tox = tox
  m1 = m1
  Client = {c1, c2}
  Node = {n1, m1}
  Tox = tox
  Counts = {0, 1, 2}
  MaxSize = 2
  MaxItems <- Bounds
  Prefixed <- Lookups
  MaxAsked = 3
  None = None
SYMMETRY Symmetry
INVARIANTS
  NodesOnce
  OldestFirst
CHECK_DEADLOCK FALSE
