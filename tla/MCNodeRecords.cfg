SPECIFICATION Spec
CONSTANTS
  i1 = i1
  i2 = i2
  i3 = i3
  n1 = n1
  n2 = n2
  Reader = {r1, r2}
  Id = {i1, i2, i3}
  Node = {n1, n2}
  NodeOf <- Names
  Skipped = {i3}
  Delta <- Deltas
  Tries = 2
  MaxTime = 2
  MaxReads = 3
  None = None
SYMMETRY Symmetry
INVARIANTS
  Spaced
  Recorded
CHECK_DEADLOCK FALSE
