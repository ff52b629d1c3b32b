SPECIFICATION Spec
CONSTANTS
  Thread = {t1, t2, t3}
  NoThread = NoThread
  Item = {a, b, c}
  NoItem = NoItem
  Falsy = {}
  MaxLen = 2
  BatchSizes = {2}
  Ops = {"put", "get_batch", "drop", "metrics"}
SYMMETRY Symmetry
INVARIANTS
  Conservation
  NewestKept
  GivenInOrder
  SnapshotCovered
PROPERTIES
  Implements
