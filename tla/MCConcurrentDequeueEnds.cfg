SPECIFICATION FairSpec
CONSTANTS
  Thread = {t1, t2}
  NoThread = NoThread
  Item = {a, b, c}
  NoItem = NoItem
  Falsy = {c}
  MaxLen = 2
  BatchSizes <- OddBatchSizes
  Ops = {"put", "put_top", "get", "get_batch", "drop", "len"}
PROPERTIES
  LossOnlyWhenFull
  MutexReleased
