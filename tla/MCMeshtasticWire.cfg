SPECIFICATION Spec
CONSTANTS
  Worker = w
  Caller <- Callers
  NoThread = NoThread
  Client = {c1}
  Listener = {l1, l2}
  Stopper = {}
  Reentrant = FALSE
  MaxIn = 2
  MaxOut = 1
  Uid = {u1, u2}
  TextUid = {x}
  Idless = {z}
  NoUid = NoUid
  OnlyLora = TRUE
  Commands = {"send_message"}
  MaxCalls = 2
  MaxPackets = 2
SYMMETRY Symmetry
CHECK_DEADLOCK FALSE
INVARIANTS
  StatusOnce
  Accounted
  CommandsAccounted
