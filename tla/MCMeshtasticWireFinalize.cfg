SPECIFICATION FairSpec
CONSTANTS
  Worker = w
  Caller <- Callers
  NoThread = NoThread
  Client = {c1}
  Listener = {l1}
  Stopper = {s1}
  Reentrant = FALSE
  MaxIn = 2
  MaxOut = 1
  Uid = {u1}
  TextUid = {x}
  Idless = {}
  NoUid = NoUid
  OnlyLora = TRUE
  Commands = {"send_message", "stop"}
  MaxCalls = 2
  MaxPackets = 1
CHECK_DEADLOCK FALSE
PROPERTIES
  FinalizeFinishes
