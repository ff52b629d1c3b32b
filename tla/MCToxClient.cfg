SPECIFICATION FairSpec
CONSTANTS
  Worker = w
  Caller <- Callers
  NoThread = NoThread
  Reentrant = TRUE
  MaxIn = 1
  MaxOut = 1
  Client = {c1, c2}
  Stopper = {s}
  Friend = {f1, f2}
  Absent = Absent
  Empty = Empty
  Torn = Torn
  AcceptInvites = TRUE
  MaxCalls = 2
  MaxEvents = 1
  MaxCrashes = 2
CHECK_DEADLOCK FALSE
INVARIANTS
  FriendsKept
  RequestsTold
  OneRowEach
PROPERTIES
  SavedGrows
  IsService
  StopEnds
