SPECIFICATION FairSpec
CONSTANTS
  Stream = {s1, s2}
  Request = {r1}
  Cleaner = {k1, k2}
  Controller = ctl
  None = None
  Continue = {s2}
  WaitForEnd = {TRUE, FALSE}
INVARIANTS
  KeysStay
  OneCleaner
PROPERTIES
  StopEnds
  Expires
