SPECIFICATION Spec
CONSTANTS
  m0 = m0
  m1 = m1
  m2 = m2
  IvSize = 2
  CodeSize <- CodeSizes
  Block = 2
  Message = {m0, m1, m2}
  Size <- Sizes
  Text = {m0, m2}
  HmacKeys = {"str", "bytes"}
  NoMessage = NoMessage
INVARIANTS
  RoundTrip
  OnlyWholeFrames
CHECK_DEADLOCK FALSE
