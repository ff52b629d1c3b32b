SPECIFICATION Spec
CONSTANTS
  Width = 3
  ByteBits = 2
  PaddingDetection = 1
  ValueSamples = 2
  Levels = {2, 4}
  SyncSamples = {0, 1}
  SymbolCounts = {3, 4}
  Durations = {0}
  MaxBytes = 4
INVARIANTS
  DecodesWell
  HeaderHonest
CHECK_DEADLOCK FALSE
