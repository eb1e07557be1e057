SPECIFICATION Spec
CONSTANTS
  MaxCode = 3
  Unwritten = Unwritten
  Sources <- MCSources
  DstLens <- MCDstLens
INVARIANTS InBounds NoZeroByte OutputExact SizeMaxSuffices ReadsBack
CHECK_DEADLOCK FALSE
