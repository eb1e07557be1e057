SPECIFICATION Spec
CONSTANTS
  MaxCode = 255
  Unwritten = Unwritten
  Sources <- MCMaxSources
  DstLens <- MCMaxDstLens
INVARIANTS SizeMaxAlwaysSuffices
CHECK_DEADLOCK FALSE
