SPECIFICATION Spec
CONSTANTS
  MaxCode = 3
  Unwritten = Unwritten
  Strings <- MCStrings
  DstLens <- MCDstLens
INVARIANTS InBounds NeverGrows UnreadIntact DecodesExactly ErrorsAreTrue
PROPERTY Terminates
CHECK_DEADLOCK FALSE
