SPECIFICATION Spec
CONSTANTS
  t1 = t1
  t2 = t2
  t3 = t3
  c1 = c1
  c2 = c2
  NULL = NULL
  MaxHandlers = 2
  Types <- MCTypes
  Callbacks <- MCCallbacks
  InterruptTypes <- MCInterruptTypes
  MaxDepth = 3
INVARIANTS
  MaskMatchesTable
  MisservedOnlyHalfDone
PROPERTIES
  ImplementsMap
