CONSTANTS
  Counts = Counts
  Many = Many
  Part = Part
  Sum = Sum
  Mixed = Mixed
  Fixed = Fixed
  Asks = Asks
  Empty = Empty
  Structs <- MCStructs
  NULL = NULL
  Inputs <- MCInputs
  Memories <- MCMemories
  Extensions <- MCExtensions
  PB_MAX_REQUIRED_FIELDS = 3
  WordBits = 2
  MaxCalls = 2
  MaxFields = 3
  MaxMerged = 1
  MaxGarbage = 3
SPECIFICATION Spec
INVARIANTS
  TypeOK
  StreamsFit
  ResultRight
  ValuesRight
PROPERTIES
  WritesInField
  RequiredChecked
  DecodeReturns
CHECK_DEADLOCK FALSE
