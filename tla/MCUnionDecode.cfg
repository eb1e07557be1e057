SPECIFICATION FairSpec
CONSTANTS
  descriptor = descriptor
  report = report
  NULL = NULL
  UnionFields <- MCUnionFields
  Registered <- MCRegistered
  Inputs <- MCAllInputs
INVARIANTS
  RightType
  PayloadExact
  StreamsFit
PROPERTIES
  CallReturns
