CONSTANTS
  Plain = Plain
  Limits = Limits
  Part = Part
  Sum = Sum
  Third = Third
  Heap = Heap
  Boxed = Boxed
  Held = Held
  Asks = Asks
  Around = Around
  Whole = Whole
  Empty = Empty
  MemorySize = 100
  Structs <- MCStructs
  NULL = NULL
  Sources <- MCHighSources
  Extensions <- MCExtensions
  BufferSizes = {2, 10, 36}
  Counts <- MCCounts
  Chunks <- MCChunks
  MaxChunks = 1
SPECIFICATION Spec
INVARIANTS
  PointersComparedWithNull
CHECK_DEADLOCK FALSE
