SPECIFICATION Spec
CONSTANTS
  DataSize = 16
  SequenceMod = 256
  PacketSize = 32
  Messages <- MCTwoFullChunks
  TxHandlers = {h1}
  RxHandlers = {r1}
  NULL = NULL
  MaxDepth = 1
  MaxSends = 1
INVARIANTS
  TrueMeansDelivered
