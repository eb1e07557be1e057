SPECIFICATION Spec
CONSTANTS
  DataSize = 3
  SequenceMod = 2
  PacketSize = 13
  Messages <- MCAllMessages
  TxHandlers = {h1}
  RxHandlers = {r1}
  NULL = NULL
  MaxDepth = 1
  MaxSends = 1
INVARIANTS
  TypeOK
  ReadsInBounds
  MessagesDelimited
  PiecesIntact
  CrcVerifies
