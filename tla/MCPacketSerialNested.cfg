SPECIFICATION FairSpec
CONSTANTS
  DataSize = 3
  SequenceMod = 2
  PacketSize = 13
  Messages <- MCCarriedMessages
  TxHandlers = {h1}
  RxHandlers = {}
  NULL = NULL
  MaxDepth = 2
  MaxSends = 3
INVARIANTS
  MessagesDelimited
  ResultHonest
PROPERTIES
  SendReturns
  ImplementsStream
  ImplementsFairStream
