SPECIFICATION FairSpec
CONSTANTS
  SeqMod = 3
  MaxReplies = 1
  Requests = {"Connect"}
  MaxWrites = 2
  MaxWire = 3
  MaxPingRetries = 2
  MaxRfcRetries = 1
  MaxDataRetries = 1
  MaxIdlePingRetries = 1
  InitialNumbers = {2}
  MaxLoss = 1
  MaxCalls = 1
INVARIANTS
  TypeOK
  ResponsesInOrder
  NoProtocolError
PROPERTIES
  WriteEnds
  RequestsExactlyOnce
CHECK_DEADLOCK FALSE
