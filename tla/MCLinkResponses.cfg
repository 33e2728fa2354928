SPECIFICATION FairSpec
CONSTANTS
  SeqMod = 3
  MaxReplies = 2
  Requests = {"SignOn", "Msg"}
  MaxWrites = 2
  MaxWire = 2
  MaxPingRetries = 2
  MaxRfcRetries = 0
  MaxDataRetries = 0
  MaxIdlePingRetries = 1
  InitialNumbers = {2}
  MaxLoss = 0
  MaxCalls = 1
PROPERTY
  ResponsesArrive
CHECK_DEADLOCK FALSE
