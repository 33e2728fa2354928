SPECIFICATION Spec
CONSTANTS
  SeqMod = 3
  MaxReplies = 2
  Requests = {"SignOn", "SignOff", "Connect", "Disconnect", "Msg", "Malformed"}
  ConnectionIds = {1}
  MaxTaken = 3
INVARIANTS
  TypeOK
  ServicesMatchHistory
  ServedOnlySignedOn
CHECK_DEADLOCK FALSE
