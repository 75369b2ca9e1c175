CONSTANTS
  Remotes = {bus, a, b}
  Bus = bus
  Names = {n}
  None = None
  Rules <- TrafficRules
  PeerMsgs <- TrafficMsgs
  ReplyFlags = {TRUE}
  MaxRules = 2
  Fragile = {a}
SPECIFICATION Spec
INVARIANTS
  TrafficSound
  NoSilentLoss
CHECK_DEADLOCK FALSE
