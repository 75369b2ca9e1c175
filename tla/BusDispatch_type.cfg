CONSTANTS
  Remotes = {bus, a, b}
  Bus = bus
  Names = {n}
  None = None
  Rules <- UntypedRules
  PeerMsgs <- PingOnly
  ReplyFlags = {TRUE}
  MaxRules = 1
  Fragile = {}
SPECIFICATION Spec
INVARIANTS
  TypeChecked
CHECK_DEADLOCK FALSE
