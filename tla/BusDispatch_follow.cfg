CONSTANTS
  Remotes = {bus, a, b, c}
  Bus = bus
  Names = {n}
  None = None
  Rules <- FollowRules
  PeerMsgs <- ForgedMsgs
  ReplyFlags = {TRUE, FALSE}
  MaxRules = 1
  Fragile = {}
SPECIFICATION Spec
SYMMETRY Symmetry
INVARIANTS
  ViewCurrent
CHECK_DEADLOCK FALSE
