CONSTANTS
  Remotes = {bus, a, b}
  Bus = bus
  Names = {n}
  Asked = {n}
  None = None
  RequestFlags <- QueueFlags
SPECIFICATION Spec
INVARIANTS
  NoDanglingRemote
CHECK_DEADLOCK FALSE
