CONSTANTS
  Remotes = {bus, a, b, c}
  Bus = bus
  Names = {n, m}
  Asked = {n, m, bus}
  None = None
  RequestFlags <- NoQueueFlags
SPECIFICATION FairSpec
INVARIANTS
  LinksSound
PROPERTIES
  ImplementsOwnership
  ShutdownEnds
CHECK_DEADLOCK FALSE
