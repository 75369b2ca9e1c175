CONSTANTS
  Remotes = {bus, a, b, c}
  Bus = bus
  Names = {n}
  Asked = {n}
  None = None
  RequestFlags <- AllFlags
SPECIFICATION FairSpec
INVARIANTS
  TypeOK
  NoDanglingService
  OwnerReadable
  SeenIsOwner
  ClientsTold
PROPERTIES
  StepsLegal
  DisconnectEnds
CHECK_DEADLOCK FALSE
