CONSTANTS
  Owners = {x, y}
  InitialOwners = {x, None}
  Service = service
  BusName = bus
  Empty = empty
  None = None
  MaxCalls = 1
  MaxChanges = 1
  MaxSignals = 0
SPECIFICATION LookupSpec
INVARIANTS
  NoAssertFailure
CHECK_DEADLOCK FALSE
