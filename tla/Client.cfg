CONSTANTS
  m1 = m1
  m2 = m2
  m3 = m3
  r1 = r1
  r2 = r2
  b1 = b1
  d1 = d1
  d2 = d2
  d3 = d3
  pa = pa
  pb = pb
  pc = pc
  pd = pd
  MatchIds = {m1, m2, m3}
  ReplyIds = {r1, r2}
  BindIds = {b1}
  MatchOf <- MCMatchOf
  ReplyOf <- MCReplyOf
  Releases <- MCReleases
  Incoming <- MCIncoming
  Nobody = Nobody
  Unset = Unset
  MaxDepth = 4
  Root = Root
  NoPath = NoPath
  Paths = {Root, pa, pb, pc, pd}
  Parent <- MCParent
  Bindable = {"i", "j"}
  BuiltIn = {"Introspectable", "Properties"}
  Tracked = {d1, d2, d3}
  DataKind <- MCDataKind
  Threaded = {TRUE, FALSE}
  MaxConns = 2
  Owners = {x, y}
  InitialOwners = {x, None}
  Service = service
  BusName = bus
  Empty = empty
  None = None
  MaxCalls = 2
  MaxChanges = 2
  MaxSignals = 1
SPECIFICATION Spec
INVARIANTS
  ConnectionSound
  TreeSound
  Discoverable
  StateSound
  LookupSound
PROPERTIES
  CallbacksReturn
  GoneIsTold
  CallAnswered
CHECK_DEADLOCK FALSE
