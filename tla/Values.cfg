SPECIFICATION Spec
CONSTANTS
  ArgValues <- SomeValues
  Expected = {"u", "y", "s", "o"}
  DataCuts = {0, 1, 4}
  MaxWritten = 2
  Conns = {"c1"}
  ObjectPaths = {"/a"}
  Remotes = {"s"}
  UserFields <- SomeUserFields
  SigSizes = {5}
  MaxSerial = 5
  MaxOpen = 2
  MaxEmitters = 2
  Nothing = Nothing
  MemberNames = {"n", "m"}
  PropTypes = {"s"}
  Ends <- AllEnds
  NoMember = NoMember
  MaxBinds = 1
  MaxAdds = 2
  MaxRefs = 3
  RuleTypes = {"signal"}
  RuleValues = {"x", "y"}
  RuleFields <- SomeRuleFields
  WellKnown = {"y"}
  PathAs <- OnePath
  ArgKeys <- ThreeArgKeys
  OtherKeys <- SomeOtherKeys
  MaxPairs = 2
  Absent = Absent
  Chars = {"a", "0", "/", ".", ":", "-"}
  MaxChars = 5
  NameLimit = 4
  HashKeys = {0, 11, 12}
  HashOf <- SameHash
  HashVals = {"v", "w"}
  PrimeList <- Primes
  NoEntry = NoEntry
  Pieces <- SomePieces
  PrintRoom = 2
  MaxText = 4
  Grow = 1
  MaxPush = 3
  MaxQueued = 3
  MaxAlloc = 30
  Streams <- SomeStreams
  RecvSize = 3
  EnvAddresses <- SomeAddresses
  MaxResolved = 2
  MaxSockets = 2
  LuaSockets = {"h1", "h2"}
  Unset = Unset
  LuaArgs <- SomeLuaArgs
  LuaPairs <- SomeLuaPairs
  LuaSigs <- SomeLuaSigs
  LuaObjs = {"o1", "o2", "o3"}
  ObjKind <- Kinds
  MemberTables <- SomeMembers
  MaxObjects = 2
  MaxFrames = 2
  MaxErrors = 2
INVARIANTS
  
  SendingSound
  InterfaceSound
  RulesSound
  NamesSound
  HashSound
  BuffersSound
  SocketsSound
  
  LuaObjectsSound
CHECK_DEADLOCK FALSE
