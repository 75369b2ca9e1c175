CONSTANTS
  PeerFields <- SomeFields
  BusFields <- ShortFields
  Bodies = {0, 3}
  MaxMsgs = 2
  SenderSize = 3
  Offered = {TRUE, FALSE}
  Verdicts = {TRUE, FALSE}
  MaxLines = 4
  MaxPosts = 2
  Clients = {"c1", "c2"}
  MaxInputs = 1
  MaxTx = 4
  HeaderSets <- SomeHeaderSets
  MaxStamp = 2
  NoValue = NoValue
  Identities <- SomeIdentities
  Claims <- SomeClaims
  Challenges <- SomeChallenges
  Keyrings <- SomeKeyrings
  Randoms <- SomeRandoms
  NotYet = NotYet
  Guests = {"g1", "g2"}
  Hosts = {"win", "qt"}
  MaxPieces = 2
SPECIFICATION Spec
INVARIANTS
  ServerParserSound
  ClientParserSound
  HandshakeSound
  LoopSound
  ReceivedSound
  AuthDataSound
  RemotesHeld
PROPERTIES
  StreamsParsed
  QueuesMove
CHECK_DEADLOCK FALSE
