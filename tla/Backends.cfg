SPECIFICATION Spec
CONSTANTS
  peer1 = peer1
  peer2 = peer2
  Slots <- TwoPeers
  MaxDeliveries = 1
  MaxReconnects = 1
  Subscribers <- OnePeer
  MaxEvents = 3
  MaxSessions = 3
  Tls = TRUE
  Verify = TRUE
  Listeners <- OnePeer
  MaxTriggers = 2
  Conns <- OnePeer
  MaxSends = 2
  MaxNoise = 2
  Looks = 2
  TotalStreams = 3
  Threads = 2
  MaxRequests = 4
  PoolSize = 2
  Room = 1
  MaxChecks = 4
INVARIANTS
  SlotsKeepTheirCounts
  SessionsAddUp
  SamplesMatchTriggers
  EchoIsOfItsMessage
  WsConnectionsAccounted
  TokensInOnePlace
  SelfCheckIsAnswered
CHECK_DEADLOCK FALSE
PROPERTY
  EveryBackendEnds
