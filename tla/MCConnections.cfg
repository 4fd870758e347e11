SPECIFICATION FairSpec
CONSTANTS
  HandshakeTimeout = 1
  IdleTimeout = 2
  MaxMessageBytes = 130
  MaxSendQueueBytes = 260
  MaxQueued = 2
  PayloadSizes <- MCSizes
  MaxSends = 3
  MaxReads = 2
  MaxRequestId = 3
  HeaderLimit = 300
  Endpoints = {1, 2}
  MaxConnections = 2
  MaxSessionId = 3
  MaxUdpPayloadBytes = 130
CHECK_DEADLOCK FALSE
INVARIANTS
  BytesAreExact
  NeverStalled
  InOrder
  PeersMatchRegistry
PROPERTIES
  DeadlineIsReal
  SilenceEnds
