SPECIFICATION Spec
CONSTANTS
  t1 = t1
  t2 = t2
  NoThread = NoThread
  Threads = {t1, t2}
  MaxListeners = 2
  UdpListeners <- MCUdp
  MaxConnections = 2
  MaxSessionId = 2
  MaxCount = 3
  MaxBytes = 2
  MaxPayload = 1
  MaxInputs = 4
INVARIANTS
  TypeOK
  NoGhostSessions
  WorkerBoundary
PROPERTIES
  StopIsSynchronous
  FeedSpec
SYMMETRY ThreadSymmetry
