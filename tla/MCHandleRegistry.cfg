SPECIFICATION AbiFairSpec
CONSTANTS
  t1 = t1
  t2 = t2
  NoThread = NoThread
  Threads = {t1, t2}
  MaxListeners = 1
  UdpListeners = {}
  MaxConnections = 1
  MaxSessionId = 2
  MaxCount = 3
  MaxBytes = 2
  MaxPayload = 1
  MaxInputs = 3
INVARIANTS
  DestroyIsFinal
PROPERTIES
  CallsReturn
