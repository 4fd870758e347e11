SPECIFICATION Spec
CONSTANTS
  Ids = {e1, e2}
  Natives = {n1, n2}
  Pollers = {t1}
  MaxEndpoints = 2
  MaxPeers = 1
  MaxEvents = 2
  MaxEventBytes = 3
  EventBytes = 1
  MaxSize = 1
  Sizes = {1, 2}
  MaxMessages = 2
SYMMETRY Symmetry
CHECK_DEADLOCK FALSE
INVARIANTS
  EventsInOrder
  ResourcesExact
