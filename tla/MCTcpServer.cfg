SPECIFICATION FairSpec
CONSTANTS
  MaxClients = 2
  MaxMessageBytes = 2
  MaxSends = 2
  Settings <- MCSettings
  Workers = {w1, w2}
CHECK_DEADLOCK FALSE
INVARIANTS
  LinesAreWhole
  WritesStayWhole
  StopLeavesNothing
PROPERTIES
  CallbacksInOrder
  StopReturns
