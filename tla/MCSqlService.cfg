SPECIFICATION FairSpec
CONSTANTS
  MaxRequestId = 4
  MaxStatements = 2
  MaxReserved = 2
  MaxOutstanding = 2
  MemoryBudget = 3
INVARIANTS
  ReservationsExact
  StatusTruth
  TransactionsSeparate
  StoppedLosesNothing
PROPERTIES
  Contract
  NobodyWaitsForever
