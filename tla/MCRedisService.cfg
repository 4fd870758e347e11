SPECIFICATION FairSpec
CONSTANTS
  MaxRequestId = 3
  MaxSize = 2
  MaxValueBytes = 1
  MaxInflight = 2
  MaxQueueBytes = 2
  MaxResultBytes = 1
  HasPassword = TRUE
INVARIANTS
  InOrder
  CountersExact
  OutcomeTruth
  OwnReply
PROPERTIES
  Contract
  NobodyWaitsForever
