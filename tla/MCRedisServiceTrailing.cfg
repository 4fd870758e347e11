SPECIFICATION SpecTrailing
CONSTANTS
  MaxRequestId = 2
  MaxSize = 1
  MaxValueBytes = 1
  MaxInflight = 2
  MaxQueueBytes = 2
  MaxResultBytes = 2
  HasPassword = FALSE
INVARIANT TrailingNeverTaken
