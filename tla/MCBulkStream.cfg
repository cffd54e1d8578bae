SPECIFICATION FairSpec
CONSTANTS
  Workers = {w1, w2}
  BatchSize = 2
  QueueSize = 1
  Ticker = TRUE
  MaxOps = 3
CHECK_DEADLOCK FALSE
INVARIANTS
  BatchesCoverInput
  BatchesKeepTheirOps
  NoBatchTwice
  NoBatchLost
  ReturnTellsTruth
  JoinedOnReturn
PROPERTIES
  Returns
  ReceivedIsDelivered
