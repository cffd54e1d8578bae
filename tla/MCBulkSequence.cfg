SPECIFICATION FairSequenceSpec
CONSTANTS
  Workers = {w1, w2}
  BatchSize = 2
  QueueSize = 1
  Ticker = FALSE
  MaxOps = 4
CHECK_DEADLOCK FALSE
PROPERTIES
  DeliveryContract
  SequenceReturns
