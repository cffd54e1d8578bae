SPECIFICATION Spec
CONSTANTS
  BatchSize = 2
  MaxOps = 6
CHECK_DEADLOCK FALSE
PROPERTIES
  DeliveryContract
