SPECIFICATION Spec
CONSTANTS
  NumOps = 2
  MaxRetries = 1
CHECK_DEADLOCK FALSE
INVARIANTS
  RejectedIsNotApplied
