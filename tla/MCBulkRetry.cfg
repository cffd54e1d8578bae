SPECIFICATION Spec
CONSTANTS
  NumOps = 3
  MaxRetries = 2
CHECK_DEADLOCK FALSE
INVARIANTS
  AppliedAtMostOnce
  HookOncePerWrite
  ErrorMatchesServer
PROPERTIES
  AcknowledgedIsFinal
