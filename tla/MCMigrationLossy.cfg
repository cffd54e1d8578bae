SPECIFICATION Spec
CONSTANTS
  Docs = {d1, d2}
  MaxInterference = 0
  DurableSave = FALSE
  MaxFaults = 3
CHECK_DEADLOCK FALSE
PROPERTIES
  SafeMigration
