SPECIFICATION FairSpec
CONSTANTS
  Docs = {d1, d2}
  MaxInterference = 2
  DurableSave = TRUE
  MaxFaults = 3
CHECK_DEADLOCK FALSE
INVARIANTS
  WriteAhead
  SubmittedOnce
PROPERTIES
  CheckpointNeverRegresses
  SafeMigration
  Completes
