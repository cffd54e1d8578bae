SPECIFICATION Spec
CONSTANTS
  Threads = {t1, t2}
  DirSync = TRUE
  MaxSaves = 4
  MaxCrashes = 2
CHECK_DEADLOCK FALSE
INVARIANTS
  NeverTorn
  SavedIsDurable
PROPERTIES
  PathMovesForward
