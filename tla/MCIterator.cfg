SPECIFICATION Spec
CONSTANTS
  NumHits = 4
  PageSize = 2
  MaxRotations = 2
  MaxResumes = 2
CHECK_DEADLOCK FALSE
INVARIANTS
  ExhaustedMeansAll
  NoSilentLeak
  DetachedPitIsKept
PROPERTIES
  EmitsSuccessor
