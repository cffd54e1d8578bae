SPECIFICATION Spec
CONSTANTS
  Calls = {c1, c2}
  MaxTries = 2
  Major = 9
  Embedding = Embedding
  Creation = Creation
  None = None
SYMMETRY Symmetry
CHECK_DEADLOCK FALSE
INVARIANTS
  OutcomeTellsTruth
PROPERTIES
  NoLostUpdate
  AppliedOnce
