SPECIFICATION Spec
CONSTANTS
  Docs = {d1, d2, d3}
  MaxInterference = 2
CHECK_DEADLOCK FALSE
PROPERTIES
  SafeMigration
