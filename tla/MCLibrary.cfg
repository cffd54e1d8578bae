CONSTANTS
  Nil = Nil
  Bad = Bad
  Free = Free
  Indices = {i1, i2}
  MaxAdds = 2
  Refs = {"a", "b", "c"}
  Roots <- StartingPoints
  BatchSize = 2
  Depths = {2}
  Limits = {2, 3}
  MaxValues = 3
  Docs = {d1, d2}
  MaxWrites = 1
  AllDocs = {1, 2, 3}
  Shards = {"a", "b"}
  Shard <- ShardOf
  AggNames = {"a", "b", "x"}
  Calls <- Cases
  W = 6
  DefaultInitial = 3
  DefaultMaximum = 20
  Millisecond = 4
SPECIFICATION Spec
CHECK_DEADLOCK FALSE
INVARIANTS
  StartedIsReady
  PreloadIsBreadthFirst
  BuildersIndependent
  SuccessIsComplete
  QueriesSelect
  NumbersStayInRange
  SchemasFitDocuments
