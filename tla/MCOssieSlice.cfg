SPECIFICATION SurfaceSpec
CONSTANTS
  Sql <- McSql
  Payload = {1, 2}
  Unhashable = {}
  AllowedOperations <- HarnessOps
  MaxDatabaseAttempts = 1
  MaxNativeResults = 2
  Trees <- McTrees
  MaxRequests = 2
  MaxEdits = 2
  Queries = {"q1", "q2"}
CHECK_DEADLOCK FALSE
INVARIANTS
  SlicesAreExact
