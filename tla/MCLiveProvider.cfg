SPECIFICATION Spec
CONSTANTS
  MaxRetries = 2
  RequestTicks = 2
  MaxCalls = 2
INVARIANTS
  TypeOK
  RetriesAccounted
  OnlyTransientRetried
  PatienceBounded
CHECK_DEADLOCK FALSE
