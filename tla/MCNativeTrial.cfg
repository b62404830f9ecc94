SPECIFICATION NativeSpec
CONSTANTS
  Finite = Finite
  NotANumber = NotANumber
  Sql <- MCSql
  Payload <- MCPayload
  Unhashable <- MCUnhashable
  AllowedOperations <- MCAllowed
  MaxDatabaseAttempts = 2
  MaxNativeResults = 1
  MaxTurns = 2
  MaxCallsPerTurn = 2
  MaxChecks = 2
INVARIANTS
  NativeTypeOK
  BilledOnlyWhenHealthy
  ClosedBeforeEvaluation
  RecordTellsTheEnd
  TypeOK
  QueryBudget
  SubmittedHandlesResolve
PROPERTIES
  NothingAfterSubmission
  ImplementsContract
  HandlesNeverRebound
CHECK_DEADLOCK FALSE
