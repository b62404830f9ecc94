SPECIFICATION ControlSpec
CONSTANTS
  Right = Right
  Wrong = Wrong
  NotANumber = NotANumber
  Sql <- MCSql
  Payload <- MCPayload
  Unhashable <- MCUnhashable
  AllowedOperations <- MCAllowed
  Gold <- Right
  MaxDatabaseAttempts = 2
  MaxNativeResults = 0
  MaxTurns = 2
  MaxCallsPerTurn = 2
  TrialSeconds = 2
INVARIANTS
  ControlTypeOK
  PassedMeansGold
  ErrorExplained
  TimeoutIsTheLastFailure
  EveryResultHasItsSql
PROPERTIES
  ImplementsContract
CHECK_DEADLOCK FALSE
