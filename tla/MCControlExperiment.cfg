SPECIFICATION Spec
CONSTANTS
  QuestionIds = {"q01", "q02"}
  Targets = {"blank_context", "ddl_only"}
  Repetitions = 2
  InstanceFiles <- MCUniqueFiles
  Verdicts = {"passed", "failed"}
INVARIANTS
  TypeOK
  RefusedLeavesNothing
  RunRecordMatchesDisk
PROPERTIES
  RecordsAreImmutable
CHECK_DEADLOCK FALSE
