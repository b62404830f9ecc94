SPECIFICATION Spec
CONSTANTS
  QuestionLists <- MCQuestions
  Targets <- MCTargets
  Repetitions = 1
  GoldHashes <- MCGold
  ResultHashes = {"a", "b"}
  SaveDetails = TRUE
INVARIANTS
  TypeOK
  PassedIsGold
  RowsMatchDisk
  OutcomesAddUp
PROPERTIES
  RecordsAreImmutable
CHECK_DEADLOCK FALSE
