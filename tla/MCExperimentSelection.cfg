SPECIFICATION Spec
CONSTANTS
  QuestionIds = {"q01", "q02"}
  Targets = {"blank_context"}
  Repetitions = 1
  InstanceFiles <- MCDuplicateFiles
  Verdicts = {"passed", "failed"}
INVARIANT EveryQuestionOnce
CHECK_DEADLOCK FALSE
