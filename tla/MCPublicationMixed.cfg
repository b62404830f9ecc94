SPECIFICATION PublicationSpec
CONSTANTS
  Questions <- McQuestions
  Versions = {"old", "new"}
  MaxFreezes = 1
  MaxChanges = 0
  Targets <- McTargets
  Repetitions = 1
  Candidates <- McLiveCandidates
  Modes = {"live"}
  RunNames = {"full", "other"}
  MaxRuns = 2
CHECK_DEADLOCK FALSE
INVARIANTS
  PublishedIsOneRun
