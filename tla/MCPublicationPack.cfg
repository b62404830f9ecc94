SPECIFICATION PublicationSpec
CONSTANTS
  Questions <- McQuestions
  Versions = {"old", "new"}
  MaxFreezes = 2
  MaxChanges = 1
  Targets <- McTargets
  Repetitions = 1
  Candidates <- McCandidates
  Modes = {"live", "pilot"}
  RunNames = {"full"}
  MaxRuns = 2
CHECK_DEADLOCK FALSE
INVARIANTS
  ManifestPackHoldsTheGold
