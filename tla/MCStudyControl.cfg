SPECIFICATION StudySpec
CONSTANTS
  Budget = 2
  Scores <- MCScores
  MaxWorkers = 2
  MaxRestarts = 1
  MaxDrifts = 1
INVARIANTS
  ControllerIsKnown
  ApprovedIsFinal
PROPERTIES
  ReuseIsEarned
  RetriesRecover
  ImplementsCourse
CHECK_DEADLOCK FALSE
