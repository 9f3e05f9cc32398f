SPECIFICATION Spec
CONSTANTS
  None = None
  Params <- MCParams
  Bounds <- MCBounds
  Suggestible <- MCSuggestible
  References <- MCReferences
  Facts <- MCFacts
  Reports <- MCReports
  Rules <- MCRules
  Marks = {1, 2}
  MaxRounds = 3
  MaxFaults = 2
CHECK_DEADLOCK FALSE
INVARIANTS
  ChangeIsSupported
  NothingTrainedTwice
  AuditIsTrue
  SummaryAgrees
