CONSTANTS
  MaxRetries = 3
  Changes = {c1, c2}
  NoChange = NoChange
  Modes <- MCModes
  MaxFaults = 1
SPECIFICATION FairSpec
CHECK_DEADLOCK FALSE
INVARIANTS
  TrainingsAreEarned
  EndIsEarned
PROPERTIES
  StopStartsNothingNew
  EndsWhenTold
