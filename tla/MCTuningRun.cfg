CONSTANTS
  MaxRetries = 2
  Changes = {c1}
  NoChange = NoChange
  Modes <- MCModes
  MaxFaults = 0
  MaxLost = 1
SPECIFICATION Spec
VIEW RecordView
CHECK_DEADLOCK FALSE
INVARIANTS
  RecordIsHonest
