CONSTANTS
  MaxStops = 2
  MaxCancels = 2
  MaxFaults = 2
SPECIFICATION FairSpec
INVARIANTS
  EndIsClean
PROPERTIES
  RunComesToAnEnd
CHECK_DEADLOCK FALSE
