CONSTANTS
  Requests = {r1, r2, r3}
  NoRun = NoRun
  MaxFaults = 1
  MaxCrashes = 1
SPECIFICATION Spec
SYMMETRY Symmetry
INVARIANTS
  SlotFollowsRuns
  AdmittedOnlyIfForgotten
CHECK_DEADLOCK FALSE
