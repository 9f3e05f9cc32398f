SPECIFICATION Spec
CONSTANTS
  f1 = f1
  f2 = f2
  w1 = w1
  snap = snap
  plain = plain
  Session = session
  None = None
  Runs <- MCRuns
  Rounds <- MCRounds
  Data <- MCData
  Snapshots <- MCSnapshots
  DataOf <- MCDataOf
  ModeOf <- MCModeOf
  MaxName = 2
  MaxBackfill = 2
  MaxFaults = 1
INVARIANTS
  ProjectionIsTrue
  RebuildIsComplete
  AuditIsQuiet
PROPERTIES
  RebuildKeeps
SYMMETRY Alike
CHECK_DEADLOCK FALSE
