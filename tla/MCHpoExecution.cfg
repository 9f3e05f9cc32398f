CONSTANTS
  r1 = r1
  r2 = r2
  NoRunner = NoRunner
  Budget = 3
  Runners <- TwoRunners
  Unsafe <- LastUnsafe
  MaxFaults = 2
  MaxStops = 1
SPECIFICATION FairSpec
CHECK_DEADLOCK FALSE
INVARIANTS
  LaunchesAreSafe
  FilesAgree
  SettledIsTrue
PROPERTIES
  ResultsAreFinal
  KeepsPromises
  StudyGetsOn
