SPECIFICATION Spec
CONSTANTS
  d1 = d1
  d2 = d2
  f1 = f1
  f2 = f2
  None = None
  Other = Other
  Roots = {d1, d2}
  Presplit = {d2}
  Files = {f1, f2}
  ValFiles = {f2}
  Seeds = {7}
  Shuffled <- MCShuffled
  ValPercent = 20
  Requests = {r1, r2}
  Contents = {0, 1}
  MaxEdits = 1
  MaxFaults = 1
  Names = {n1, n2}
  Trainings = {t1, t2}
INVARIANTS
  PublishedIsPlanned
  OneMaker
  DatasetIsMeant
  RequestsGoOn
PROPERTIES
  RequestsAdvance
SYMMETRY Alike
CHECK_DEADLOCK FALSE
