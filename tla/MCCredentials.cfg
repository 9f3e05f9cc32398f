SPECIFICATION KeysSpec
CONSTANTS
  Purposes = {text, vision}
  Keys = {k1, k2}
  Readers = {r1, r2}
  MaxSaves = 3
  MaxMishaps = 2
  Damaged = Damaged
  Junk = Junk
  Nothing = Nothing
INVARIANTS
  MemoryIsCurrent
PROPERTIES
  KeysAreKept
SYMMETRY Alike
CHECK_DEADLOCK FALSE
