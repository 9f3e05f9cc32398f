CONSTANTS
  MaxEvents = 2
  QueueSize = 2
  MaxSeq = 5
  MaxConnects = 2
SPECIFICATION StreamFairSpec
INVARIANTS
  NothingMissedUnawares
PROPERTIES
  ReaderIsServed
CHECK_DEADLOCK FALSE
