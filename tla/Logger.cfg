SPECIFICATION FairSpec
CONSTANTS
  Producers = {p1, p2}
  Writer = Writer
  Threshold = 1
  MaxLogs = 4
  Nil = Nil
  p1 = p1
  p2 = p2
INVARIANTS
  TypeOK
  NothingLost
PROPERTIES
  ThresholdFlushed
  FlushedStays
CHECK_DEADLOCK FALSE
