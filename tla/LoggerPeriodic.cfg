SPECIFICATION FairSpec
CONSTANTS
  Producers = {p1, p2}
  Writer = Writer
  Threshold = 1
  MaxLogs = 2
  Nil = Nil
  p1 = p1
  p2 = p2
PROPERTIES
  PeriodicFlush
CHECK_DEADLOCK FALSE
