SPECIFICATION FairSpec
CONSTANTS
  Tasks = {t1, t2, t3}
  Workers = {w1, w2}
  Spawn <- Nested
  Endless = {t2}
  Owner = Owner
  Nil = Nil
  w1 = w1
  w2 = w2
  w3 = w3
  t1 = t1
  t2 = t2
  t3 = t3
INVARIANTS
  TypeOK
  FifoOnce
  JoinedMeansAllRan
  WakeupsSuffice
PROPERTIES
  EveryTaskStarts
CHECK_DEADLOCK FALSE
