SPECIFICATION DestroySpec
CONSTANTS
  Tasks = {t1}
  Workers = {w1, w2}
  Spawn <- NoSpawn
  Endless = {}
  Owner = Owner
  Nil = Nil
  w1 = w1
  w2 = w2
  w3 = w3
  t1 = t1
  t2 = t2
  t3 = t3
PROPERTIES
  DtorReturns
CHECK_DEADLOCK FALSE
