SPECIFICATION ServerFairSpec
CONSTANTS
  Workers = {w1, w2}
  Tasks = {1, 2}
  Spawn <- NoSpawn
  Endless = {}
  Owner = Owner
  Nil = Nil
  Clients = {c1, c2, c3}
  MaxFds = 2
  w1 = w1
  w2 = w2
  c1 = c1
  c2 = c2
  c3 = c3
INVARIANTS
  ServerTypeOK
  ReferencesHold
  LoopersOutliveLoops
PROPERTIES
  BacklogDrained
  AcceptedServed
CHECK_DEADLOCK FALSE
