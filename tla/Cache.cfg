SPECIFICATION Spec
CONSTANTS
  Threads = {a, b}
  Loaders = {a}
  Keys = {k1, k2, k3, k4}
  Contents = {none, small, large, huge}
  Size <- SizeOf
  Capacity = 4
  Word = 32
  Head_ = Head_
  Tail_ = Tail_
  Nil = Nil
  a = a
  b = b
  k1 = k1
  k2 = k2
  k3 = k3
  k4 = k4
  none = none
  small = small
  large = large
  huge = huge
INVARIANTS
  TypeOK
  EvictFindsVictim
  LinksMirror
PROPERTIES
  ImplementsLRU
