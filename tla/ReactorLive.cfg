SPECIFICATION FairSpec
CONSTANTS
  Conns = {c1, c2}
  Reactors = {r1}
  Fds = {f1, f2}
  Requests = {keep, last}
  Closing = {last}
  Cgi = {}
  MaxRequests = 2
  PollSize = 1
  Listener = Listener
  Nil = Nil
  c1 = c1
  c2 = c2
  c3 = c3
  r1 = r1
  r2 = r2
  f1 = f1
  f2 = f2
  keep = keep
  last = last
  prog = prog
INVARIANT NoDanglingPointer
PROPERTIES
  EveryRequestAnswered
  DepartedReleased
CHECK_DEADLOCK FALSE
