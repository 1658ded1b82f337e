SPECIFICATION Spec
CONSTANTS
  Conns = {c1, c2}
  Reactors = {r1, r2}
  Fds = {f1, f2}
  Requests = {keep, prog}
  Closing = {keep}
  Cgi = {prog}
  MaxRequests = 1
  PollSize = 2
  Listener = Listener
  Nil = Nil
  c1 = c1
  c2 = c2
  c3 = c3
  r1 = r1
  r2 = r2
  f1 = f1
  f2 = f2
  keep = keep
  last = last
  prog = prog
SYMMETRY Symmetry
INVARIANTS
  NoDanglingPointer
CHECK_DEADLOCK FALSE
