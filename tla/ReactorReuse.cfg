SPECIFICATION Spec
CONSTANTS
  Conns = {c1, c2, c3}
  Reactors = {r1, r2}
  Fds = {f1, f2}
  Requests = {last, prog}
  Closing = {last}
  Cgi = {prog}
  MaxRequests = 1
  PollSize = 2
  Listener = Listener
  Nil = Nil
  c1 = c1
  c2 = c2
  c3 = c3
  r1 = r1
  r2 = r2
  f1 = f1
  f2 = f2
  keep = keep
  last = last
  prog = prog
SYMMETRY Symmetry
INVARIANTS
  TypeOK
  NoStrandedInput
  DeleteFindsConnection
  InsertFindsFreeSlot
  DescriptorsOwned
PROPERTIES
  AnswerOnOwnSocket
CHECK_DEADLOCK FALSE
