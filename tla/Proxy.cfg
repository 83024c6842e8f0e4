SPECIFICATION Spec
CONSTANTS
  c1 = c1
  c2 = c2
  w1 = w1
  w2 = w2
  s1 = s1
  s2 = s2
  NoConn = NoConn
  Conns = {c1, c2}
  Workers = {w1, w2}
  Senders = {s1, s2}
  Fds = {4, 5}
  SetSize = 8
  WriteResults = {"all"}
  MaxCommands = 2
  MaxRequests = 2
  Keys <- OneKey
  NumTrees = 1
  Faults = {"throws_after_effect"}
  Requests <- PushOrRead
SYMMETRY ThreadsAndConns
INVARIANT WaitingClientsInOrder
PROPERTY ImplementsService
CHECK_DEADLOCK FALSE
