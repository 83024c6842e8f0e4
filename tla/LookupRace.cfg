SPECIFICATION Spec
CONSTANTS
  c1 = c1
  c2 = c2
  c3 = c3
  w1 = w1
  w2 = w2
  s1 = s1
  s2 = s2
  NoConn = NoConn
  Conns = {c1, c2}
  Workers = {w1}
  Senders = {s1}
  Fds = {4, 5}
  SetSize = 8
  WriteResults = {"all"}
  MaxCommands = 2
SYMMETRY Threads
INVARIANT RestingMeansAnswered
CHECK_DEADLOCK FALSE
