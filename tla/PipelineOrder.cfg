SPECIFICATION FairSpec
CONSTANTS
  c1 = c1
  c2 = c2
  c3 = c3
  w1 = w1
  w2 = w2
  s1 = s1
  s2 = s2
  NoConn = NoConn
  Conns = {c1}
  Workers = {w1, w2}
  Senders = {s1, s2}
  Fds = {4}
  SetSize = 8
  WriteResults = {"all", "some", "zero", "error"}
  MaxCommands = 4
INVARIANT TypeOK
INVARIANT RepliesInOrder
INVARIANT IdleMeansAnswered
INVARIANT IInv
PROPERTY EveryCommandAnswered
CHECK_DEADLOCK FALSE
