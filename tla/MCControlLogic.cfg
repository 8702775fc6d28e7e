SPECIFICATION FairSpec
CONSTANTS
  a = a
  b = b
  q1 = q1
  q2 = q2
  Clients = {c1, c2}
  Main = main
  NoTask = NoTask
  Logics = {a, b}
  Outputs = {q1, q2}
  Tables <- MCTables
  QueueSize = 2
  PerPass = 1
  MaxScheduled = 2
  MaxCommands = 2
INVARIANTS TableCurrent OwnConfig PulseEndsInTime
PROPERTIES Settles
