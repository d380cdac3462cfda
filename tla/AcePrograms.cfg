\* Three threads in each task, twice as many requests, and a queue for two.
CONSTANTS
  TaskThreads = {t1, t2, t3}
  Producers = {p1, p2, p3}
  NRequests = 6
  NMsgs = 3
  HighWater = 2
  NIterations = 3
  NullMsg = NullMsg
  Hangup = Hangup
  Nil = Nil
SPECIFICATION AceSpec
INVARIANTS
  AceTypeOK
  NothingMissed
  BarrierIsRight
PROPERTIES
  PoolImplementsExecutor
  ProgramReturns
