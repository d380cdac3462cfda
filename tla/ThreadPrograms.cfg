\* Three threads in each program.
CONSTANTS
  Threads = {t1, t2, t3}
  Logger = logger
  Callbacks = {c1, c2}
  Broadcasters = {b1, b2}
  Num = 2
  Iterations = 2
  MaxSpurious = 2
  None = None
SPECIFICATION FairSpec
INVARIANTS
  TypeOK
  NothingLost
  SafeToFree
PROPERTIES
  OpensForAll
  LoggerIsFifo
  NobodyWaitsForever
