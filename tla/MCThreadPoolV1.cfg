\* Safety, refinement and liveness; no symmetry, which liveness does not allow.
CONSTANTS
  a = a
  b = b
  None = None
  Tasks = {a, b, c, d}
  Workers = {w1, w2}
  Parent <- MCParent
SPECIFICATION FairSpec
INVARIANTS
  TypeOK
  TaskInOnePlace
  NoLostWakeup
PROPERTIES
  ImplementsExecutor
  EveryFutureReady
  DestructorReturns
