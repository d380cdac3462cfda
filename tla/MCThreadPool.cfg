\* Safety, refinement and liveness; no symmetry, which liveness does not allow.
CONSTANTS
  a = a
  b = b
  None = None
  Tasks = {a, b, c}
  Workers = {w1, w2}
  Parent <- MCParent
SPECIFICATION FairSpec
INVARIANTS
  NoLostWakeup
  IdleExact
PROPERTIES
  ImplementsExecutor
  ReadyUnlessStopped
