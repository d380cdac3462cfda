\* The destructor misses a worker that is about to wait.
CONSTANTS
  a = a
  b = b
  None = None
  Tasks = {a, b}
  Workers = {w1, w2}
  Parent <- MCParent
SPECIFICATION FairSpec
PROPERTIES
  DestructorReturns
