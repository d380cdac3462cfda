\* The workers have no end for the destructor to join.
CONSTANTS
  a = a
  b = b
  None = None
  Tasks = {a, b}
  Workers = {w1, w2}
  Parent <- MCParent
SPECIFICATION FairSpec
PROPERTIES
  WorkersEnd
