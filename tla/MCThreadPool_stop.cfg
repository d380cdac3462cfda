\* A stopped pool leaves tasks behind.
CONSTANTS
  a = a
  b = b
  None = None
  Tasks = {a, b}
  Workers = {w1, w2}
  Parent <- MCParent
SPECIFICATION FairSpec
PROPERTIES
  CommittedIsRun
