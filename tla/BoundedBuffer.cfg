\* Two producers and two consumers on a buffer of two places.
CONSTANTS
  Capacity = 2
  Prefill = 1
  Total = 3
  Producers = {p1, p2}
  Consumers = {c1, c2}
  Main = Main
  Items = {x, y}
  None = None
SPECIFICATION FairSpec
INVARIANTS
  TypeOK
  NoLostWakeup
PROPERTIES
  ImplementsFifo
  TestReturns
