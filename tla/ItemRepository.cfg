\* Three consumers, a ring of three places, six items.
CONSTANTS
  Size = 4
  MaxItem = 7
  Producer = Producer
  Consumers = {c1, c2, c3}
  NoItem = NoItem
SPECIFICATION FairSpec
INVARIANTS
  TypeOK
  WaitersAreRight
PROPERTIES
  ImplementsFifo
  AllConsumed
