\* The consumers never leave.
CONSTANTS
  Size = 3
  MaxItem = 4
  Producer = Producer
  Consumers = {c1, c2}
  NoItem = NoItem
SPECIFICATION FairSpec
PROPERTY EveryThreadExits
