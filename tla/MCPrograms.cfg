SPECIFICATION Spec
CONSTANTS
  Peers = {p1, p2, p3}
  AsyncPeers = {a1}
  SyncPeers = {s1}
  ServerPort = port
  MaxFaults = 2
  SizeBits = 4
  Timeout = 1
  Delays = {1, 2}
  MaxUnread = 2
  None = None
  Nothing = Nothing
  Resources = {r1, r2, r3}
  MaxGuards = 4
  Objects = {o1, o2, o3}
  Sizes = {0, 1, 2}
  DefaultSize = 3
  Handles = {h1, h2, h3}
  Vectors = {v1, v2}
  Elements = {e1, e2}
  MaxSize = 2
  Numbers <- MCNumbers
  Book <- MCBook
  Words = {1, 2}
  MaxWords = 6
  Many = 4
  Values = {1, 2, 3}
  Letters <- MCLetters
  MaxLength = 3
  MaxString = 2
INVARIANTS
  TypeOK
  EchoedOwn
  KeptInTime
  ObjectsAreSound
  ResultsRight
PROPERTIES
  ProgramsEnd
  ListsAreRight
  NobodyIsLeft
