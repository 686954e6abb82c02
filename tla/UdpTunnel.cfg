SPECIFICATION FairSpec
CONSTANTS
  Source = {a, b, c}
  PairID = {1}
  UdpSocket = {s1, s2}
  NoSource = NoSource
  NoSocket = NoSocket
  MaxUnwritten = 2
INVARIANTS
  TypeOK
  CleanPairGetsOwnReplies
PROPERTIES
  OrphanIsCollected
CHECK_DEADLOCK FALSE
