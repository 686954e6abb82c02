\* --carrying-capacity equal to the number of PairID values: INVALID_PAIR_ID is in the pool.
SPECIFICATION Spec
CONSTANTS
  Tunnel = {t1, t2, t3}
  Source = {s1, s2, s3}
  PairIdCount = 2
  Capacity = 2
  NoSource = NoSource
  NoPair = NoPair
  SocketMayFail = TRUE
SYMMETRY Symmetry
INVARIANTS
  LeakIsAtMostOne
CHECK_DEADLOCK FALSE
