SPECIFICATION Spec
CONSTANTS
  Tunnel = {t1, t2}
  Source = {s1, s2}
  PairIdCount = 3
  Capacity = 2
  NoSource = NoSource
  NoPair = NoPair
  SocketMayFail = FALSE
INVARIANT GcSparesSenders
CHECK_DEADLOCK FALSE
