SPECIFICATION AnsweredSpec
CONSTANTS
  Tunnel = {t1, t2}
  Source = {s1, s2}
  PairIdCount = 2
  Capacity = 1
  NoSource = NoSource
  NoPair = NoPair
  SocketMayFail = TRUE
PROPERTY ConnectingIsResolved
CHECK_DEADLOCK FALSE
