\* No symmetry: it is not sound for liveness.
SPECIFICATION FairSpec
CONSTANTS
  Tunnel = {t1, t2}
  Source = {s1, s2}
  PairIdCount = 2
  Capacity = 1
  NoSource = NoSource
  NoPair = NoPair
  SocketMayFail = TRUE
PROPERTIES
  SilentPairsAreReleased
  IdleClientKeepsOneTunnel
  PairTunnelIsResolved
CHECK_DEADLOCK FALSE
