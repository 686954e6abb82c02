\* Deadlock is checked here: the server never stops by itself.
SPECIFICATION FairSpec
CONSTANTS
  Tunnel = {t1}
  PairID = {i1}
  Object = {a, b}
  None = None
  SocketMayFail = FALSE
PROPERTIES
  SilentPairIsClosed
  ClosedTunnelIsErased
  CollectorEnds
