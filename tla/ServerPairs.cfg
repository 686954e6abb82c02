\* Two tunnels with one id each, and the crash; both closers may hold pairs of both tunnels.
SPECIFICATION Spec
CONSTANTS
  Tunnel = {t1, t2}
  PairID = {i1}
  Object = {a, b}
  None = None
  SocketMayFail = TRUE
SYMMETRY Symmetry
INVARIANTS
  TypeOK
  RegisteredPairIsLive
  EverySocketIsReachable
  OneReceiverPerId
  UnlinksItself
  ErasedTunnelLeavesNothing
PROPERTIES
  ImplementsPairLife
CHECK_DEADLOCK FALSE
