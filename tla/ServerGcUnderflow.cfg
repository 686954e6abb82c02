SPECIFICATION Spec
CONSTANTS
  Tunnel = {t1}
  PairID = {i1}
  Object = {a, b}
  None = None
  SocketMayFail = FALSE
PROPERTY GcTakesOnlySilent
