SPECIFICATION FairSpec
CONSTANTS
  SocketMayFail = TRUE
  MaxRedirects = 2
  MaxPings = 6
INVARIANTS
  TypeOK
  LayersAgree
  HeartbeatCountsUnanswered
PROPERTIES
  ImplementsTunnelLife
  SilentPeerIsCut
  HandshakeEnds
CHECK_DEADLOCK FALSE
