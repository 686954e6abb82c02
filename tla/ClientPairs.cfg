\* Three tunnels of two seats, and four sources: two tunnels can be full at once.
SPECIFICATION Spec
CONSTANTS
  Tunnel = {t1, t2, t3}
  Source = {s1, s2, s3, s4}
  PairIdCount = 3
  Capacity = 2
  NoSource = NoSource
  NoPair = NoPair
  SocketMayFail = TRUE
SYMMETRY Symmetry
INVARIANTS
  TypeOK
  SeatsPartition
  CounterMatchesPairs
  AvailableIffRoom
  MapAgreesWithPairs
  UselessCarryNothing
PROPERTIES
  OpensOnlyWhenFull
  SourceKeepsPair
  ImplementsAllocation
CHECK_DEADLOCK FALSE
