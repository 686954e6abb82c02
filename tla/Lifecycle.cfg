SPECIFICATION FairSpec
CONSTANTS
  Port = {0, 80, 65536, 70001}
  IntMax = 70000
  MaxSignals = 2
INVARIANTS
  TypeOK
  EndedLeavesNothing
  RunningListens
PROPERTIES
  QuietInterruptEnds
CHECK_DEADLOCK FALSE
