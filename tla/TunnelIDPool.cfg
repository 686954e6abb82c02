\* A pool of 2 is low at 1 and grows by 3; the third tunnel alive refills it, and BoundedIds is tight.
SPECIFICATION Spec
CONSTANTS
  PoolSize = 2
  LowShare = 2
  MaxLive = 3
INVARIANTS
  TypeOK
  IdsAreUnique
  IdsAreConserved
  BoundedIds
