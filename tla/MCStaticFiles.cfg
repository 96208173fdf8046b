CONSTANTS
  Paths = {a, b, c}
  Volatile = {a}
  NONE = NONE
  Conns = {c1}
  MaxVersion = 2
  Length <- LengthOf
  maxMmapSize = 1
  initialCapacity = 2
  minCapacity = 1
  capacityStep = 2
  targetCacheHitRatio = 2
  maxPurgePerCycle = 1
  MaxHandlers = 1
  MaxRequests = 2
  RecheckAfter = 3
  Periods = {1, 2}
SPECIFICATION Spec
SYMMETRY Symmetry
INVARIANTS
  TypeOK
  RefCountsExact
  ToFreeListSound
  FreshEnough
