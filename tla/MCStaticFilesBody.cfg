CONSTANTS
  Paths = {a, b}
  Volatile = {a}
  NONE = NONE
  Conns = {c1}
  MaxVersion = 2
  Length <- LengthOf
  maxMmapSize = 1
  initialCapacity = 2
  minCapacity = 1
  capacityStep = 2
  targetCacheHitRatio = 1
  maxPurgePerCycle = 1
  MaxHandlers = 1
  MaxRequests = 3
  RecheckAfter = 2
  Periods = {1}
SPECIFICATION Spec
INVARIANT
  FullBodies
