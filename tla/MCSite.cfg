CONSTANTS
  Paths = {"x", "y"}
  NONE = NONE
  Volatile = {"x"}
  Conns = {c1, c2}
  MaxVersion = 1
  Length <- LengthOf
  maxMmapSize = 1
  initialCapacity = 1
  minCapacity = 1
  capacityStep = 2
  targetCacheHitRatio = 1
  maxPurgePerCycle = 1
  MaxHandlers = 9
  MaxRequests = 2
  RecheckAfter = 2
  Periods = {1, 2}
  Requests <- MCRequests
  Buckets = 1
  Entries = 1
  MaxPath = 4
  Hash <- OneBucket
  FileOf <- MCFileOf
  MaxPipeline = 2
  MaxDepth = 2
SPECIFICATION Spec
SYMMETRY Symmetry
INVARIANTS
  TypeOK
  CallsAreSafe
  SendsWhatIsAsked
PROPERTY
  ImplementsStaticFiles
