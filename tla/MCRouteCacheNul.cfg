CONSTANTS
  Requests <- NulRequests
  Buckets = 1
  Entries = 2
  MaxPath = 8
  Hash <- OneBucket
SPECIFICATION Spec
INVARIANT
  RoutesCorrect
