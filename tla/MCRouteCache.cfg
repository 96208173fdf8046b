CONSTANTS
  Requests <- PlainRequests
  Buckets = 2
  Entries = 3
  MaxPath = 5
  Hash <- HashOf
SPECIFICATION Spec
INVARIANTS
  TypeOK
  RoutesCorrect
  HoldsMostRecent
