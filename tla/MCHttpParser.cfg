CONSTANTS
  InitialBufferSize = 8
  MAXREQUESTSIZE = 16
  Scripts <- MCScripts
SPECIFICATION Spec
INVARIANTS
  TypeOK
  RecvHasRoom
  BufferBounded
  NoCompleteRequestWaits
  ScanMatchesLoop
PROPERTY
  ImplementsRequestStream
