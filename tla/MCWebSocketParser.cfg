CONSTANTS
  InitialBufferSize = 4
  maxFrameSize = 8
  Scripts <- MCScripts
SPECIFICATION Spec
INVARIANTS
  TypeOK
  ReadHasRoom
  BufferBounded
  FramesIntact
  NothingCompleteWaits
  RefusedForSize
