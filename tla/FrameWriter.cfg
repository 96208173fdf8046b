CONSTANTS
  Lengths = {0, 1, 2}
  ShortLimit = 0
  WordLimit = 1
  MaxFrames = 3
  Interruptible = FALSE
SPECIFICATION FairSpec
INVARIANTS
  TypeOK
  FramesIntact
PROPERTIES
  ImplementsFrameChannel
  FlushedIsSent
