CONSTANTS
  Handlers = {h1, h2}
  Fds = {f1, f2}
  NoFd = NoFd
  Scripts <- MCScripts
  Preambles = {"default", "small", "large"}
SPECIFICATION FairSpec
INVARIANTS
  TypeOK
  PoolSound
  DescriptorsOwned
  AnswersTheirRequests
  KeepAliveAnnounced
  NothingAfterClose
  FramedUnlessRefused
PROPERTY
  HangUpReleases
