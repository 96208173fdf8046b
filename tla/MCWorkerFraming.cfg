CONSTANTS
  Handlers = {h1}
  Fds = {f1}
  NoFd = NoFd
  Scripts <- ShortScripts
  Preambles = {"default", "small", "large"}
SPECIFICATION Spec
INVARIANT
  ResponsesFramed
