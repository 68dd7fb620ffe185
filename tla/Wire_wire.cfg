SPECIFICATION Spec
CONSTANTS
  XdrStreams <- MCXdrStreams
  RestStreams <- MCRestStreams
  Chunk = 2
  LineLimit = 3
  HandshakeMax = 3
  LoginMax = 3
  RequestLimit = 5
CHECK_DEADLOCK FALSE
INVARIANTS Faithful EndsClean
PROPERTY StopReturns
