SPECIFICATION SinkSpec
CONSTANTS
  Threads = {scan, writer}
  Sinks = {serial, capture}
  Context <- MCContext
  Null = nullptr
  Quiet = FALSE
INVARIANT CalledWithItsContext
