SPECIFICATION Spec
CONSTANTS
  Streams = {0, 1}
  MaxData = 3
  IoBuffer = 2
  MaxFrames = 1
  MaxCalls = 2
INVARIANT NoStreamAborts
CHECK_DEADLOCK FALSE
