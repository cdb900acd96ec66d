SPECIFICATION Spec
CONSTANTS
  Streams = {0, 1}
  MaxData = 3
  IoBuffer = 2
  MaxFrames = 1
  MaxCalls = 3
INVARIANTS ReleasedOnReturn GoodMeansNoFailure CrashNeedsStaleStream
CHECK_DEADLOCK FALSE
