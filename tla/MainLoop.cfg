SPECIFICATION MainSpec
CONSTANTS
  Streams = {0}
  MaxData = 2
  IoBuffer = 1
  MaxFrames = 1
  MaxCalls = 3
  FileLength = 3
  Height = 1080
INVARIANTS SavedAreTheBad SavedTellTheirNumber
PROPERTY MainEnds
CHECK_DEADLOCK FALSE
