SPECIFICATION TimecodeSpec
CONSTANTS
  MaxFrame = 30
  Starts <- MCStarts
  Offsets <- MCOffsets
  MaxSteps = 12
INVARIANT TypeOK
PROPERTIES IncIsNextFrame DecreaseIsFrameBefore
CHECK_DEADLOCK FALSE
