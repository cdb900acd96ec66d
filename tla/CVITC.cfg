SPECIFICATION Spec
CONSTANTS
  Formats = {24, 25, 29, 30, 50, 59, 60}
  Numbers <- MCNumbers
  Adds = {0, 3, 40}
  PcTimes <- MCPcTimes
  Millis = {0, 989, 990}
  MaxCount = 235
  CallsAfter = {0, 40}
  MaxSwitches = 1
INVARIANTS ShowsTheFrame PastRateHasReason
CHECK_DEADLOCK FALSE
