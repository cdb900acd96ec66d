SPECIFICATION Spec
CONSTANTS
  c = c
  d = d
  f1080 = f1080
  f2160 = f2160
  Threads = {i, c, d}
  Initializer = i
  Formats = {f1080, f2160}
  PoolSizes = {1, 2}
  MaxPermits = 4
  MaxObjects = 2
  Need <- MCNeed
  V210 <- MCV210
  Uses <- MCUses
  Samples = 2
  MonoCnts = {2, 16}
  SampleCnts = {0, 3}
  Sizes = {100}
INVARIANTS ReadyAfterInitialize FramesFit PoolPromisesKept NullFrameOnlyWhenDrained AudioCountsAgree
CHECK_DEADLOCK FALSE
