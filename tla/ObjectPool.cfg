SPECIFICATION FairSpec
CONSTANTS
  Threads = {t1, t2, t3}
  PoolSizes = {1, 2}
  MaxPermits = 5
  MaxObjects = 3
  MaxNulls = 1
INVARIANTS ObjectsConserved NoSleepBesideObject
PROPERTY WaitersServed
