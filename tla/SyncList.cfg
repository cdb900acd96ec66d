SPECIFICATION LocksSpec
CONSTANTS
  Threads = {s, t, u}
  Lists = {a, b, c}
  Values = {1}
  NoOne = NoOne
  NoList = NoList
  MaxLen = 1
  MaxReleases = 2
INVARIANTS SeesTheList EmptyPopNeedsTaking OneInstance GotObject
PROPERTY LocksAreLeft
CHECK_DEADLOCK FALSE
