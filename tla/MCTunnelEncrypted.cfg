SPECIFICATION Spec
CONSTANTS
  MaxSeq = 3
  Window = 2
  Paths = {p1, p2}
  Rtts <- MCRtts
  Jitters <- MCJitters
  MinTimeout = 10
  MaxTimeout = 100
  InitTimeout = 50
  TickMs = 50
  RecentMax = 1
  MaxLate = 1
  XorData = 2
  RsData = 3
  RsParity = 1
  HeavyMin = 2
  XorDoneMax = 2
  RsDoneMax = 2
  GroupTimeout = 2
  Garbage = Garbage
  Limits <- UpXor
  Encrypted = TRUE
INVARIANTS
  NothingInvented
CHECK_DEADLOCK FALSE
