SPECIFICATION Spec
CONSTANTS
  MaxSeq = 3
  Window = 2
  Paths = {p1, p2}
  Rtts <- MCRtts
  Jitters <- MCJitters
  MinTimeout = 10
  MaxTimeout = 100
  InitTimeout = 50
  TickMs = 50
  RecentMax = 1
  MaxLate = 1
  XorData = 3
  RsData = 2
  RsParity = 1
  HeavyMin = 2
  XorDoneMax = 2
  RsDoneMax = 2
  GroupTimeout = 2
  Garbage = Garbage
  Limits <- BothWays
  Encrypted = FALSE
INVARIANTS
  TypeOK
  NothingInvented
  ReorderedInSourceOrder
  EnoughFedReachTun
PROPERTIES
  ImplementsReorderBuffer
  DropsOnlyStale
  RecoversOnlyUnwritten
CHECK_DEADLOCK FALSE
