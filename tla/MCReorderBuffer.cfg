SPECIFICATION FairSpec
CONSTANTS
  MaxSeq = 4
  Window = 1
  Paths = {p1, p2}
  Rtts <- MCRtts
  Jitters <- MCJitters
  MinTimeout = 10
  MaxTimeout = 100
  InitTimeout = 100
  TickMs = 50
  RecentMax = 3
  MaxLate = 2
INVARIANTS
  TypeOK
  InOrder
  FlushLoopEnds
  SeenIsHeld
  FlushedWasSkipped
PROPERTIES
  HeldUntilDelivered
  GapOutwaited
  ImplementsOrderedDelivery
  EventuallyDelivered
CHECK_DEADLOCK FALSE
