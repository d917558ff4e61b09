SPECIFICATION Spec
CONSTANTS
  XorData = 4
  RsData = 8
  RsParity = 2
  HeavyMin = 4
  XorDoneMax = 256
  RsDoneMax = 10000
  GroupTimeout = 1
  Garbage = Garbage
  MaxPackets = 6
  UsedModes <- HeavyCode
INVARIANTS
  RecoveredIsOriginal
CHECK_DEADLOCK FALSE
