SPECIFICATION Spec
CONSTANTS
  XorData = 2
  RsData = 1
  RsParity = 1
  HeavyMin = 2
  XorDoneMax = 1
  RsDoneMax = 2
  GroupTimeout = 1
  Garbage = Garbage
  MaxPackets = 3
  UsedModes <- AllCodes
INVARIANTS
  TypeOK
  RecoveredIsOriginal
  EnoughShardsSuffice
  NewestFinishedKept
PROPERTIES
  RecoversOnlyMissing
CHECK_DEADLOCK FALSE
