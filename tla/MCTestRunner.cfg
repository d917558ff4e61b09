SPECIFICATION FairSpec
CONSTANTS
  Users = {ann, bob}
  MaxSessions = 3
INVARIANTS
  TypeOK
  OneAtATime
  LabelledTruly
PROPERTY EverySessionEnds
CHECK_DEADLOCK FALSE
