SPECIFICATION FairSpec
CONSTANTS
  Paths = {dish}
  Settings = {"auto", "none"}
  Losses = {"xor", "reed_solomon_heavy"}
  Bursts = {"xor", "reed_solomon", "replicate"}
INVARIANT TypeOK
PROPERTY BulkFlowsIfHigh
CHECK_DEADLOCK FALSE
