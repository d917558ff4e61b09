SPECIFICATION Spec
CONSTANTS
  Paths = {dish, cell}
  Free = free
  Threads <- TheThreads
  Scores = {1, 10}
  Demotion = 3
  Promotion = 8
  ZombieFailures = 0
  DeadFailures = 1
  Modes = {"adaptive", "bogus"}
  Triggers = {5, malformed}
  Weights = {"even", malformed}
  Malformed = malformed
  MaxChanges = 1
  MaxInputs = 4
  MaxSeq = 2
  MaxFlight = 1
INVARIANTS TypeOK StuckOnlyInListeners 
PROPERTY OrderedUntilDoubled
SYMMETRY PathSymmetry
CHECK_DEADLOCK FALSE
