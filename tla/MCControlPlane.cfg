SPECIFICATION FairSpec
CONSTANTS
  Callers = {local}
  Vps = vps
  MaxTunnels = 2
  MaxConns = 2
  MaxCommands = 1
  MaxProvisions = 1
INVARIANTS
  TypeOK
  StatusIsTrue
  NoGhostDevice
PROPERTIES
  BrokenIsDelisted
  StatusSettles
CHECK_DEADLOCK FALSE
