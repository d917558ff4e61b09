SPECIFICATION Spec
CONSTANTS
  Callers = {local}
  Vps = vps
  MaxTunnels = 2
  MaxConns = 1
  MaxCommands = 1
  MaxProvisions = 0
INVARIANT RunningIsRunning
CHECK_DEADLOCK FALSE
