SPECIFICATION FairSpec
CONSTANTS
  dish = dish
  cell = cell
  Paths = {dish, cell}
  Dead = 2
  Levels = {20, 60, 80, 100}
  Ports = {1, 2, 3}
  Ip <- OneIp
  FirstPort <- TwoPorts
  MaxRetries = 1
  MaxFaults = 1
  MaxInFlight = 1
INVARIANTS
  TypeOK
  OnlyFreshlyAlive
PROPERTIES
  AliveFollowsLink
  ReturnAddressSettles
CHECK_DEADLOCK FALSE
