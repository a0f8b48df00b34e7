CONSTANTS
  Ttl = 12
  MinHalf = 2
  Call = 2
  ErrorSleep = 1
  Poll = 1
  Pause = 1
  MaxLeases = 2
  MaxBridges = 1
  Faults <- AllFaults
  Node = {n1}
  Lease = {l1}
  Conn = {c1, c2}
  NodeTtls = {2}
  LeaseTtls = {1}
  Lag = 1
  Horizon = 3
  None = None
SPECIFICATION BothSpec
INVARIANTS ReregistersInTime
PROPERTIES ImplementsRendezvous EveryConnectionSettles LeaseIsServed
CHECK_DEADLOCK FALSE
