CONSTANTS
  Node = {n1, n2}
  Lease = {l1, l2}
  Conn = {c1, c2, c3}
  NodeTtls = {1}
  LeaseTtls = {1}
  Lag = 0
  Horizon = 2
  None = None
SPECIFICATION Spec
SYMMETRY Symmetry
INVARIANTS SeatsGivenOnce NeverBothPending SpentLeaseGone BridgeSound WaiterKeepsItsSender
CHECK_DEADLOCK FALSE
