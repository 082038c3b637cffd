SPECIFICATION Spec
CONSTANTS
  Callers = {k1, k2}
  Limits = {1}
  Loops = {l1, l2}
  MaxConns = 3
  MaxDrops = 1
SYMMETRY Symmetry
INVARIANTS
  OneReconnectLoop
  NoPanic
  FailsOwnConnection
  WaiterIsReachable
CHECK_DEADLOCK FALSE
