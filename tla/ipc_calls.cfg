SPECIFICATION FairSpec
CONSTANTS
  Callers = {k1}
  Limits = {1, 2}
  Loops = {l1}
  MaxConns = 4
  MaxDrops = 1
INVARIANTS
  TypeOK
  ServedPerAttempt
PROPERTIES
  CallsReturn
  LoopConnects
CHECK_DEADLOCK FALSE
