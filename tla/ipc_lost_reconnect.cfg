SPECIFICATION FairSpec
CONSTANTS
  Callers = {}
  Limits = {1}
  Loops = {l1}
  MaxConns = 2
  MaxDrops = 1
PROPERTY
  Reconnects
CHECK_DEADLOCK FALSE
