SPECIFICATION Spec
CONSTANTS
  Publishers = {k1}
  Loops = {l1}
  MaxClients = 2
  MaxDrops = 1
INVARIANT
  ReplacesClient
CHECK_DEADLOCK FALSE
