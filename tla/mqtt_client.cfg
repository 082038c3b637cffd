SPECIFICATION FairSpec
CONSTANTS
  Publishers = {k1}
  Loops = {l1, l2}
  MaxClients = 5
  MaxDrops = 2
INVARIANTS
  TypeOK
  OneReconnectLoop
  NoClientLeft
  SentPerAttempt
PROPERTIES
  OnlyOwnClientDropped
  PublicationsReturn
  Reconnects
CHECK_DEADLOCK FALSE
