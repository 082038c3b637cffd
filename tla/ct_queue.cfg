SPECIFICATION Spec
CONSTANTS
  Transfers = {t1, t2}
  Workers = {w1, w2}
  TicksPerSecond = 2
  InitialBackoffSec = 1
  MaxBackoffSec = 2
  Timeouts <- MCTimeouts
  NoTime = NoTime
  NoTransfer = NoTransfer
  MaxTime = 5
  MaxCrashes = 1
  MaxFaults = 1
SYMMETRY Symmetry
CONSTRAINT OneMishap
INVARIANTS
  TypeOK
  NoDoubleClaim
  StrandedOnlyByFaults
  CompletedIsDelivered
PROPERTIES
  NotEarly
  SettledIsFinal
  ImplementsQueue
CHECK_DEADLOCK FALSE
