SPECIFICATION FairSpec
CONSTANTS
  Transfers = {t1}
  Workers = {w1, w2}
  TicksPerSecond = 2
  InitialBackoffSec = 1
  MaxBackoffSec = 2
  Timeouts <- MCTimeouts
  NoTime = NoTime
  NoTransfer = NoTransfer
  MaxTime = 6
  MaxCrashes = 1
  MaxFaults = 1
PROPERTIES
  DeadlineSettles
  DueIsTaken
CHECK_DEADLOCK FALSE
