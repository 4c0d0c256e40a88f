SPECIFICATION DelaySpec
CONSTANTS
  SECOND = 60
  DELAY = 3
  PostDelays <- MCPostDelays
  Jitter = 1
  MaxSec = 5
  MaxClockSets = 1
  ULONG = 1048576
INVARIANTS
  KeepsApart
CHECK_DEADLOCK FALSE
