SPECIFICATION Spec
CONSTANTS
  Touched = {}
  Values <- MCValues
  Limits = {3072, 3145728}
  Torrents = {}
  MaxExtra = 0
  MaxCalls = 2
INVARIANTS
  SpeedLimitKept
CHECK_DEADLOCK FALSE
