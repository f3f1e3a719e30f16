SPECIFICATION Spec
CONSTANTS
  Touched = {"maxConnections", "maxActiveDownloads"}
  Values <- MCValues
  Limits = {3072}
  Torrents = {t1}
  MaxExtra = 1
  MaxCalls = 1
INVARIANTS
  PortTold
CHECK_DEADLOCK FALSE
