SPECIFICATION LiveSpec
CONSTANTS
  Touched = {"maxConnections", "maxActiveDownloads"}
  Values <- MCValues
  Limits = {3072}
  Torrents = {t1}
  MaxExtra = 1
  MaxCalls = 3
INVARIANTS
  TypeOK
  SettingsTold
  NeverExposed
  LimitsWatched
PROPERTY ToldInTheEnd
CHECK_DEADLOCK FALSE
