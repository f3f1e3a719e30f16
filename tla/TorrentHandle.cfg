SPECIFICATION LiveSpec
CONSTANTS
  MaxCalls = 2
  MaxAlerts = 2
  MaxTurns = 1
INVARIANTS
  TypeOK
  NoticeAgrees
  RequestKept
  FinishedReported
  PriorityKept
PROPERTY Starts
CHECK_DEADLOCK FALSE
