SPECIFICATION Spec
CONSTANTS
  Hashes = {h1}
  Calls = {"addFile"}
  Patient = FALSE
  AddMayFail = TRUE
  MaxInstances = 3
  MaxAlerts = 3
INVARIANTS AddingPending
CHECK_DEADLOCK FALSE
