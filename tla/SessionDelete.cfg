SPECIFICATION Spec
CONSTANTS
  Hashes = {h1}
  Calls = {"addFile", "delete"}
  Patient = FALSE
  AddMayFail = FALSE
  MaxInstances = 3
  MaxAlerts = 3
INVARIANTS DeletedIsGone
CHECK_DEADLOCK FALSE
