SPECIFICATION Spec
CONSTANTS
  Hashes = {h1}
  Calls = {"addFile", "load", "cancel"}
  Patient = FALSE
  AddMayFail = FALSE
  MaxInstances = 3
  MaxAlerts = 3
INVARIANTS NeverThePreloaded
CHECK_DEADLOCK FALSE
