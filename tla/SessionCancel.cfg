SPECIFICATION Spec
CONSTANTS
  Hashes = {h1}
  Calls = {"load", "cancel"}
  Patient = FALSE
  AddMayFail = FALSE
  MaxInstances = 3
  MaxAlerts = 3
INVARIANTS LimitGivenBack
CHECK_DEADLOCK FALSE
