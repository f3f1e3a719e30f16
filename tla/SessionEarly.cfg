SPECIFICATION Spec
CONSTANTS
  Hashes = {h1, h2}
  Calls = {"load", "addMagnet"}
  Patient = FALSE
  AddMayFail = FALSE
  MaxInstances = 3
  MaxAlerts = 3
INVARIANTS LimitRaised
CHECK_DEADLOCK FALSE
