SPECIFICATION Spec
CONSTANTS
  Hashes = {h1, h2}
  Calls = {"addFile", "addMagnet", "load", "cancel", "delete"}
  Patient = FALSE
  AddMayFail = TRUE
  MaxInstances = 3
  MaxAlerts = 2
INVARIANTS TypeOK OneStage HandlesAlive
CHECK_DEADLOCK FALSE
