SPECIFICATION Spec
CONSTANTS
  Hashes = {h1}
  Calls = {"load", "addMagnet"}
  Patient = FALSE
  AddMayFail = FALSE
  MaxInstances = 3
  MaxAlerts = 3
PROPERTIES PreloadedIsAdded
CHECK_DEADLOCK FALSE
