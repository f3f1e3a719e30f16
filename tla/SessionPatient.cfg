SPECIFICATION LiveSpec
CONSTANTS
  Hashes = {h1, h2}
  Calls = {"addFile", "addMagnet", "load"}
  Patient = TRUE
  AddMayFail = FALSE
  MaxInstances = 4
  MaxAlerts = 3
INVARIANTS ExtraLimitCounts MetadataWhole
PROPERTIES PreloadedIsAdded ImplementsStages
CHECK_DEADLOCK FALSE
