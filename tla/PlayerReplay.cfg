SPECIFICATION PlayerSpec
CONSTANTS
  FileSize = 5
  BufferSize = 3
  ReadLens = {2, 5}
  SeekTargets = {2, 6}
  MayFail = TRUE
  Reopens = TRUE
  Files = {"f1", "f2"}
  Locations = {"net"}
  Outputs = {o1}
  FilesOnly = TRUE
  MaxMedia = 3
CHECK_DEADLOCK FALSE
PROPERTIES ImplementsFile
