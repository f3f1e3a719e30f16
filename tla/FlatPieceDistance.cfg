SPECIFICATION SerialSpec
CONSTANTS
  PieceLen = 2
  CacheSizeInPieces = 2
  FOffset = 1
  FSize = 6
  Blocks <- BothSizes
  ReadLens <- Lens
  SeekTargets <- Targets
  MaxSegments = 2
INVARIANTS DistanceNotZero
CHECK_DEADLOCK FALSE
