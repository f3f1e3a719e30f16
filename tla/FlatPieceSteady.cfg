SPECIFICATION SteadyLoopSpec
CONSTANTS
  PieceLen = 2
  CacheSizeInPieces = 3
  FOffset = 3
  FSize = 6
  Blocks <- BothSizes
  ReadLens <- Lens
  SeekTargets <- Ends
  MaxSegments = 2
INVARIANTS WindowIntact LoopsCompute
PROPERTIES ImplementsStream
CHECK_DEADLOCK FALSE
