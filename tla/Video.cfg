SPECIFICATION Spec
CONSTANTS
  Frames = {f1, f2, f3, f4, f5, f6}
  Outputs = {o1}
  Output = o1
  None = None
  MaxEvents = 1
VIEW NumberedFrames
INVARIANTS TypeOK NotOverwritten PoolBounded FrameReachesOutputs
CHECK_DEADLOCK FALSE
