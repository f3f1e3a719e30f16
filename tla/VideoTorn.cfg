SPECIFICATION Spec
CONSTANTS
  Frames = {f1, f2, f3}
  Outputs = {o1}
  Output = o1
  None = None
  MaxEvents = 2
SYMMETRY AnyFrame
INVARIANTS NoneOverwritten
CHECK_DEADLOCK FALSE
