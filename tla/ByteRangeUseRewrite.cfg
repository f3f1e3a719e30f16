SPECIFICATION Spec
CONSTANTS
  MaxByte = 4
  MaxSegments = 3
PROPERTY RewriteHarmless
CHECK_DEADLOCK FALSE
