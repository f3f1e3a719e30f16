SPECIFICATION Spec
CONSTANTS
  MaxByte = 7
  MaxSegments = 4
INVARIANTS TypeOK PrefixSound Canonical
CHECK_DEADLOCK FALSE
