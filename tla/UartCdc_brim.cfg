SPECIFICATION Spec
CONSTANTS
  Callers = {c1, c2}
  None = None
  BufSize = 4
  DmaSize = 2
  Lengths = {1, 2, 3}
  Bytes = 5
INVARIANTS WritesContiguous
CHECK_DEADLOCK FALSE
