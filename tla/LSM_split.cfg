SPECIFICATION Spec
CONSTANTS
  Keys = {1, 2}
  MaxSeq = 4
  MaxMemLevel = 2
  Modes <- Split
CHECK_DEADLOCK FALSE
INVARIANT NewerAbove
