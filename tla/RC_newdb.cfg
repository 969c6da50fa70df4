SPECIFICATION Spec
CONSTANTS
  Modes <- NewDB
INVARIANTS Openable
CHECK_DEADLOCK FALSE
