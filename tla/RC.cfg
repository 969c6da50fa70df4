SPECIFICATION Spec
CONSTANTS
  Modes <- Both
INVARIANTS Openable RecoveredWhole FilesIntact
PROPERTIES NeededKept
CHECK_DEADLOCK FALSE
