SPECIFICATION Spec
CONSTANTS
  Modes <- LogError
INVARIANTS AckedSurvive
CHECK_DEADLOCK FALSE
