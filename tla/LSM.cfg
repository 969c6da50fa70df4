SPECIFICATION Spec
CONSTANTS
  Keys = {1, 2, 3}
  MaxSeq = 4
  MaxMemLevel = 2
  Modes <- Both
CHECK_DEADLOCK FALSE
INVARIANT ReadsCorrect
INVARIANT LevelsDisjoint
INVARIANT NewerAbove
INVARIANT InputsStay
