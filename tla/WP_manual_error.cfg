SPECIFICATION Spec
CONSTANTS
  Writers = {w1}
  Compactors = {m1}
  Readers = {}
  None = None
  Calls <- MixedCalls
  Faults = {"sync"}
  MaxCalls = 1
  MaxRounds = 1
  MaxKeys = 2
  WriteBuffer = 0
  SmallBatch = 2
  MaxGroup = 4
  L0Trigger = 1
  L0Slowdown = 1
  L0Stop = 2
INVARIANTS ManualNotFreed
