SPECIFICATION FairSpec
CONSTANTS
  Writers = {w1}
  Compactors = {m1, m2}
  Readers = {}
  None = None
  Calls <- FlushCalls
  Faults = {}
  MaxCalls = 2
  MaxRounds = 1
  MaxKeys = 1
  WriteBuffer = 0
  SmallBatch = 2
  MaxGroup = 4
  L0Trigger = 1
  L0Slowdown = 1
  L0Stop = 2
INVARIANT ManualNotFreed
PROPERTY CallersReturn
