SPECIFICATION FairSpec
CONSTANTS
  Writers = {w1, w2}
  Compactors = {}
  Readers = {}
  None = None
  Calls <- FlushCalls
  Faults = {"newlog", "table", "manifest", "compact"}
  MaxCalls = 3
  MaxRounds = 0
  MaxKeys = 2
  WriteBuffer = 0
  SmallBatch = 2
  MaxGroup = 4
  L0Trigger = 1
  L0Slowdown = 1
  L0Stop = 1
INVARIANTS BgWaitersServed Recoverable
PROPERTIES CallsReturn CloseReturns
