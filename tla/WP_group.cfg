SPECIFICATION Spec
CONSTANTS
  Writers = {w1, w2, w3}
  Compactors = {}
  Readers = {r1}
  None = None
  Calls <- AllCalls
  Faults = {"log", "sync"}
  MaxCalls = 3
  MaxRounds = 0
  MaxKeys = 0
  WriteBuffer = 2
  SmallBatch = 2
  MaxGroup = 4
  L0Trigger = 2
  L0Slowdown = 2
  L0Stop = 3
SYMMETRY Symmetry
INVARIANTS TypeOK OneLeader NoLostWakeup PopStops SequencesUnique SyncedAcked SnapshotStable
PROPERTIES ReadOnlyAfterError AtomicOrderedBatches
