SPECIFICATION Spec
CHECK_DEADLOCK FALSE
INVARIANT LogReadsBack
INVARIANT LogDamageContained
INVARIANT CacheSound
INVARIANT SeesPublished
INVARIANT TableReads
INVARIANT LockHeldOnce
INVARIANT SlotsAccounted
INVARIANT WorkGoesOn
INVARIANT FilesKept
INVARIANT RepairKeeps
INVARIANT ImagesReadBack
INVARIANT ArenaSound
INVARIANT VersionsCounted
INVARIANT RecoverAgrees
PROPERTY IterImplementsCursor
