-------------------------------- MODULE MCParts --------------------------------
(***************************************************************************)
(* Model checking of the parts that share no state: each behaviour         *)
(* exercises one of them, the one active names, and leaves the others as   *)
(* they were.  The instances carry the bounds.                             *)
(***************************************************************************)
EXTENDS Integers, Sequences

VARIABLES active,
          file, recs, writer, damage, reader,                              \* LogFormat
          entry, shard, thread, latest, closed,                            \* LruCache
          memtable, tables, tombs, sequence, merge, dbiter, call,          \* DBIterator
          hist, clock, published, inserter, iter,                          \* SkipList
          builder, added, table,                                           \* SortedTable
          lockAt, locked, owner, dropped, mapAt, allowed, mapped, preads,  \* PosixEnv
          queue, bgthread, started,
          file_map, fstate, handles, dying, crashed, written, orphans,     \* MemEnv
          dir, lost, repairer, runs, faults, original,                     \* Repair
          edit, batch, ops,                                                \* Encodings
          blocks, current, offset, remaining, usage, regions, allocs,      \* Arena
          heap, currentVersion, held, comp, flush, writing, manifest,      \* Versions
          spans, failed, mishaps

logVars == <<file, recs, writer, damage, reader>>
cacheVars == <<entry, shard, thread, latest, closed>>
iterVars == <<memtable, tables, tombs, sequence, merge, dbiter, call>>
listVars == <<hist, clock, published, inserter, iter>>
tableVars == <<builder, added, table>>
lockVars == <<lockAt, locked, owner, dropped>>
slotVars == <<mapAt, allowed, mapped, preads>>
queueVars == <<queue, bgthread, started>>
envVars == <<lockVars, slotVars, queueVars>>
memVars == <<file_map, fstate, handles, dying, crashed, written, orphans>>
repairVars == <<dir, lost, repairer, runs, faults, original>>
imageVars == <<edit, batch, ops>>
arenaVars == <<blocks, current, offset, remaining, usage, regions, allocs>>
versionVars == <<heap, currentVersion, held, comp, flush, writing, manifest, spans, failed, mishaps>>

\* Blocks of 7 bytes with headers of 3: a record of 4 fills a block, one of 9 needs three; after one of
\* 1 a header just fits, and after one of 2 the block is filled up with zeros.
Log == INSTANCE LogFormat WITH kBlockSize <- 7, Lengths <- {0, 1, 2, 4, 9}, MaxRecords <- 2

\* Keys 1 and 2 share a shard, and a bucket until the table of the shard grows.
Cache == INSTANCE LruCache WITH
  Threads <- {1, 2}, CacheKeys <- {1, 2, 3}, Hash <- <<1, 2, 3>>, kNumShards <- 2, ShardRange <- 3,
  Capacity <- 3, InitLength <- 1, Charges <- {1, 3}, MaxInserts <- 3

\* Three entries of two keys in the memtable and in two segments of a table.
Iter == INSTANCE DBIterator WITH
  UserKeys <- {1, 2}, LastSequence <- 3, MaxInserts <- 1, Places <- {<<0, 0>>, <<1, 1>>, <<1, 2>>},
  MaxTombs <- 1, MaxUnreadable <- 1

\* Three keys in nodes of one or two levels.
List == INSTANCE SkipList WITH ListKeys <- {1, 2, 3}, kMaxHeight <- 2

\* Four keys, one the prefix of another and one a run of the largest byte, with two tags each; up to
\* six entries make one to four blocks, of which some have two restart points, some share a filter with
\* the block before, and some leave an empty filter behind them.
TableKeys == {<<0>>, <<0, 3>>, <<1>>, <<3, 3>>}
Tab == INSTANCE SortedTable WITH
  UserKeys <- TableKeys, Top <- 3, Tags <- {1, 2}, MaxTag <- 3,
  KeyHash <- [k \in TableKeys |-> 3 * k[1] + (IF Len(k) = 1 THEN 13 ELSE 11 * k[2])],
  block_restart_interval <- 2, block_size <- 14, kFilterBase <- 16, MaxEntries <- 6

\* Two processes of two threads open a database; two threads share a slot for a mapped table; four
\* calls of Schedule.
Env == INSTANCE PosixEnv WITH
  Procs <- {1, 2}, LockThreads <- {1, 2}, MapThreads <- {1, 2}, MaxMmaps <- 1, MaxReadable <- 2,
  MaxScheduled <- 4

\* Two names, two files, two of them open, in blocks of two bytes.
Mem == INSTANCE MemEnv WITH
  Names <- {"x", "y"}, States <- {1, 2}, kMemBlock <- 2, MaxSize <- 3, MaxHandles <- 2,
  Payloads <- {<<1>>, <<2, 3>>}, Amounts <- {2}

\* A log and a table that hold any of two entries, damaged or not; the table made of the log may take
\* the number of a table that was archived.  Two runs, in each of which a call may fail.
Rep == INSTANCE Repair WITH
  Entries <- {1, 2}, RepairLogs <- {1}, RepairTables <- {2}, MaxRuns <- 2, MaxFaults <- 1

\* Bytes of two bits and a continuation bit: 127 needs the four digits of a 64 bit number.
Image == INSTANCE Encodings WITH
  Base <- 4, Word32 <- 32, Groups32 <- 3, Word64 <- 128, Groups64 <- 4, kNumLevels <- 2,
  Numbers <- {0, 4, 127}, Strings <- {<<>>, <<7, 0, 1, 5, 0>>}, MaxFields <- 2, MaxOps <- 3

\* Objects of at most a quarter of a block, aligned or not, and larger ones.
Mpool == INSTANCE Arena WITH ArenaBlock <- 32, AllocSizes <- {1, 8, 9, 11}, MaxAllocs <- 5

\* Three files on three levels; two make level 0 or 1 due, and one seek is allowed.
Vers == INSTANCE Versions WITH
  kNumLevels <- 3, kMaxMemCompactLevel <- 1, VKeys <- {1, 2}, VReaders <- {1}, Limits <- <<2, 2>>,
  VSpans <- <<{<<2, 2>>}, {<<1, 2>>}, {<<1, 1>>, <<2, 2>>}>>, AllowedSeeks <- 1, MaxMishaps <- 2

\* The variables of the parts that a behaviour is not about.
Unused(part) ==
  CASE part = "log" -> file = 0 /\ recs = 0 /\ writer = 0 /\ damage = 0 /\ reader = 0
    [] part = "cache" -> entry = 0 /\ shard = 0 /\ thread = 0 /\ latest = 0 /\ closed = 0
    [] part = "list" -> hist = 0 /\ clock = 0 /\ published = 0 /\ inserter = 0 /\ iter = 0
    [] part = "table" -> builder = 0 /\ added = 0 /\ table = 0
    [] part = "mem" -> /\ file_map = 0 /\ fstate = 0 /\ handles = 0 /\ dying = 0 /\ crashed = 0
                       /\ written = 0 /\ orphans = 0
    [] part = "repair" -> dir = 0 /\ lost = 0 /\ repairer = 0 /\ runs = 0 /\ faults = 0 /\ original = 0
    [] part = "image" -> edit = 0 /\ batch = 0 /\ ops = 0
    [] part = "arena" -> /\ blocks = 0 /\ current = 0 /\ offset = 0 /\ remaining = 0 /\ usage = 0
                         /\ regions = 0 /\ allocs = 0
    [] part = "versions" -> /\ heap = 0 /\ currentVersion = 0 /\ held = 0 /\ comp = 0 /\ flush = 0
                            /\ writing = 0 /\ manifest = 0 /\ spans = 0 /\ failed = 0 /\ mishaps = 0

Init ==
  /\ active \in {"log", "cache", "iter", "list", "table", "lock", "slots", "queue", "mem", "repair",
                  "image", "arena", "versions"}
  /\ Iter!Init /\ Env!Init
  /\ IF active = "log" THEN Log!Init ELSE Unused("log")
  /\ IF active = "cache" THEN Cache!Init ELSE Unused("cache")
  /\ IF active = "list" THEN List!Init ELSE Unused("list")
  /\ IF active = "table" THEN Tab!Init ELSE Unused("table")
  /\ IF active = "mem" THEN Mem!Init ELSE Unused("mem")
  /\ IF active = "repair" THEN Rep!Init ELSE Unused("repair")
  /\ IF active = "image" THEN Image!Init ELSE Unused("image")
  /\ IF active = "arena" THEN Mpool!ArenaInit ELSE Unused("arena")
  /\ IF active = "versions" THEN Vers!Init ELSE Unused("versions")

Next ==
  \/ /\ active = "log" /\ Log!Next
     /\ UNCHANGED <<active, cacheVars, iterVars, listVars, tableVars, envVars, memVars, repairVars,
                    imageVars, arenaVars, versionVars>>
  \/ /\ active = "cache" /\ Cache!Next
     /\ UNCHANGED <<active, logVars, iterVars, listVars, tableVars, envVars, memVars, repairVars,
                    imageVars, arenaVars, versionVars>>
  \/ /\ active = "iter" /\ Iter!Next
     /\ UNCHANGED <<active, logVars, cacheVars, listVars, tableVars, envVars, memVars, repairVars,
                    imageVars, arenaVars, versionVars>>
  \/ /\ active = "list" /\ List!Next
     /\ UNCHANGED <<active, logVars, cacheVars, iterVars, tableVars, envVars, memVars, repairVars,
                    imageVars, arenaVars, versionVars>>
  \/ /\ active = "table" /\ Tab!Next
     /\ UNCHANGED <<active, logVars, cacheVars, iterVars, listVars, envVars, memVars, repairVars,
                    imageVars, arenaVars, versionVars>>
  \/ /\ active = "lock" /\ Env!LockNext
     /\ UNCHANGED <<active, logVars, cacheVars, iterVars, listVars, tableVars, queueVars, memVars,
                    repairVars, imageVars, arenaVars, versionVars>>
  \/ /\ active = "slots" /\ Env!MapNext
     /\ UNCHANGED <<active, logVars, cacheVars, iterVars, listVars, tableVars, queueVars, memVars,
                    repairVars, imageVars, arenaVars, versionVars>>
  \/ /\ active = "queue" /\ Env!QueueNext
     /\ UNCHANGED <<active, logVars, cacheVars, iterVars, listVars, tableVars, memVars, repairVars,
                    imageVars, arenaVars, versionVars>>
  \/ /\ active = "mem" /\ Mem!Next
     /\ UNCHANGED <<active, logVars, cacheVars, iterVars, listVars, tableVars, envVars, repairVars,
                    imageVars, arenaVars, versionVars>>
  \/ /\ active = "repair" /\ Rep!Next
     /\ UNCHANGED <<active, logVars, cacheVars, iterVars, listVars, tableVars, envVars, memVars, imageVars,
                    arenaVars, versionVars>>
  \/ /\ active = "image" /\ Image!Next
     /\ UNCHANGED <<active, logVars, cacheVars, iterVars, listVars, tableVars, envVars, memVars,
                    repairVars, arenaVars, versionVars>>
  \/ /\ active = "arena" /\ Mpool!ArenaNext
     /\ UNCHANGED <<active, logVars, cacheVars, iterVars, listVars, tableVars, envVars, memVars,
                    repairVars, imageVars, versionVars>>
  \/ /\ active = "versions" /\ Vers!Next
     /\ UNCHANGED <<active, logVars, cacheVars, iterVars, listVars, tableVars, envVars, memVars, repairVars,
                    imageVars, arenaVars>>

Spec ==
  Init /\ [][Next]_<<active, logVars, cacheVars, iterVars, listVars, tableVars, envVars, memVars,
                     repairVars, imageVars, arenaVars, versionVars>>

-----------------------------------------------------------------------------
(* The properties of the parts, under names of this module *)

\* Log files are read back exactly, also after a cut (log_writer.cc, log_reader.cc).
LogReadsBack == active = "log" => Log!ReadsBack
\* Damage to a log costs at most the records in its block, and never makes one up (log_reader.cc).
LogDamageContained == active = "log" => Log!DamageContained
\* The reference counts of cache entries are exact, and the table, the list and the usage of a shard
\* agree (LRUCache::Unref and its callers, HandleTable, LRUCache::Insert).
CacheSound == active = "cache" => Cache!RefsExact /\ Cache!ShardConsistent
\* DBIter, with MergingIterator and TwoLevelIterator below it, implements the cursor: whatever the
\* mixture of Seek, Next and Prev, wherever the versions and deletions of a key lie, and whatever is
\* written to the memtable meanwhile, each call ends on the reference's key and value; if an
\* unreadable segment makes it miss one, status() says so.
IterImplementsCursor ==
  Iter!Promise!Init /\ [][active = "iter" => [Iter!Promise!Next]_(Iter!Promise!vars)]_iterVars
\* A reader of the skip list passes over no key that was inserted before it began (skiplist.h).
SeesPublished == active = "list" => List!SeesPublished
\* A table finds what was added to it, however it is cut into blocks and filters, and the iterator of
\* a block stops where it should and moves by one entry (table.cc, Block::Iter).
TableReads == active = "table" => Tab!TableFinds /\ Tab!BlockWalks
\* One thread of a process has the LOCK file (PosixEnv::LockFile, UnlockFile).
LockHeldOnce == active = "lock" => Env!LockHeldOnce
\* One process has the LOCK file (PosixEnv::LockFile, UnlockFile).
LockExclusive == active = "lock" => Env!LockExclusive
\* The slots for mapped files add up (MmapLimiter, PosixEnv::NewRandomAccessFile).
SlotsAccounted == active = "slots" => Env!SlotsAccounted
\* The background thread does not sleep on work, which it starts in order (PosixEnv::Schedule, BGThread).
WorkGoesOn == active = "queue" => Env!WorkGoesOn
\* Files in memory are counted exactly and keep what was written (InMemoryEnv, FileState).
FilesKept == active = "mem" => Mem!FilesKept
\* A name given to NewAppendableFile has a file (InMemoryEnv::NewAppendableFile, env.h).
NewFilesUsable == active = "mem" => Mem!NewFilesUsable
\* RepairDB destroys nothing while few calls fail, and lists all it could read (repair.cc).
RepairKeeps == active = "repair" => Rep!RepairKeeps
\* Edits and batches are parsed back to what they were (version_edit.cc, write_batch.cc, coding.cc).
ImagesReadBack == active = "image" => Image!ImagesReadBack
\* Objects of an arena are apart, and its usage is that of its blocks (arena.cc).
ArenaSound == active = "arena" => Mpool!ObjectsApart /\ Mpool!UsageExact
\* Versions and their files are counted exactly, and seeks mark files of the version (Version::Ref, Unref,
\* UpdateStats, VersionSet::Builder, LogAndApply).
VersionsCounted == active = "versions" => Vers!VersionsCounted
\* Recovering a MANIFEST gives the levels that its edits gave one by one (VersionSet::Recover, Builder).
RecoverAgrees == active = "versions" => Vers!RecoverAgrees
=============================================================================
