# A TLA+ model of LevelDB

The code is LevelDB 1.20 in C++, under `src/leveldb_source_code/`; paths below
are relative to it. The modules follow the code, not its documentation; where a
comment or document disagrees with the code, section 4 says so.

## 1. The system

A database is a directory of files and one process that has it open.

| Part | Code | State | Concurrency and faults |
|---|---|---|---|
| Write queue, group commit | `db_impl.cc` `Write`, `BuildBatchGroup`, `MakeRoomForWrite` | `writers_`, one condition variable per writer, `mem_`, `imm_`, log, `LastSequence` | callers are threads; the front writer drops `mutex_` while it writes; log append, sync and creation may fail |
| Background thread | `MaybeScheduleCompaction`, `BackgroundCall`, `BackgroundCompaction`, `CompactMemTable` | `bg_compaction_scheduled_`, `bg_error_`, `manual_compaction_` | one thread, shared `bg_cv_`; a flush can run inside a compaction |
| Manual compaction, close | `TEST_CompactRange`, `~DBImpl` | `manual_compaction_`, `shutting_down_` | several callers take turns |
| Reads | `Get`, `Version::Get` | sequence number, memtables and version captured under the mutex | read without the mutex |
| Levels, compaction | `version_set.cc`, `DoCompactionWork` | `Version::files_`, snapshots | flushes, writes and snapshots during a compaction |
| Versions | `version_set.cc` `Builder`, `LogAndApply`, `Recover`, `UpdateStats` | `Version` and `FileMetaData` with reference counts | readers hold old versions; LogAndApply drops the mutex and may fail |
| Recovery | `DB::Open`, `Recover`, `RecoverLogFile`, `LogAndApply`, `DeleteObsoleteFiles` | logs, tables, MANIFESTs, CURRENT, file numbers | crash at any step, power failure, I/O errors |
| Log format | `log_writer.cc`, `log_reader.cc` | block offset | damaged, cut off and zeroed files |
| Memtable | `skiplist.h`, `memtable.cc`, `arena.cc` | linked nodes, blocks of memory | one writer, lock-free readers |
| Caches | `cache.cc`, `table_cache.cc` | LRU lists, hash tables, reference counts | shared by all threads |
| Iterators | `db_iter.cc`, `merger.cc`, `two_level_iterator.cc` | position and direction | the memtable grows, blocks may be unreadable |
| Tables | `table/*`, `comparator.cc`, `bloom.cc` | the builder, restart points, index, filters | failing writes, unreadable blocks |
| Encodings | `coding.cc`, `version_edit.cc`, `write_batch.cc` | images of edits and batches | an image may be cut off |
| Env | `env_posix.cc`, `memenv.cc` | LOCK file, mmap slots, background queue, files in memory | threads of several processes |
| Repair | `repair.cc` | the files of a directory | every call may fail, stop and run again |

The hazards these parts are exposed to, each at its line and with the
properties that cover it, are the `hazards` of `PROJECT.json`.

## 2. Modules

| Module | Models |
|---|---|
| `AtomicBatches` | what Write promises: a batch becomes visible whole, in one order |
| `WritePath` | the threads of an open database around `mutex_` |
| `MCWritePath` | instances of it for TLC |
| `WritePathInv` | the inductive invariants of `WritePath` |
| `WritePathProofs`, `WritePathDataProofs`, `WritePathSyncProofs`, `WritePathBatchesProofs` | that its steps keep them |
| `WritePathTheorems` | the theorems about it |
| `Lsm`, `MCLsm` | where entries live and how flushes and compactions move them; instances of it for TLC |
| `LsmProofs` | theorems about `Lsm` |
| `Versions` | who holds a version, and how edits make one |
| `Recovery`, `MCRecovery` | files, crashes and `DB::Open`; instances of it for TLC |
| `LogFormat` | log writer and reader |
| `SkipList`, `Arena` | the memtable's list under weak memory, and its memory |
| `SkipListProofs` | the theorem about `SkipList` |
| `LruCache` | the cache, as the table cache and the block cache use it |
| `Cursor`, `DBIterator` | what a database iterator promises, and the iterators that do it |
| `SortedTable`, `Bloom` | a table from Add to Get, and its filter policy |
| `Encodings` | varints, VersionEdit, WriteBatch |
| `PosixEnv`, `MemEnv` | the two environments |
| `UtilProofs` | theorems about `Arena`, `Bloom` and `PosixEnv` |
| `Repair` | RepairDB |
| `MCParts` | instances of the modules below `Recovery`, and of `Versions` |

Every definition that models code has its source lines in the `map` of
`PROJECT.json`. Operators commented "Faulty variant of X" are plausible bugs:
each property is shown to fail when X is replaced by such a variant.

### WritePath

A step is a stretch of code between two points where `mutex_` is taken or given
up. Calls are records `[id, count, sync, null]`; batch sizes are entry counts.
A writer goes through `queued`, `room` (MakeRoomForWrite, with `delay` and
`bgwait`), `log`, `sync`, `insert`, `relock` and `pop`; the background thread
through `table` and `apply` (a flush), `compact`, `install`, and `ntable`,
`napply` for a flush nested in a compaction. Condition variables are the sets
`cvWait` and `bgWait`; waking is explicit, so a lost wakeup is visible. Each
operation of `Faults` may fail. `InsertInto` cannot: it fails on a malformed
batch only, and `WriteBatch::Put` and `Delete` make none (`Encodings` has the
images). `AtomicBatches` is refined with the set of visible entries and the calls
in flight (`AtomicOrderedBatches`).

Level 0 is a count here and deeper levels one Boolean (`hot`); `Lsm` has them.

### Lsm

An entry is `[key, seq, del]`, a file a set of entries; level 0 has its files by
number, a deeper level is a set of files. What the code decides by comparing
byte counts (which level, when an output ends, whether inputs grow) is a free
choice, so all size settings are covered. A compaction is two steps, with writes, snapshots and the nested flush
in between. `ReadsCorrect` compares `DBImpl::Get` and `Version::Get` with the
history of writes for every key and live snapshot. Each behaviour has a `mode`,
chosen from `Modes` at the start: the keys, the number of levels and snapshots,
and whether there are manual compactions (`manual`), flushes inside compactions
(`nested`) and outputs that end inside a user key (`split`). With all of them the
code is wrong (section 4), so each instance and each theorem says which it is
about.

### Versions

`heap` holds the `Version` and `FileMetaData` objects with their `refs_`; an
address may be that of a version deleted before. `Apply`, `SaveTo` and
`FilesAfter` are the three phases of `VersionSet::Builder`. LogAndApply is two
steps, since it releases the mutex while it writes the MANIFEST: readers come
and go in between, and then the version is installed (`LogAndApplyEnds`) or
deleted (`LogAndApplyFails`). `Recover` throws the heap away and gives all edits
to one builder. A file is its number with its smallest and largest user key;
level sizes are counted in files (`Limits`), the file that `compact_pointer_`
selects is any file of the level, and outputs lie within the range of their
inputs. A trivial move, which the code does without releasing the mutex, may
here be preceded by steps of readers.

### Recovery

The disk has directory states, file contents and how much of each file is
synced. Each step of Open, of a write, of a flush and of a compaction that
changes a file is an action, and a process crash or power failure may come
between any two. Each behaviour has a `mode`, chosen from `Modes`: how many
batches, failures and compactions there are, whether the machine may fail or only
the process, which appends fail. The file system is external: directory operations persist in
order, an fsync of any file makes the earlier ones durable, file data is durable
only when that file is synced, and a prefix of the rest may survive.
`SyncDirIfManifest` adds nothing under this assumption.

Abstractions: a log fits one block of the log format, so the reader drops all
that follows a half record in it (`LogFormat` has the blocks); the several
tables that recovery may make of one log are one; an I/O error inside Open is a
crash there; a clean close is a crash of an idle process; temporary files and a
forced switch of an empty memtable are left out. `PosixEnv::NewWritableFile` is
spelled `write` in this copy of `env_posix.cc` (line 363); the model takes it for
`NewWritableFile`, which all callers use.

### LogFormat

A file is a sequence of cells, with a block of `kBlockSize` and headers of three.
Records are appended fragment by fragment, and the writer may be reopened at the
length of the file. An append may fail, leaving any part of the filler and the
fragment, while `block_offset_` moves on; records may follow it. Or one cell is
damaged, the file is cut or its end is zeroed. `log::Reader` reads it, from an
initial offset or from the start, with read errors. A checksum cell holds what it was computed from: a checksum
that detects every change is assumed.

### SkipList, Arena

`Insert` links a node level by level, each store with its place in the writer's
order; a load of the reader returns the latest store its `view` knows or any
later one, which is what `Release_Store`, `Acquire_Load` and `NoBarrier_*`
allow. `Arena` has the current block, its rest and the objects handed out, with
the alignment slop of `AllocateAligned`.

### LruCache

Two threads look up, open or read without a lock and insert, as `FindTable` and
`BlockReader` do, while entries are erased, pruned and evicted and at last the
cache is destroyed. The hash table with its chains and its resizing is there;
the hash of a key is a constant, so that keys share shards and buckets.

### DBIterator, Cursor

An internal key is a number in the order of `InternalKeyComparator`. DBIter's
loops (`FindNextUserEntry`, `FindPrevUserEntry`, the scan of `Prev`) are taken
one entry at a time, with insertions into the memtable in between; the merging
and the two-level iterators move in one step, since they touch nothing shared
but the memtable. `Promise` maps the state to `Cursor`, in which each call moves over the sorted user keys visible at the iterator's sequence number.

### SortedTable, Bloom

User keys are byte sequences, sizes are counted in cells. `Add`, `Flush` and
`Finish` keep the blocks, the index keys of `FindShortestSeparator` and
`FindShortSuccessor`, and the filter block that is indexed by file offset; each
append may fail. Open may find any of the parts unreadable. `Block::Iter` has
its restart points with binary search; a filter is one of `Bloom`.

### Encodings

Bytes have two value bits instead of seven and words 5 and 7 bits instead of 32
and 64, so that the last byte of a varint is partly used as in the code. Edits
and batches are built by the calls their users make, and every image and every
prefix of one is parsed back.

### PosixEnv, MemEnv, Repair

`PosixEnv` has `LockFile` and `UnlockFile` system call by system call, where open
and fcntl may fail, with an fcntl lock that goes when the process closes any
descriptor of the file; the mmap slots; and `Schedule` with the thread it starts.

`MemEnv` has names, file states with references, and contents in blocks; a
reader's copy is one step. A name that NewAppendableFile was given first maps to
NULL, and the process ends (`Crash`) when a call follows that pointer.

`Repair` has the calls of RepairDB in order, from any directory with a log and
a table; a file is what can be read of it and whether that ends without error. A
read may fail once and work the next time, so that a scan sees less than the copy,
or the copy has less than the table.

## 3. Runs

| Run | Checks | Distinct states |
|---|---|---|
| `WP_group` | group commit, sequence numbers, sync semantics, what a Get sees, refinement of `AtomicBatches`; 3 writers, a reader, 3 calls, log and sync faults | 559 k |
| `WP_flush` | waiting on `bg_cv_`, logs cover unflushed data, Write and close return; all background faults | 31 k |
| `WP_manual` | manual compactors take turns; they and the writer return | 39 k |
| `LSM` | reads, disjoint levels, newer above older, inputs stay: automatic compactions with nested flushes over 3 keys and 4 levels, or manual ones beside automatic ones with a snapshot over 2 keys and 3 levels | 856 k |
| `RC` | the database opens with all synced batches and, after process crashes alone, all acknowledged ones; no file in use is deleted, overwritten or half-written. Process crashes with failing log and MANIFEST appends, `reuse_logs`, a compaction and an iterator, or power failures and torn appends | 1.1 M |
| `PARTS` | the parts below, one in each behaviour | 1.1 M |

| Part of `PARTS` | Property | What it says |
|---|---|---|
| `LogFormat` | `LogReadsBack` | an undamaged file is read back exactly, also after it was cut or reopened; a failed append costs no record before it |
| | `LogDamageContained` | damage costs no record beyond its block; neither it nor what follows a failed append makes one up |
| `LruCache` | `CacheSound` | counts are exact whoever lets go last; list, table and usage agree |
| `DBIterator` | `IterImplementsCursor` | the iterator refines `Cursor` |
| `SkipList` | `SeesPublished` | a reader passes over no key inserted before it began, and reads no link that is not set |
| `SortedTable` | `TableReads` | Get finds what was added; index, filter and restart points never hide an entry; a failed builder is noticed |
| `PosixEnv` | `LockHeldOnce`, `SlotsAccounted`, `WorkGoesOn` | one thread of a process has the lock; slots add up; the background thread never sleeps on work |
| `MemEnv` | `FilesKept` | file states live as long as they are named or open, with what was appended (those NewAppendableFile does not store: at least as long) |
| `Repair` | `RepairKeeps` | a run with one failing call at most keeps all it could read, in the database or in `lost/`; without failures this holds over all runs; a run that succeeds lists all it read |
| `Encodings` | `ImagesReadBack` | an image parses back to what was encoded, and a cut one to no more |
| `Arena` | `ArenaSound` | objects are apart and aligned, usage is exact |
| `Versions` | `VersionsCounted` | versions and files live exactly as long as they are held; the file marked for a seek compaction is in its version and has a next level |
| | `RecoverAgrees` | one builder over the MANIFEST gives the levels that one builder per edit gave |

Bounds. Three writers give a leader, a member of its group and a writer queued
behind. The write buffer and triggers of 0 to 3 make every branch of
MakeRoomForWrite happen. Three keys and four writes give gaps, overlaps and
deletions on three to four levels. Two failures put the second into the recovery
from the first. The modes of `RC` leave out combinations that add no case: an
iterator only keeps files which a failing deletion may keep as well, so it meets
one failure; under power failures, two batches, two failures and both values of
`sync` are combined two at a time. `MCParts` states the bounds of each part with what they reach:
a record of three blocks, a block filled up with zeros, a cache smaller than its entries, several entries of
one user key in memtable and segments, a table with four blocks that share filters
or leave empty ones, three files on three levels. `SYMMETRY` is used in `WP_group` only, which has no liveness
property.

Deadlock is checked in the `WP` runs. `Lsm`, `Recovery` and the parts stop at
their bounds, so it is off there.

Some passing runs leave out a case on purpose, because the code is wrong there
(section 4): the manual instance in `LSM` has no cut inside a user key and no
nested flush, and the automatic one no snapshot (without which it does not matter
where an output is cut); `RC` has no torn appends with `reuse_logs` or failing
appends, and no power failure before the first Open has replaced the MANIFEST of
NewDB; `WP_manual` has no I/O error; `LockHeldOnce` is about one process;
`FilesKept` excepts the file states NewAppendableFile does not store, and
`RepairKeeps` the runs in which two calls fail. They say what holds apart from
those cases, no more. With `reuse_logs`, the model may still decide not to reuse
(the size limit, a memtable that overflowed), so recovery without reuse is covered
too.

Fairness (`WP_flush`, `WP_manual`). Each thread is weakly fair: the operating
system runs it when it can run. Clients need not call again. Strong fairness on
compacting level 0: a compaction of a deeper level takes bytes out of it and only
flushes and level-0 compactions bring new ones, so level 0 is not put off for
ever. This is an argument about `Finalize`, whose byte arithmetic is not
modelled.

## 4. Disagreements

| Run | What the code does | Against |
|---|---|---|
| `WP_manual_error` | an error cancels a manual compaction under the background thread, which then dereferences NULL | `db/db_impl.cc:835` |
| `LSM_split` | an output is cut inside one user key's entries (kept for snapshots); later the newer entry is moved below the older | `db/version_set.cc:390` |
| `RC_newdb` | NewDB does not sync its MANIFEST; after a power failure CURRENT may name an empty file | `db/db_impl.cc:289` |
| `RC_logerror` | after a half-written append, later writes are acknowledged and dropped by recovery | `include/leveldb/options.h:251` |
| `PARTS_append` | NewAppendableFile on a new name leaves NULL in `file_map_`; the next call on that name follows it | `include/leveldb/env.h:88` |
| `PARTS_lock` | closing a second descriptor of the LOCK file drops the process's lock, and another process opens the database | `include/leveldb/env.h:148` |

Each is a trace of the model; none was reproduced on the compiled program.

Seen while modelling, with no run of its own:

- a NULL batch grouped behind a writer returns OK with no memtable switch
  (`db_impl.h:59`);
- a flush nested in a manual compaction can land in a gap of its inputs at the
  output level (`Lsm` in a mode with `manual`, `nested` and three keys: the
  level overlaps and a read misses the flushed key);
- `reuse_logs` appends behind the half record of a crash as in `RC_logerror`
  (`RC` in a mode with `torn` and `reuse_logs` violates `RecoveredWhole`);
- the old log is not synced at a memtable switch, so a synchronous write may
  survive earlier asynchronous ones (`doc/index.html:127`);
- after a nested flush failed, the compaction goes on and calls LogAndApply
  although `bg_error_` is set;
- `log::Reader` with an initial offset inside a fragmented record reports a
  missing start that is not missing, and `LastRecordOffset` can point into the
  trailer of the block before the record;
- `repair.cc:189` says that checksums are verified, the code passes `false`;
  `repair.cc:395` puts all tables at level 0 in the order of their numbers, which
  is not that of their entries, so a Get after RepairDB may return an old value;
  a table whose copy cannot be created is in no descriptor; the descriptor has
  the range and the largest sequence number that the scan saw, though the copy may
  read more; a copy that reads less takes the place of a table that could not be
  archived; and `ArchiveFile` overwrites a file of the same name in `lost/`, which
  a second run meets, since FindFiles does not look there for numbers in use;
- renaming a file of `memenv.cc` to its own name removes it;
- `VersionEdit::Clear` keeps `compact_pointers_`.

## 5. Proofs

### WritePath

For every set of threads, calls and faults and every value of the limits, from
`ThreadsAssumption`, `CallsAssumption` and `BoundsAssumption`:

| Theorem | Inductive invariant |
|---|---|
| `TypeCorrect` | `TypeInv`: types, and that a flush has an `imm_`, a compaction's inputs are in level 0, a manual one has work left |
| `OneLeaderHolds`, `NoLostWakeupHolds`, `PopStopsHolds` | `QueueInv`: no thread is queued twice, only the front is a leader, those behind are queued and not done, last_writer is in the queue |
| `BgWaitersServedHolds` | `ScheduleInv`: pending work, a running call or a waiter implies `bg_compaction_scheduled_` |
| `RecoverableHolds` | `LogInv`: each memtable is contained in its log, which is not older than LogNumber |
| `SequencesUniqueHolds` | `GroupInv`, `SeqInv`: what was written is not above LastSequence or belongs to the group in flight, whose entries are above it and differ |
| `SnapshotStableHolds` | `GroupInv`, `ReadInv`: a group's entries lie above LastSequence, and what a reader captured is still found where it looks |
| `SyncedAckedHolds` | `SyncInv`: of the queue only the group in flight has written anything, a sync write is only in the group of a sync leader, and whoever will return OK has been synced |
| `ReadOnlyAfterErrorHolds` (an action property) | `TypeInv` |
| `FreedOnlyAfterErrorHolds` (an action property) | `CloseInv`: the destructor finds no manual compaction but one left after an error |
| `ManualNotFreedHolds`, without the faults that set `bg_error_` (`ErrorFaults`) | `CloseInv`, `QuietInv`: then only the destructor sets it |
| `AtomicOrderedBatchesHolds`: `WritePath` implements `AtomicBatches` | all of them and `BatchInv`: the queue is in the order of the calls, a group has all entries of its members in that order, and who is about to return has the outcome it will report |

The properties are not inductive alone: that a sleeping writer is not at the
front, say, depends on who is popped, hence on `QueueInv`. `OtherFrame` and
`CallFrame` state once what background steps and writer steps leave alone.
`GroupFactsHold` is the arithmetic of BuildBatchGroup: the entries of a group get
numbers of their own, up to the LastSequence it will publish. The refinement is
proved for the initial states and every step.

`ManualNotFreedHolds` needs its assumption: `WP_manual_error` is what happens
without it.

### Lsm

For all keys, bounds and numbers of levels, from `LsmAssumption`.
`InputsStayHolds` is about every behaviour; the others are about the modes that
are `Tame`, those without a flush inside a manual compaction and without outputs
that end inside a user key beside snapshots. In the other modes the three
properties fail (`LSM_split`, and the nested flush of section 4).

| Theorem | Inductive invariant |
|---|---|
| `InputsStayHolds` | `StayInv`: the inputs are files of their levels, and the number of a new file is new |
| `LevelsDisjointHolds`, `NewerAboveHolds`, `ReadsCorrectHolds` | `LsmInv`, below |

`LsmInv` has these parts. `SortedInv` is stronger than `LevelsDisjoint`: files of a
level share no user key, which is what cutting outputs between user keys gives,
or, with cuts inside them, having one entry of each key left.
`MemInv` and `OrderInv` are `NewerAbove`, with the memtables above everything
stored whatever the key. `WorkInv` is about a running compaction. No older file of
level 0 with a common key stays behind, files of the output level that are not
inputs lie outside the range of the inputs, and a flush cannot land inside that
range: a gap between two inputs is covered by a third (`NoHole`), which holds for
the inputs PickCompaction starts from and not for those of CompactRange. A deeper
file that was not there when the compaction began shares no key with its inputs.
`ReadInv`: for every sequence number a read may use, the newest entry of a key is
still somewhere, or it is a deletion with nothing of the key left below it.

The argument follows the code. `ClosedRange` and `Overlapping` are
GetOverlappingInputs, with its restart at level 0; `SetupInputs` is
SetupOtherInputs with and without the larger set of inputs; `FlushClear` is
PickLevelForMemTableOutput; `OutputFiles` is the cutting of outputs;
`ReplacedKeeps` is what replacing inputs by outputs a level down keeps, for
trivial moves and compactions alike. `FinishStep` has the two rules for dropping
entries, `ReadsFromInv` the lookup.

### The memtable's list, its memory and the filter

`SeesPublishedHolds` (`SkipList`): for any keys and any `kMaxHeight`, a reader
without a lock passes over no key inserted before it began and loads no link
before its first store. `ListInv` is about all stores ever made: a node is linked
from level 0 upwards, a link leads forward to a node that was linked before, and
if an old value of a link leads past a node, the link was stored again no later
than the node was linked (`PassedInv`), so that who knows of the node does not
load the old value. `IterInv` is about the reader: it stands before its target, on
a node whose link it knows to be set.

`ArenaSafe` (`Arena`): for any block size and any positive request sizes, the
objects of an arena never overlap, lie in one block and are aligned when
`AllocateAligned` made them. The inductive invariant `ArenaInv` adds
that `alloc_ptr_` and `alloc_bytes_remaining_` span the rest of the current
block and that no object reaches into it; `CarveKeeps` and `FallbackKeeps` are
its two cases.

`NoFalseNegatives` (`Bloom`): for any hash function, keys and bits per key,
`KeyMayMatch` accepts every key the filter was created from; both walk the same
probes.

### PosixEnv

For any processes, threads and slots. `LockHeldOnceHolds`: one thread of a process
at most has the LOCK file, and two processes have it only after a close dropped a
lock (`LockInv`: who is between the entry into the table and its removal is in the
table). `WorkGoesOnHolds`: the background thread starts the scheduled functions in
order, each once, and does not sleep on a queue that holds one.
`SlotsAccountedHolds`: slots taken and free add up on every path of
NewRandomAccessFile.

### Only model-checked

Liveness (`CallsReturn`, `CloseReturns`, `CallersReturn`), which needs fairness;
the refinement of `Cursor` and everything else about `DBIterator`,
`SortedTable`, `Encodings` and `MemEnv`, which are written with recursive
operators, out of the prover's reach; what recursive functions and folds compute
(`LogFormat`, the edits of `Versions`). No proof has been attempted of the
properties of `Recovery`, `LruCache` and `Repair`, nor of the reference counts of
`Versions`.

## 6. Not modelled

- CRC and hash arithmetic: a checksum tells damage, a hash is a function.
  Damaged blocks of tables that are read without verification are therefore left
  out.
- Compression and `TableBuilder::ChangeOptions`.
- The encoded entry of a memtable and RandomHeight (a free choice).
- Byte counts of levels, `compact_pointer_` and the limits on inputs and
  outputs: free choices in `Lsm` and `Versions`, since the properties must hold
  for every setting.
- The buffers of POSIX files, directory listing and `GetChildren`: I/O whose
  effects are in `Recovery`'s file system.
- `DestroyDB`, which deletes files in a loop, and the alternate `.sst` name of a
  table in `Repair`.
- Data races on `FileState::size_` and `blocks_` of `MemEnv`: threads that use one
  file at a time are modelled, since the interface asks for that.
- The C bindings, tools and benchmarks, and `info_log`.
