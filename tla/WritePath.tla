----------------------------- MODULE WritePath -----------------------------
(***************************************************************************)
(* The threads of one open database: callers of DBImpl::Write, of          *)
(* TEST_CompactMemTable (a Write with a NULL batch, then a wait for imm_), *)
(* of TEST_CompactRange and of Get, the single background thread of the    *)
(* Env, and the destructor.  They share mutex_, the writer queue, the      *)
(* memtables, the write-ahead logs and the condition variable bg_cv_       *)
(* (db/db_impl.cc).                                                        *)
(*                                                                         *)
(* A step is a stretch of code between two points where mutex_ is taken or *)
(* given up, or a smaller one when a writer goes on holding it ("mutex").  *)
(* A call is a record [id, count, sync, null]: id numbers the calls in the *)
(* order they enter the queue, count is the number of entries of the batch *)
(* (also its size for BuildBatchGroup), null is a NULL batch.  Memtables   *)
(* are named by the number of the log that backs them.  A level-0 file     *)
(* counts, its contents do not: Lsm has the levels.                        *)
(***************************************************************************)
EXTENDS Integers, Sequences, FiniteSets

CONSTANTS
  Writers,        \* threads that call Write
  Compactors,     \* threads that call TEST_CompactRange
  Readers,        \* threads that call Get
  None,           \* a NULL pointer
  Calls,          \* the calls a writer may make: records [count, sync, null]
  Faults,         \* the I/O operations that may fail
  MaxCalls,       \* bound: number of calls of Write
  MaxRounds,      \* bound: partial compactions of one manual compaction
  MaxKeys,        \* bound: turns of the loop of DoCompactionWork that see imm_
  WriteBuffer,    \* options_.write_buffer_size, in entries
  SmallBatch,     \* 128 << 10 in BuildBatchGroup, in entries
  MaxGroup,       \* 1 << 20 in BuildBatchGroup, in entries
  L0Trigger,      \* config::kL0_CompactionTrigger
  L0Slowdown,     \* config::kL0_SlowdownWritesTrigger
  L0Stop          \* config::kL0_StopWritesTrigger

FaultKinds == {"log", "sync", "newlog", "table", "manifest", "compact"}

ASSUME ThreadsAssumption ==
  /\ None \notin Writers \cup Compactors \cup Readers
  /\ "closer" \notin Writers \cup Compactors
  /\ Writers \cap Compactors = {}

ASSUME CallsAssumption ==
  \A c \in Calls : c.count \in Nat /\ c.sync \in BOOLEAN /\ c.null \in BOOLEAN
                   /\ (c.null => c.count = 0)

ASSUME BoundsAssumption ==
  /\ Faults \subseteq FaultKinds
  /\ MaxCalls \in Nat /\ MaxRounds \in Nat /\ MaxKeys \in Nat /\ WriteBuffer \in Nat
  /\ SmallBatch \in Nat /\ MaxGroup \in Nat
  /\ L0Trigger \in Nat \ {0} /\ L0Slowdown \in Nat /\ L0Stop \in Nat
  /\ L0Trigger <= L0Slowdown /\ L0Slowdown <= L0Stop

VARIABLES
  mutex,          \* the writer that holds mutex_ between two of its steps
  writers,        \* writers_, the queue of DBImpl::Write
  pc, call,       \* per writer: where it is, and its call
  loc,            \* per writer: force, allow_delay, status (sync_error included),
                  \*   and of its group last_writer, entries and last_sequence
  done,           \* per writer: Writer::done
  cvWait,         \* writers blocked on their own Writer::cv
  bgWait,         \* threads blocked on bg_cv_
  lastSequence,   \* versions_->LastSequence()
  logs,           \* log number -> set of entries its records hold
  memtable,       \* log number -> entries of the memtable backed by that log
  mem, imm,       \* mem_ (= logfile_number_) and imm_
  logNumber,      \* versions_->LogNumber(): older logs are deleted
  tables,         \* entries in sorted tables of the current version
  synced,         \* entries whose log record was fsynced
  l0,             \* versions_->NumLevelFiles(0)
  hot,            \* of the current version: a level below 0 is too big, or
                  \*   file_to_compact_ is set
  bgError, bgScheduled, shuttingDown,
  bg,             \* the background thread: where it is, the level-0 inputs and
                  \*   is_manual of its compaction, and of a flush the log
                  \*   number and the number of level-0 files of its edit
  manual,         \* manual_compaction_: the compactor it belongs to, or None
  mpc, mdone, mleft,  \* per compactor: where it is, manual.done, work left
  reader,         \* per reader: what Get captured, or None
  ncalls,         \* calls made so far
  acked, failed,  \* ids of the calls that returned OK / an error
  crashed         \* the process dereferenced a NULL manual_compaction_

writerVars == <<writers, pc, call, loc, done, cvWait>>
dataVars == <<lastSequence, logs, memtable, mem, imm, logNumber, tables, synced>>
bgVars == <<l0, hot, bgError, bgScheduled, bg, crashed>>
manualVars == <<manual, mpc, mdone, mleft>>
histVars == <<ncalls, acked, failed>>
vars == <<mutex, bgWait, shuttingDown, reader, writerVars, dataVars, bgVars,
          manualVars, histVars>>

NoCall == [id |-> 0, count |-> 0, sync |-> FALSE, null |-> TRUE]
NoGroup == [last |-> None, entries |-> {}, lastSeq |-> 0]
NoLoc == [force |-> FALSE, delay |-> FALSE, status |-> "ok", group |-> NoGroup]
IdleBg == [pc |-> "idle", inputs |-> 0, isManual |-> FALSE, keys |-> 0, log |-> 0,
           new |-> 0]

Init ==
  /\ mutex = None
  /\ writers = <<>>
  /\ pc = [w \in Writers |-> "idle"]
  /\ call = [w \in Writers |-> NoCall]
  /\ loc = [w \in Writers |-> NoLoc]
  /\ done = [w \in Writers |-> FALSE]
  /\ cvWait = {} /\ bgWait = {}
  /\ lastSequence = 0
  /\ logs = [n \in {1} |-> {}]
  /\ memtable = [n \in {1} |-> {}]
  /\ mem = 1 /\ imm = 0 /\ logNumber = 1
  /\ tables = {} /\ synced = {}
  /\ l0 = 0 /\ hot = FALSE
  /\ bgError = FALSE /\ bgScheduled = FALSE /\ shuttingDown = "no"
  /\ bg = IdleBg
  /\ manual = None
  /\ mpc = [m \in Compactors |-> "idle"]
  /\ mdone = [m \in Compactors |-> FALSE]
  /\ mleft = [m \in Compactors |-> 0]
  /\ reader = [r \in Readers |-> None]
  /\ ncalls = 0 /\ acked = {} /\ failed = {}
  /\ crashed = FALSE

-----------------------------------------------------------------------------
(* What the database holds.                                                *)

Store == tables \cup memtable[mem] \cup (IF imm = 0 THEN {} ELSE memtable[imm])

\* The entries a reader that starts now can see: DBImpl::Get reads at
\* LastSequence, so entries of a group being inserted are hidden.
Visible == {e \in Store : e.seq <= lastSequence}

-----------------------------------------------------------------------------
(* Scheduling and errors.                                                  *)

NeedsCompaction == l0 >= L0Trigger \/ hot

\* Faulty variant of WorkPending: does not look at shutting_down_.
WorkPendingWhenClosing ==
  /\ ~bgError
  /\ imm # 0 \/ manual # None \/ NeedsCompaction

WorkPending ==
  /\ shuttingDown = "no"
  /\ ~bgError
  /\ imm # 0 \/ manual # None \/ NeedsCompaction

\* Faulty variant of MaybeScheduleCompaction: nothing is ever scheduled.
ScheduleNothing == bgScheduled' = bgScheduled

MaybeScheduleCompaction == bgScheduled' = (bgScheduled \/ WorkPending')

RecordBackgroundError ==
  /\ bgError' = TRUE
  /\ bgWait' = IF bgError THEN bgWait ELSE {}

-----------------------------------------------------------------------------
(* DBImpl::Write.                                                          *)

\* Faulty variant of NoneAhead: off by one.
AtMostOneAhead == Len(writers) <= 1

\* The wait for the turn is over before it begins.
NoneAhead == writers = <<>>

\* Faulty variant of NewLoc: last_writer is not initialised to the caller.
NewLocNoLastWriter(w, c) ==
  [force |-> c.null, delay |-> ~c.null, status |-> "ok", group |-> NoGroup]

NewLoc(w, c) ==
  [force |-> c.null, delay |-> ~c.null, status |-> "ok",
   group |-> [NoGroup EXCEPT !.last = w]]

\* Write up to the first wait on w.cv.
Write(w, c) ==
  /\ mutex = None /\ pc[w] = "idle" /\ shuttingDown = "no" /\ ncalls < MaxCalls
  /\ ncalls' = ncalls + 1
  /\ writers' = Append(writers, w)
  /\ call' = [call EXCEPT ![w] = [id |-> ncalls + 1, count |-> c.count,
                                  sync |-> c.sync, null |-> c.null]]
  /\ loc' = [loc EXCEPT ![w] = NewLoc(w, c)]
  /\ done' = [done EXCEPT ![w] = FALSE]
  /\ IF NoneAhead
     THEN pc' = [pc EXCEPT ![w] = "room"] /\ mutex' = w /\ UNCHANGED cvWait
     ELSE pc' = [pc EXCEPT ![w] = "queued"] /\ cvWait' = cvWait \cup {w}
          /\ UNCHANGED mutex
  /\ UNCHANGED <<bgWait, shuttingDown, reader, dataVars, bgVars, manualVars,
                 acked, failed>>

\* The call of w returns from Write with the given status; a NULL batch comes
\* from TEST_CompactMemTable, which goes on to wait for imm_.
Return(w, ok) ==
  /\ pc' = [pc EXCEPT ![w] = IF ok /\ call[w].null THEN "immwait" ELSE "idle"]
  /\ acked' = IF ok THEN acked \cup {call[w]} ELSE acked
  /\ failed' = IF ok THEN failed ELSE failed \cup {call[w]}

\* w wakes up from w.cv.Wait() at the front of the queue.
WakeFront(w) ==
  /\ mutex = None /\ pc[w] = "queued" /\ w \notin cvWait
  /\ ~done[w] /\ Head(writers) = w
  /\ mutex' = w
  /\ pc' = [pc EXCEPT ![w] = "room"]
  /\ UNCHANGED <<bgWait, shuttingDown, reader, writers, call, loc, done, cvWait,
                 dataVars, bgVars, manualVars, histVars>>

\* w wakes up from w.cv.Wait() because a leader wrote its batch.
WakeDone(w) ==
  /\ mutex = None /\ pc[w] = "queued" /\ w \notin cvWait
  /\ done[w]
  /\ Return(w, loc[w].status = "ok")
  /\ UNCHANGED <<mutex, bgWait, shuttingDown, reader, writers, call, loc, done,
                 cvWait, dataVars, bgVars, manualVars, ncalls>>

-----------------------------------------------------------------------------
(* DBImpl::MakeRoomForWrite: one action per branch of its loop.            *)

InRoom(w) == mutex = w /\ pc[w] = "room"

\* The second branch of the loop applies.
MustDelay(w) == loc[w].delay /\ l0 >= L0Slowdown

HasRoom(w) == ~loc[w].force /\ Cardinality(memtable[mem]) <= WriteBuffer

MustWait == imm # 0 \/ l0 >= L0Stop

\* Faulty variant of PastDelay: bg_error_ is not looked at.
PastDelayAfterError(w) == ~MustDelay(w)

\* Neither of the first two branches applies.
PastDelay(w) == ~bgError /\ ~MustDelay(w)

\* bg_error_ is set: the write fails.
RoomError(w) ==
  /\ InRoom(w)
  /\ bgError
  /\ loc' = [loc EXCEPT ![w].status = "error"]
  /\ pc' = [pc EXCEPT ![w] = "pop"]
  /\ UNCHANGED <<mutex, bgWait, shuttingDown, reader, writers, call, done, cvWait,
                 dataVars, bgVars, manualVars, histVars>>

\* Close to the limit of level-0 files: unlock and sleep, once per write.
RoomDelay(w) ==
  /\ InRoom(w)
  /\ ~bgError /\ MustDelay(w)
  /\ mutex' = None
  /\ pc' = [pc EXCEPT ![w] = "delay"]
  /\ loc' = [loc EXCEPT ![w].delay = FALSE]
  /\ UNCHANGED <<bgWait, shuttingDown, reader, writers, call, done, cvWait,
                 dataVars, bgVars, manualVars, histVars>>

DelayOver(w) ==
  /\ mutex = None /\ pc[w] = "delay"
  /\ mutex' = w
  /\ pc' = [pc EXCEPT ![w] = "room"]
  /\ UNCHANGED <<bgWait, shuttingDown, reader, writers, call, loc, done, cvWait,
                 dataVars, bgVars, manualVars, histVars>>

\* The memtable is full and imm_ is not flushed yet, or too many level-0 files.
RoomWait(w) ==
  /\ InRoom(w)
  /\ PastDelay(w) /\ ~HasRoom(w) /\ MustWait
  /\ mutex' = None
  /\ pc' = [pc EXCEPT ![w] = "bgwait"]
  /\ bgWait' = bgWait \cup {w}
  /\ UNCHANGED <<shuttingDown, reader, writers, call, loc, done, cvWait, dataVars,
                 bgVars, manualVars, histVars>>

RoomWake(w) ==
  /\ mutex = None /\ pc[w] = "bgwait" /\ w \notin bgWait
  /\ mutex' = w
  /\ pc' = [pc EXCEPT ![w] = "room"]
  /\ UNCHANGED <<bgWait, shuttingDown, reader, writers, call, loc, done, cvWait,
                 dataVars, bgVars, manualVars, histVars>>

\* Switch to a new log and memtable; the old one becomes imm_.
RoomSwitch(w) ==
  /\ InRoom(w)
  /\ PastDelay(w) /\ ~HasRoom(w) /\ ~MustWait
  /\ imm' = mem
  /\ mem' = mem + 1
  /\ logs' = [n \in DOMAIN logs \cup {mem + 1} |->
                IF n = mem + 1 THEN {} ELSE logs[n]]
  /\ memtable' = [n \in DOMAIN memtable \cup {mem + 1} |->
                    IF n = mem + 1 THEN {} ELSE memtable[n]]
  /\ loc' = [loc EXCEPT ![w].force = FALSE]
  /\ UNCHANGED <<mutex, bgWait, shuttingDown, reader, writers, pc, call, done,
                 cvWait, lastSequence, logNumber, tables, synced, l0, hot, bgError, bg,
                 crashed, manualVars, histVars>>
  /\ MaybeScheduleCompaction

\* NewWritableFile failed for the new log: the write fails, nothing changes.
RoomSwitchFails(w) ==
  /\ InRoom(w)
  /\ PastDelay(w) /\ ~HasRoom(w) /\ ~MustWait
  /\ "newlog" \in Faults
  /\ loc' = [loc EXCEPT ![w].status = "error"]
  /\ pc' = [pc EXCEPT ![w] = "pop"]
  /\ UNCHANGED <<mutex, bgWait, shuttingDown, reader, writers, call, done, cvWait,
                 dataVars, bgVars, manualVars, histVars>>

-----------------------------------------------------------------------------
(* DBImpl::BuildBatchGroup.  A cell <<i, j>> is the j-th entry of the batch *)
(* of the i-th writer of the queue.                                        *)

Cells(k) == UNION {{<<i, j>> : j \in 1..call[writers[i]].count} : i \in 1..k}

\* Faulty variant of Rank: SetSequence starts from LastSequence itself.
RankFromZero(k, c) ==
  Cardinality({d \in Cells(k) : d[1] < c[1] \/ (d[1] = c[1] /\ d[2] < c[2])})

Rank(k, c) ==
  Cardinality({d \in Cells(k) : d[1] < c[1] \/ (d[1] = c[1] /\ d[2] <= c[2])})

MaxSize ==
  LET size == call[Head(writers)].count
  IN  IF size <= SmallBatch THEN size + SmallBatch ELSE MaxGroup

\* Faulty variant of Joins: a sync write joins the group of a non-sync one.
JoinsNonSync(i) ==
  /\ writers[i] \in Writers
  /\ call[writers[i]].null \/ Cardinality(Cells(i)) <= MaxSize

\* The loop over the queue does not break at its i-th writer.
Joins(i) ==
  /\ call[writers[i]].sync => call[Head(writers)].sync
  /\ call[writers[i]].null \/ Cardinality(Cells(i)) <= MaxSize

\* The loop takes the first k writers and stops.
Groups(k) ==
  /\ \A i \in 2..k : Joins(i)
  /\ k < Len(writers) => ~Joins(k + 1)

GroupEntries(k) ==
  {[seq |-> lastSequence + Rank(k, c), op |-> call[writers[c[1]]].id]
     : c \in Cells(k)}

\* There is room: build the group, choose its sequence numbers and unlock.
BuildBatchGroup(w) ==
  /\ InRoom(w)
  /\ PastDelay(w) /\ HasRoom(w) /\ ~call[w].null
  /\ \E k \in 1..Len(writers) :
       /\ Groups(k)
       /\ loc' = [loc EXCEPT ![w].group =
                    [last |-> writers[k], entries |-> GroupEntries(k),
                     lastSeq |-> lastSequence + Cardinality(Cells(k))]]
  /\ mutex' = None
  /\ pc' = [pc EXCEPT ![w] = "log"]
  /\ UNCHANGED <<bgWait, shuttingDown, reader, writers, call, done, cvWait,
                 dataVars, bgVars, manualVars, histVars>>

\* There is room and the batch is NULL: nothing to write.
RoomNull(w) ==
  /\ InRoom(w)
  /\ PastDelay(w) /\ HasRoom(w) /\ call[w].null
  /\ pc' = [pc EXCEPT ![w] = "pop"]
  /\ UNCHANGED <<mutex, bgWait, shuttingDown, reader, writers, call, loc, done,
                 cvWait, dataVars, bgVars, manualVars, histVars>>

-----------------------------------------------------------------------------
(* The rest of DBImpl::Write.                                              *)

\* Where the leader goes once the record is in the log.
Insertion(w) == IF loc[w].group.entries = {} THEN "relock" ELSE "insert"

\* log_->AddRecord without the mutex.
AddRecord(w) ==
  /\ pc[w] = "log"
  /\ logs' = [logs EXCEPT ![mem] = @ \cup loc[w].group.entries]
  /\ pc' = [pc EXCEPT ![w] = IF call[w].sync THEN "sync" ELSE Insertion(w)]
  /\ UNCHANGED <<mutex, bgWait, shuttingDown, reader, writers, call, loc, done,
                 cvWait, lastSequence, memtable, mem, imm, logNumber, tables,
                 synced, bgVars, manualVars, histVars>>

\* AddRecord fails; whether the record can be read back is not known.
AddRecordFails(w) ==
  /\ pc[w] = "log" /\ "log" \in Faults
  /\ logs' \in {logs, [logs EXCEPT ![mem] = @ \cup loc[w].group.entries]}
  /\ loc' = [loc EXCEPT ![w].status = "error"]
  /\ pc' = [pc EXCEPT ![w] = "relock"]
  /\ UNCHANGED <<mutex, bgWait, shuttingDown, reader, writers, call, done, cvWait,
                 lastSequence, memtable, mem, imm, logNumber, tables, synced,
                 bgVars, manualVars, histVars>>

\* logfile_->Sync.
Sync(w) ==
  /\ pc[w] = "sync"
  /\ synced' = synced \cup logs[mem]
  /\ pc' = [pc EXCEPT ![w] = Insertion(w)]
  /\ UNCHANGED <<mutex, bgWait, shuttingDown, reader, writers, call, loc, done,
                 cvWait, lastSequence, logs, memtable, mem, imm, logNumber, tables,
                 bgVars, manualVars, histVars>>

SyncFails(w) ==
  /\ pc[w] = "sync" /\ "sync" \in Faults
  /\ loc' = [loc EXCEPT ![w].status = "syncerror"]
  /\ pc' = [pc EXCEPT ![w] = "relock"]
  /\ UNCHANGED <<mutex, bgWait, shuttingDown, reader, writers, call, done, cvWait,
                 dataVars, bgVars, manualVars, histVars>>

\* WriteBatchInternal::InsertInto, entry by entry; readers run meanwhile.  It fails on a batch whose
\* bytes are malformed, and those made by WriteBatch::Put and Delete are not (Encodings).
InsertInto(w) ==
  /\ pc[w] = "insert"
  /\ \E e \in loc[w].group.entries \ memtable[mem] :
       LET rest == loc[w].group.entries \ (memtable[mem] \cup {e})
       IN  /\ \A f \in rest : e.seq <= f.seq
           /\ memtable' = [memtable EXCEPT ![mem] = @ \cup {e}]
           /\ pc' = [pc EXCEPT ![w] = IF rest = {} THEN "relock" ELSE "insert"]
  /\ UNCHANGED <<mutex, bgWait, shuttingDown, reader, writers, call, loc, done,
                 cvWait, lastSequence, logs, mem, imm, logNumber, tables, synced,
                 bgVars, manualVars, histVars>>

\* Faulty variant of NewLastSequence: it only advances when the write succeeded.
NewLastSequenceOnSuccess(w) ==
  IF loc[w].status = "ok" THEN loc[w].group.lastSeq ELSE lastSequence

NewLastSequence(w) == loc[w].group.lastSeq

\* mutex_.Lock(), RecordBackgroundError after a failed Sync, SetLastSequence
\* (also when the write failed).
Publish(w) ==
  /\ mutex = None /\ pc[w] = "relock"
  /\ mutex' = w
  /\ lastSequence' = NewLastSequence(w)
  /\ pc' = [pc EXCEPT ![w] = "pop"]
  /\ IF loc[w].status = "syncerror" THEN RecordBackgroundError ELSE UNCHANGED <<bgError, bgWait>>
  /\ UNCHANGED <<shuttingDown, reader, writers, call, loc, done, cvWait, logs,
                 memtable, mem, imm, logNumber, tables, synced, l0, hot, bgScheduled,
                 bg, crashed, manualVars, histVars>>

\* Faulty variant of NewFront: the new front of the queue is not signalled.
NoNewFront(k) == {}

\* The front of the queue once its first k writers are gone.
NewFront(k) == IF k < Len(writers) THEN {writers[k + 1]} ELSE {}

\* Pop the queue through last_writer, tell the others, wake the new front.
Pop(w) ==
  /\ mutex = w /\ pc[w] = "pop"
  /\ \E k \in 1..Len(writers) :
       LET followers == {writers[i] : i \in 1..k} \ {w}
       IN  /\ writers[k] = loc[w].group.last
           /\ writers' = SubSeq(writers, k + 1, Len(writers))
           /\ done' = [x \in Writers |-> done[x] \/ x \in followers]
           /\ loc' = [x \in Writers |-> IF x \in followers
                                        THEN [loc[x] EXCEPT !.status = loc[w].status]
                                        ELSE loc[x]]
           /\ cvWait' = cvWait \ (followers \cup NewFront(k))
  /\ mutex' = None
  /\ Return(w, loc[w].status = "ok")
  /\ UNCHANGED <<bgWait, shuttingDown, reader, call, dataVars, bgVars, manualVars,
                 ncalls>>

\* TEST_CompactMemTable after Write: wait until imm_ is gone.
AwaitImm(w) ==
  /\ mutex = None /\ pc[w] = "immwait" /\ w \notin bgWait
  /\ imm # 0 /\ ~bgError
  /\ bgWait' = bgWait \cup {w}
  /\ UNCHANGED <<mutex, shuttingDown, reader, writerVars, dataVars, bgVars,
                 manualVars, histVars>>

CompactMemTableReturns(w) ==
  /\ mutex = None /\ pc[w] = "immwait" /\ w \notin bgWait
  /\ imm = 0 \/ bgError
  /\ pc' = [pc EXCEPT ![w] = "idle"]
  /\ UNCHANGED <<mutex, bgWait, shuttingDown, reader, writers, call, loc, done,
                 cvWait, dataVars, bgVars, manualVars, histVars>>

-----------------------------------------------------------------------------
(* The background thread: BackgroundCall, BackgroundCompaction,            *)
(* CompactMemTable and DoCompactionWork.                                   *)

\* Faulty variant of BackgroundCallEnds: SignalAll is missing.
BackgroundCallEndsSilent ==
  /\ bg' = IdleBg
  /\ bgScheduled' = WorkPending'
  /\ bgWait' = bgWait

\* The end of BackgroundCall: reschedule if needed, wake everybody.
BackgroundCallEnds ==
  /\ bg' = IdleBg
  /\ bgScheduled' = WorkPending'
  /\ bgWait' = {}

BgStarts == mutex = None /\ bgScheduled /\ bg.pc = "idle"

BgMayWork == ~bgError /\ shuttingDown = "no"

\* BackgroundCall finds the database closing or broken, or PickCompaction
\* finds nothing to do.
BgNothing ==
  /\ BgStarts
  /\ BgMayWork => imm = 0 /\ manual = None /\ ~NeedsCompaction
  /\ UNCHANGED <<mutex, shuttingDown, reader, writerVars, dataVars, l0, hot,
                 bgError, crashed, manualVars, histVars>>
  /\ BackgroundCallEnds

\* CompactMemTable begins (from BackgroundCompaction, or from the loop of
\* DoCompactionWork when it notices imm_): WriteLevel0Table unlocks.
FlushStarts ==
  /\ imm # 0
  /\ \/ BgStarts /\ BgMayWork /\ bg' = [bg EXCEPT !.pc = "table"]
     \/ /\ mutex = None /\ bg.pc = "compact" /\ bg.keys > 0
        /\ bg' = [bg EXCEPT !.pc = "ntable", !.keys = @ - 1]
  /\ UNCHANGED <<mutex, bgWait, shuttingDown, reader, writerVars, dataVars, l0, hot,
                 bgError, bgScheduled, crashed, manualVars, histVars>>

Nested == bg.pc \in {"ntable", "napply"}

\* The end of CompactMemTable, and what its caller does next.
FlushEnds ==
  IF Nested
  THEN /\ bg' = [bg EXCEPT !.pc = "compact", !.log = 0, !.new = 0]
       /\ bgWait' = {}
       /\ UNCHANGED bgScheduled
  ELSE BackgroundCallEnds

\* Faulty variant of EditLogNumber: the log after the current one.
EditLogNumberNext == mem + 1

\* edit.SetLogNumber(logfile_number_), read after the mutex was given up.
EditLogNumber == mem

\* The table is built: record the current log number in the edit, LogAndApply
\* unlocks.  PickLevelForMemTableOutput may choose a deeper level.
FlushBuilt ==
  /\ mutex = None /\ bg.pc \in {"table", "ntable"}
  /\ shuttingDown = "no"
  /\ \E n \in IF memtable[imm] = {} THEN {0} ELSE {0, 1} :
       bg' = [bg EXCEPT !.pc = IF Nested THEN "napply" ELSE "apply",
                        !.log = EditLogNumber, !.new = n]
  /\ UNCHANGED <<mutex, bgWait, shuttingDown, reader, writerVars, dataVars, l0, hot,
                 bgError, bgScheduled, crashed, manualVars, histVars>>

\* BuildTable or LogAndApply fails, or the database is being closed.
FlushFails ==
  /\ mutex = None
  /\ \/ bg.pc \in {"table", "ntable"} /\ ("table" \in Faults \/ shuttingDown # "no")
     \/ bg.pc \in {"apply", "napply"} /\ "manifest" \in Faults
  /\ bgError' = TRUE
  /\ UNCHANGED <<mutex, shuttingDown, reader, writerVars, dataVars, l0, hot, crashed,
                 manualVars, histVars>>
  /\ FlushEnds

\* A new current version: readers keep the old one, file_to_compact_ is unset,
\* Finalize looks at the sizes of the levels.
NewVersion ==
  /\ hot' \in BOOLEAN
  /\ reader' = [r \in Readers |-> IF reader[r] = None THEN None
                                  ELSE [reader[r] EXCEPT !.current = FALSE]]

\* LogAndApply succeeded: drop imm_, DeleteObsoleteFiles removes old logs.
FlushApplied ==
  /\ mutex = None /\ bg.pc \in {"apply", "napply"}
  /\ tables' = tables \cup memtable[imm]
  /\ l0' = l0 + bg.new
  /\ imm' = 0
  /\ logNumber' = bg.log
  /\ logs' = IF bgError THEN logs
             ELSE [n \in {m \in DOMAIN logs : m >= bg.log} |-> logs[n]]
  /\ NewVersion
  /\ UNCHANGED <<mutex, shuttingDown, writerVars, lastSequence, memtable, mem, synced,
                 bgError, crashed, manualVars, histVars>>
  /\ FlushEnds

\* Faulty variant of Compacting: one level-0 input too many is deleted.
CompactingOneMore(at, n, isManual) ==
  [pc |-> at, inputs |-> n + 1, isManual |-> isManual, keys |-> MaxKeys, log |-> 0, new |-> 0]

Compacting(at, n, isManual) ==
  [pc |-> at, inputs |-> n, isManual |-> isManual, keys |-> MaxKeys, log |-> 0, new |-> 0]

\* PickCompaction, or CompactRange for a manual compaction, chose inputs;
\* a trivial move goes straight to LogAndApply.
CompactionStarts ==
  /\ BgStarts /\ BgMayWork /\ imm = 0
  /\ \E n \in 0..l0 :
       \/ /\ manual # None /\ mleft[manual] > 0
          /\ bg' = Compacting("compact", n, TRUE)
       \/ /\ manual = None /\ NeedsCompaction /\ (~hot => n > 0)
          /\ \/ bg' = Compacting("compact", n, FALSE)
             \/ n <= 1 /\ bg' = Compacting("install", n, FALSE)
  /\ UNCHANGED <<mutex, bgWait, shuttingDown, reader, writerVars, dataVars, l0, hot,
                 bgError, bgScheduled, crashed, manualVars, histVars>>

\* CompactRange finds no file in the range: the manual compaction is done.
ManualEmpty ==
  /\ BgStarts /\ BgMayWork /\ imm = 0
  /\ manual # None /\ mleft[manual] = 0
  /\ mdone' = [mdone EXCEPT ![manual] = TRUE]
  /\ manual' = None
  /\ UNCHANGED <<mutex, shuttingDown, reader, writerVars, dataVars, l0, hot, bgError,
                 crashed, mpc, mleft, histVars>>
  /\ BackgroundCallEnds

\* DoCompactionWork has written its outputs: InstallCompactionResults calls
\* LogAndApply, which unlocks.
CompactionWritten ==
  /\ mutex = None /\ bg.pc = "compact" /\ shuttingDown = "no"
  /\ bg' = [bg EXCEPT !.pc = "install"]
  /\ UNCHANGED <<mutex, bgWait, shuttingDown, reader, writerVars, dataVars, l0, hot,
                 bgError, bgScheduled, crashed, manualVars, histVars>>

\* The end of BackgroundCompaction for the manual compaction it started with:
\* it reads manual_compaction_ again.
ManualEnds(ok) ==
  IF ~bg.isManual THEN UNCHANGED <<manual, mdone, mleft, crashed>>
  ELSE IF manual = None
  THEN crashed' = TRUE /\ UNCHANGED <<manual, mdone, mleft>>
  ELSE /\ mdone' = [mdone EXCEPT ![manual] = ~ok]
       /\ mleft' = [mleft EXCEPT ![manual] = IF ok THEN @ - 1 ELSE @]
       /\ manual' = None
       /\ UNCHANGED crashed

CompactionFails ==
  /\ mutex = None
  /\ \/ bg.pc = "compact" /\ ("compact" \in Faults \/ shuttingDown # "no")
     \/ bg.pc = "install" /\ "manifest" \in Faults
  /\ bgError' = TRUE
  /\ ManualEnds(FALSE)
  /\ UNCHANGED <<mutex, shuttingDown, reader, writerVars, dataVars, l0, hot, mpc,
                 histVars>>
  /\ BackgroundCallEnds

CompactionInstalled ==
  /\ mutex = None /\ bg.pc = "install"
  /\ l0' = l0 - bg.inputs
  /\ NewVersion
  /\ ManualEnds(TRUE)
  /\ UNCHANGED <<mutex, shuttingDown, writerVars, dataVars, bgError, mpc, histVars>>
  /\ BackgroundCallEnds

-----------------------------------------------------------------------------
(* DBImpl::TEST_CompactRange, once per compactor.                          *)

\* Faulty variant of ManualGoesOn: manual.done is not looked at.
ManualGoesOnWhenDone(m) == mdone[m] \in BOOLEAN /\ shuttingDown = "no" /\ ~bgError

ManualGoesOn(m) == ~mdone[m] /\ shuttingDown = "no" /\ ~bgError

CompactRange(m) ==
  /\ mpc[m] = "idle" /\ shuttingDown = "no"
  /\ \E n \in 0..MaxRounds : mleft' = [mleft EXCEPT ![m] = n]
  /\ mpc' = [mpc EXCEPT ![m] = "loop"]
  /\ UNCHANGED <<mutex, bgWait, shuttingDown, reader, writerVars, dataVars, bgVars,
                 manual, mdone, histVars>>

ManualAtLoop(m) == mutex = None /\ mpc[m] = "loop" /\ m \notin bgWait

\* Nobody's manual compaction runs: claim it, schedule it and wait.
ManualClaims(m) ==
  /\ ManualAtLoop(m)
  /\ ManualGoesOn(m) /\ manual = None
  /\ manual' = m
  /\ bgWait' = bgWait \cup {m}
  /\ UNCHANGED <<mutex, shuttingDown, reader, writerVars, dataVars, l0, hot, bgError,
                 bg, crashed, mpc, mdone, mleft, histVars>>
  /\ MaybeScheduleCompaction

ManualWaits(m) ==
  /\ ManualAtLoop(m)
  /\ ManualGoesOn(m) /\ manual # None
  /\ bgWait' = bgWait \cup {m}
  /\ UNCHANGED <<mutex, shuttingDown, reader, writerVars, dataVars, bgVars,
                 manualVars, histVars>>

\* Faulty variant of ManualReturns: cancels whatever manual compaction is there.
ManualReturnsCancels(m) ==
  /\ ManualAtLoop(m)
  /\ ~ManualGoesOn(m)
  /\ mpc' = [mpc EXCEPT ![m] = "end"]
  /\ manual' = None
  /\ UNCHANGED <<mutex, bgWait, shuttingDown, reader, writerVars, dataVars, bgVars,
                 mdone, mleft, histVars>>

\* The loop ends; a compaction aborted early is cancelled.
ManualReturns(m) ==
  /\ ManualAtLoop(m)
  /\ ~ManualGoesOn(m)
  /\ mpc' = [mpc EXCEPT ![m] = "end"]
  /\ manual' = IF manual = m THEN None ELSE manual
  /\ UNCHANGED <<mutex, bgWait, shuttingDown, reader, writerVars, dataVars, bgVars,
                 mdone, mleft, histVars>>

-----------------------------------------------------------------------------
(* DBImpl::Get.                                                            *)

\* Capture the snapshot, the memtables and the version under the mutex.
GetStarts(r) ==
  /\ mutex = None /\ reader[r] = None /\ shuttingDown = "no"
  /\ reader' = [reader EXCEPT ![r] =
       [snapshot |-> lastSequence, mem |-> mem, imm |-> imm, tables |-> tables,
        current |-> TRUE, expected |-> Visible]]
  /\ UNCHANGED <<mutex, bgWait, shuttingDown, writerVars, dataVars, bgVars,
                 manualVars, histVars>>

\* Drop the references.  A read that searched tables may have used up the seek
\* budget of a file of the version it captured (UpdateStats).
GetEnds(r) ==
  /\ mutex = None /\ reader[r] # None
  /\ reader' = [reader EXCEPT ![r] = None]
  /\ UNCHANGED <<mutex, bgWait, shuttingDown, writerVars, dataVars, l0, bgError, bg,
                 crashed, manualVars, histVars>>
  /\ \/ UNCHANGED <<hot, bgScheduled>>
     \/ hot' = (hot \/ reader[r].current) /\ MaybeScheduleCompaction

\* Faulty variant of View: imm_ is read after the mutex was given up.
ViewCurrentImm(r) ==
  {e \in reader[r].tables \cup memtable[reader[r].mem]
         \cup (IF imm = 0 THEN {} ELSE memtable[imm])
     : e.seq <= reader[r].snapshot}

\* What Get(r) finds if it looks now: the captured memtables are shared with
\* the writers, the captured version never changes.
View(r) ==
  {e \in reader[r].tables \cup memtable[reader[r].mem]
         \cup (IF reader[r].imm = 0 THEN {} ELSE memtable[reader[r].imm])
     : e.seq <= reader[r].snapshot}

-----------------------------------------------------------------------------
(* DBImpl::~DBImpl: no other thread uses the database any more.            *)

Close ==
  /\ mutex = None /\ shuttingDown = "no"
  /\ \A w \in Writers : pc[w] = "idle"
  /\ \A m \in Compactors : mpc[m] # "loop"
  /\ \A r \in Readers : reader[r] = None
  /\ IF bgScheduled
     THEN shuttingDown' = "waiting" /\ bgWait' = bgWait \cup {"closer"}
     ELSE shuttingDown' = "closed" /\ UNCHANGED bgWait
  /\ UNCHANGED <<mutex, reader, writerVars, dataVars, bgVars, manualVars, histVars>>

CloseWakes ==
  /\ mutex = None /\ shuttingDown = "waiting" /\ "closer" \notin bgWait
  /\ IF bgScheduled
     THEN bgWait' = bgWait \cup {"closer"} /\ UNCHANGED shuttingDown
     ELSE shuttingDown' = "closed" /\ UNCHANGED bgWait
  /\ UNCHANGED <<mutex, reader, writerVars, dataVars, bgVars, manualVars, histVars>>

\* Nothing is left to do.
Closed == shuttingDown = "closed" /\ UNCHANGED vars

-----------------------------------------------------------------------------
WriterStep(w) ==
  \/ WakeFront(w) \/ WakeDone(w)
  \/ RoomError(w) \/ RoomDelay(w) \/ DelayOver(w) \/ RoomWait(w) \/ RoomWake(w)
  \/ RoomSwitch(w) \/ RoomSwitchFails(w) \/ RoomNull(w) \/ BuildBatchGroup(w)
  \/ AddRecord(w) \/ AddRecordFails(w) \/ Sync(w) \/ SyncFails(w)
  \/ InsertInto(w) \/ Publish(w) \/ Pop(w)
  \/ AwaitImm(w) \/ CompactMemTableReturns(w)

BackgroundStep ==
  \/ BgNothing \/ FlushStarts \/ FlushBuilt \/ FlushFails \/ FlushApplied
  \/ CompactionStarts \/ ManualEmpty \/ CompactionWritten \/ CompactionFails
  \/ CompactionInstalled

CompactorStep(m) == ManualClaims(m) \/ ManualWaits(m) \/ ManualReturns(m)

Next ==
  /\ ~crashed
  /\ \/ \E w \in Writers : (\E c \in Calls : Write(w, c)) \/ WriterStep(w)
     \/ BackgroundStep
     \/ \E m \in Compactors : CompactRange(m) \/ CompactorStep(m)
     \/ \E r \in Readers : GetStarts(r) \/ GetEnds(r)
     \/ Close \/ CloseWakes
     \/ Closed

Spec == Init /\ [][Next]_vars

\* Every thread that can run eventually runs; a client need not call again.  A
\* level 0 over its trigger does not wait for ever for the levels below it: every
\* compaction of such a level takes bytes out of it, and only compactions of
\* level 0 and flushes bring new ones in.
CompactsLevel0 == CompactionStarts /\ bg'.inputs > 0
Fairness ==
  /\ SF_vars(~crashed /\ CompactsLevel0)
  /\ \A w \in Writers : WF_vars(~crashed /\ WriterStep(w))
  /\ WF_vars(~crashed /\ BackgroundStep)
  /\ \A m \in Compactors : WF_vars(~crashed /\ CompactorStep(m))
  /\ WF_vars(~crashed /\ CloseWakes)

FairSpec == Spec /\ Fairness

-----------------------------------------------------------------------------
Entries == [seq : Nat, op : Nat]
CallRecords == [id : Nat, count : Nat, sync : BOOLEAN, null : BOOLEAN]
WriterPcs == {"idle", "queued", "room", "delay", "bgwait", "log", "sync", "insert",
              "relock", "pop", "immwait"}
BgPcs == {"idle", "table", "apply", "compact", "ntable", "napply", "install"}
LeaderPcs == {"room", "delay", "bgwait", "log", "sync", "insert", "relock", "pop"}

GroupRecords ==
  [last : Writers \cup {None}, entries : SUBSET Entries, lastSeq : Nat]
LocRecords == [force : BOOLEAN, delay : BOOLEAN, status : {"ok", "error", "syncerror"},
               group : GroupRecords]
BgRecords == [pc : BgPcs, inputs : Nat, isManual : BOOLEAN, keys : Nat, log : Nat,
              new : Nat]

WriterTypes ==
  /\ mutex \in Writers \cup {None}
  /\ writers \in Seq(Writers)
  /\ pc \in [Writers -> WriterPcs]
  /\ call \in [Writers -> CallRecords]
  /\ loc \in [Writers -> LocRecords]
  /\ done \in [Writers -> BOOLEAN]
  /\ cvWait \subseteq Writers
  /\ ncalls \in Nat /\ acked \subseteq CallRecords /\ failed \subseteq CallRecords

DataTypes ==
  /\ lastSequence \in Nat
  /\ mem \in Nat \ {0} /\ imm \in Nat /\ logNumber \in Nat
  /\ DOMAIN logs \subseteq Nat /\ \A n \in DOMAIN logs : logs[n] \subseteq Entries
  /\ DOMAIN memtable \subseteq Nat
  /\ \A n \in DOMAIN memtable : memtable[n] \subseteq Entries
  /\ tables \subseteq Entries /\ synced \subseteq Entries

BgTypes ==
  /\ bgWait \subseteq Writers \cup Compactors \cup {"closer"}
  /\ l0 \in Nat /\ hot \in BOOLEAN /\ bgError \in BOOLEAN /\ bgScheduled \in BOOLEAN
  /\ shuttingDown \in {"no", "waiting", "closed"}
  /\ bg \in BgRecords
  /\ manual \in Compactors \cup {None}
  /\ mpc \in [Compactors -> {"idle", "loop", "end"}]
  /\ mdone \in [Compactors -> BOOLEAN] /\ mleft \in [Compactors -> Nat]
  /\ crashed \in BOOLEAN

\* The type of the state: of the queue and its writers, of the data and of the
\* background work.
TypeOK == WriterTypes /\ DataTypes /\ BgTypes

\* "&w is currently responsible for logging and protects against concurrent
\* loggers and concurrent writes into mem_" (Write): at most one thread is past
\* the wait for its turn, it is the front of writers_, and everybody queued
\* behind it is asleep on its own condition variable.
OneLeader ==
  \A w \in Writers :
    pc[w] \in LeaderPcs => /\ writers # <<>> /\ Head(writers) = w
                           /\ \A x \in Writers : pc[x] \in LeaderPcs => x = w
                           /\ \A i \in 2..Len(writers) : writers[i] \in cvWait

\* No wakeup of Write is lost: a writer asleep on its condition variable is
\* neither done nor at the front of the queue, so somebody will still signal it.
NoLostWakeup ==
  \A w \in cvWait : /\ pc[w] = "queued" /\ ~done[w]
                    /\ writers # <<>> /\ Head(writers) # w

\* The loop at the end of Write that pops writers_ until it meets last_writer
\* meets it before the queue runs empty, and every writer it tells is asleep in
\* Write: last_writer, chosen before the mutex was released, is never stale.
PopStops ==
  \A w \in Writers : pc[w] \in LeaderPcs =>
    \E k \in 1..Len(writers) :
      writers[k] = loc[w].group.last /\ \A i \in 2..k : pc[writers[i]] = "queued"

\* No wakeup of bg_cv_ is lost: as long as a thread sleeps on it, a background
\* call is scheduled or running, and every such call ends with SignalAll.
BgWaitersServed == bgWait # {} => bgScheduled

\* Sequence numbers are never reused: not after a failed AddRecord or Sync
\* (the record may be in the log), not across a log switch or a flush.
Written == tables \cup (UNION {logs[n] : n \in DOMAIN logs})
                  \cup (UNION {memtable[n] : n \in DOMAIN memtable})
SequencesUnique == \A e, f \in Written : e.seq = f.seq => e = f

\* DBImpl::Write implements the atomic, ordered batches of AtomicBatches: the
\* store is what a reader can see, a call is pending until Write returns.
InWrite == {call[w] : w \in {x \in Writers : pc[x] \notin {"idle", "immwait"}}}
Batches == INSTANCE AtomicBatches WITH store <- Visible, pending <- InWrite
AtomicOrderedBatches == Batches!BatchSpec

\* Write-ahead logging: the log files that recovery would read (those not older
\* than LogNumber) together with the tables hold every entry a reader can see,
\* so CompactMemTable never advances LogNumber past an unflushed memtable.
Recoverable ==
  Visible \subseteq tables \cup UNION {logs[n] : n \in {m \in DOMAIN logs : m >= logNumber}}

\* A call with options.sync that returned OK has its entries on stable storage
\* ("Do not include a sync write into a batch handled by a non-sync write").
SyncedAcked ==
  \A c \in acked : c.sync => \A e \in Written : e.op = c.id => e \in synced \cup tables

\* A Get sees exactly the database of the moment it took the mutex, whatever is
\* inserted, switched, flushed or compacted before it looks.
SnapshotStable == \A r \in Readers : reader[r] # None => View(r) = reader[r].expected

\* BackgroundCompaction ends a manual compaction with the object it started
\* with: manual_compaction_ is not NULL when it is dereferenced.
ManualNotFreed == ~crashed

\* bg_error_ is final ("we force the DB into a mode where all future writes
\* fail", Write): once it is set and the group being written is through, no further
\* group starts and what readers can see never changes, whatever is flushed.
InFlight == \E w \in Writers : pc[w] \in {"log", "sync", "insert", "relock"}
ReadOnlyAfterError ==
  [][bgError => bgError' /\ (~InFlight => ~InFlight' /\ Visible' = Visible)]_vars

\* Every call of Write (and of TEST_CompactMemTable) returns.
CallsReturn == \A w \in Writers : pc[w] # "idle" ~> pc[w] = "idle"

\* Every manual compaction returns.
ManualReturnsEventually == \A m \in Compactors : mpc[m] = "loop" ~> mpc[m] = "end"

\* The destructor returns.
CloseReturns == shuttingDown = "waiting" ~> shuttingDown = "closed"

=============================================================================
