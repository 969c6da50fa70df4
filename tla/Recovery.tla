------------------------------- MODULE Recovery -------------------------------
(***************************************************************************)
(* What survives a crash: the write-ahead logs, the tables, the MANIFEST   *)
(* (descriptor) files and CURRENT, the operations of an open database that *)
(* change them, and DB::Open, which rebuilds the database from them.  A    *)
(* process crash may happen between any two steps, of Open too; a power    *)
(* failure also loses what no fsync covered.                               *)
(*                                                                         *)
(* A write batch is one log record [id, seq]: `id' tells batches apart,    *)
(* `seq' is the sequence number it was given.  A table or a memtable is a  *)
(* set of batches; levels and keys are the subject of Lsm.  The files fit  *)
(* one block of the log format, so a reader that meets a half-written      *)
(* record drops all that follows it (log_reader.cc 260-299).               *)
(*                                                                         *)
(* The file system (external) applies directory operations in order, and   *)
(* an fsync or fdatasync of any file makes all earlier ones durable, as    *)
(* journalling file systems do; file data is durable only when that file   *)
(* is synced, and a prefix of the rest may survive.                        *)
(***************************************************************************)
EXTENDS Naturals, Sequences, FiniteSets, TLC, SequencesExt

CONSTANT Modes   \* what may happen in a behaviour: see mode

ASSUME RecoveryAssumption ==
  Modes \subseteq
    [batches : Nat,        \* bound: batches given to Write
     failures : Nat,       \* bound: crashes, power failures and I/O errors
     compactions : Nat,    \* bound: table compactions
     iterators : BOOLEAN,  \* a reader may hold a version
     reuse_logs : BOOLEAN, \* options_.reuse_logs
     power : BOOLEAN,      \* the machine may fail, not only the process
     newdb : BOOLEAN,      \* it may do so before the first Open has switched MANIFESTs
     torn : BOOLEAN,       \* an interrupted append may leave a part of its record
     syncs : SUBSET BOOLEAN,               \* the values of WriteOptions::sync the writers use
     faults : SUBSET {"log", "manifest"}]  \* appends that may return an error

VARIABLES
  disk,      \* [dirs: directory states since the last fsync, content, synced]
  db,        \* phase of the process: "closed", a phase of DB::Open, or "open"
  vs,        \* VersionSet: [tables, log, next, manifest, last, descriptor]
  logfile,   \* logfile_number_, 0 when there is none
  mem, imm,  \* batches of mem_ and imm_ (imm_ is NULL when empty)
  writer,    \* the front writer: [pc, rec, sync]
  flush,     \* CompactMemTable: [pc, table]
  comp,      \* a table compaction: [pc, inputs, table]
  edit,      \* the edit LogAndApply is writing
  pending,   \* pending_outputs_
  pinned,    \* the version an iterator holds
  bgError,   \* bg_error_ is set
  boot,      \* locals of Open: [replay, add, save]
  acked,     \* batches whose Write returned OK and no power failure excused
  must,      \* batches whose Write with sync = true returned OK
  batches, failures, compactions, \* counters for the bounds
  mode       \* what may happen in this behaviour

procVars == <<db, vs, logfile, mem, imm, writer, flush, comp, edit, pending, pinned, bgError, boot>>
openVars == <<writer, flush, comp, edit, pending, pinned, bgError, acked, must, batches, failures, compactions>>
vars == <<disk, procVars, acked, must, batches, failures, compactions, mode>>

Log(n) == <<"log", n>>
Table(n) == <<"table", n>>
Manifest(n) == <<"manifest", n>>

(***************************************************************************)
(* The file system.  A directory state is [files, current]: the names in   *)
(* the directory and the MANIFEST number that CURRENT holds (0: no CURRENT *)
(* file).  Each operator maps a disk to a disk.                            *)
(***************************************************************************)
Torn == [torn |-> TRUE]
Dir == Last(disk.dirs)

ChangeDir(k, d) ==
  [k EXCEPT !.dirs = IF mode.power THEN Append(@, d) ELSE <<d>>]

\* Forget the files that are in no directory state any more.
Prune(k) ==
  LET names == UNION {d.files : d \in Range(k.dirs)}
  IN  [k EXCEPT !.content = Restrict(@, names), !.synced = Restrict(@, names)]

\* NewWritableFile: creates the file, or truncates the one of that name.
Create(k, f) ==
  ChangeDir([k EXCEPT !.content = (f :> <<>>) @@ @, !.synced = (f :> 0) @@ @],
            [Last(k.dirs) EXCEPT !.files = @ \cup {f}])

AppendTo(k, f, rec) == [k EXCEPT !.content[f] = Append(@, rec)]

\* What is synced matters to a power failure only.
Sync(k, f) ==
  IF mode.power THEN Prune([k EXCEPT !.synced[f] = Len(k.content[f]), !.dirs = <<Last(@)>>]) ELSE k

Delete(k, fs) ==
  IF fs = {} THEN k ELSE Prune(ChangeDir(k, [Last(k.dirs) EXCEPT !.files = @ \ fs]))

\* A temporary file is written and synced, then renamed to CURRENT.
SetCurrentFile(k, n) ==
  ChangeDir([k EXCEPT !.dirs = <<Last(@)>>], [Last(k.dirs) EXCEPT !.current = n])

\* What log::Reader returns of a file, and whether it reports a corruption: a
\* half-written record at the end of the file is taken for the end of the file.
Readable(s) ==
  LET torn == {i \in DOMAIN s : s[i] = Torn}
  IN  IF torn = {} THEN s ELSE SubSeq(s, 1, Min(torn) - 1)

Corrupted(s) == \E i \in DOMAIN s : s[i] = Torn /\ i < Len(s)

TableContents(t) == UNION Range(disk.content[Table(t)])

(***************************************************************************)
(* The process before Open, and after a crash.                             *)
(***************************************************************************)
NoVersion == [tables |-> {}, log |-> 0, next |-> 2, manifest |-> 0, last |-> 0, descriptor |-> FALSE]
Idle == [pc |-> "idle"]
NoEdit == [pc |-> "none"]
NoBoot == [replay |-> <<>>, add |-> {}, save |-> FALSE]

Init ==
  /\ disk = [dirs |-> <<[files |-> {}, current |-> 0]>>, content |-> <<>>, synced |-> <<>>]
  /\ db = "closed" /\ vs = NoVersion /\ logfile = 0 /\ mem = {} /\ imm = {}
  /\ writer = Idle /\ flush = Idle /\ comp = Idle /\ edit = NoEdit
  /\ pending = {} /\ pinned = {} /\ bgError = FALSE /\ boot = NoBoot
  /\ acked = {} /\ must = {} /\ batches = 0 /\ failures = 0 /\ compactions = 0
  /\ mode \in Modes

ProcessEnds ==
  /\ db' = "closed" /\ vs' = NoVersion /\ logfile' = 0 /\ mem' = {} /\ imm' = {}
  /\ writer' = Idle /\ flush' = Idle /\ comp' = Idle /\ edit' = NoEdit
  /\ pending' = {} /\ pinned' = {} /\ bgError' = FALSE /\ boot' = NoBoot

(***************************************************************************)
(* DB::Open.                                                               *)
(***************************************************************************)
OpenDB ==
  /\ db = "closed"
  /\ db' = IF Dir.current = 0 THEN "newdb" ELSE "recover"
  /\ UNCHANGED <<disk, vs, logfile, mem, imm, boot, openVars>>

\* NewDB closes the first MANIFEST without syncing it.
NewDBManifest ==
  /\ db = "newdb" /\ db' = "newcurrent"
  /\ disk' = AppendTo(Create(disk, Manifest(1)), Manifest(1),
                      [add |-> {}, del |-> {}, log |-> 0, next |-> 2, last |-> 0])
  /\ UNCHANGED <<vs, logfile, mem, imm, boot, openVars>>

NewDBCurrent ==
  /\ db = "newcurrent" /\ db' = "recover"
  /\ disk' = SetCurrentFile(disk, 1)
  /\ UNCHANGED <<vs, logfile, mem, imm, boot, openVars>>

\* Builder::Apply over the edits of a MANIFEST.
Applied(edits) == FoldLeft(LAMBDA v, e : (v \ e.del) \cup e.add, {}, edits)

\* The edits that carry the numbers; a snapshot record does not.
Complete(edits) == SelectSeq(edits, LAMBDA e : "next" \in DOMAIN e)

\* VersionSet::Recover succeeds and no live file is missing.  The check for missing
\* files goes by number alone.
CanRecover ==
  LET m == Manifest(Dir.current)
      edits == Readable(disk.content[m])
  IN  /\ m \in Dir.files
      /\ ~Corrupted(disk.content[m])
      /\ Complete(edits) # <<>>
      /\ Applied(edits) \subseteq {f[2] : f \in Dir.files}

Max2(a, b) == IF a < b THEN b ELSE a

RecoverVersions ==
  /\ db = "recover" /\ CanRecover
  /\ LET edits == Readable(disk.content[Manifest(Dir.current)])
         e == Last(Complete(edits))
     IN  \E reuse \in {FALSE, mode.reuse_logs} :
           /\ vs' = [tables |-> Applied(edits), log |-> e.log, next |-> e.next + 1,
                     manifest |-> IF reuse THEN Dir.current ELSE e.next,
                     last |-> e.last, descriptor |-> reuse]
           /\ boot' = [add |-> {}, save |-> ~reuse,
                       replay |-> SetToSortSeq({f[2] : f \in {g \in Dir.files : g[1] = "log" /\ g[2] >= e.log}},
                                               LAMBDA a, b : a < b)]
  /\ db' = "replay"
  /\ UNCHANGED <<disk, logfile, mem, imm, openVars>>

\* Faulty variant of MarkFileNumberUsed: the number stays available.
NumberStaysFree(next, n) == next

MarkFileNumberUsed(next, n) == Max2(next, n + 1)

\* max_sequence: LastSequence() after the log is read.
MaxSequence(recs) == Max({vs.last} \cup {r.seq : r \in recs})

\* RecoverLogFile.  The last log goes on to be used if reuse_logs is set and no memtable
\* of it overflowed; else what was read becomes a table (WriteLevel0Table).
RecoverLogFile ==
  /\ db = "replay" /\ boot.replay # <<>>
  /\ LET n == Head(boot.replay)
         recs == Range(Readable(disk.content[Log(n)]))
         t == vs.next
         last == MaxSequence(recs)
     IN  \/ /\ mode.reuse_logs /\ Len(boot.replay) = 1
            /\ logfile' = n /\ mem' = recs
            /\ vs' = [vs EXCEPT !.next = MarkFileNumberUsed(@, n), !.last = last]
            /\ boot' = [boot EXCEPT !.replay = Tail(@)]
            /\ UNCHANGED disk
         \/ /\ recs # {}
            /\ disk' = Sync(AppendTo(Create(disk, Table(t)), Table(t), recs), Table(t))
            /\ vs' = [vs EXCEPT !.next = MarkFileNumberUsed(@ + 1, n), !.last = last]
            /\ boot' = [replay |-> Tail(boot.replay), add |-> boot.add \cup {t}, save |-> TRUE]
            /\ UNCHANGED <<logfile, mem>>
         \/ /\ recs = {} /\ ~(mode.reuse_logs /\ Len(boot.replay) = 1)
            /\ vs' = [vs EXCEPT !.next = MarkFileNumberUsed(@, n)]
            /\ boot' = [boot EXCEPT !.replay = Tail(@)]
            /\ UNCHANGED <<disk, logfile, mem>>
  /\ UNCHANGED <<db, imm, openVars>>

\* The end of Recover and the new log file of DB::Open.
NewLogFile ==
  /\ db = "replay" /\ boot.replay = <<>>
  /\ IF logfile = 0
       THEN /\ disk' = Create(disk, Log(vs.next))
            /\ logfile' = vs.next
            /\ vs' = [vs EXCEPT !.next = @ + 1]
       ELSE UNCHANGED <<disk, logfile, vs>>
  /\ db' = IF boot.save THEN "descriptor" ELSE "gc"
  /\ UNCHANGED <<mem, imm, boot, openVars>>

\* The edit LogAndApply completes and writes.
Edit(add, del, log) == [add |-> add, del |-> del, log |-> log, next |-> vs.next, last |-> vs.last]

\* LogAndApply of DB::Open writes a new MANIFEST, beginning with WriteSnapshot, unless
\* Recover has reused the old one.
WriteDescriptor ==
  /\ db = "descriptor" /\ db' = "sync"
  /\ LET m == Manifest(vs.manifest)
         snapshot == [add |-> vs.tables, del |-> {}]
         base == IF vs.descriptor THEN disk ELSE AppendTo(Create(disk, m), m, snapshot)
     IN  disk' = AppendTo(base, m, Edit(boot.add, {}, logfile))
  /\ UNCHANGED <<vs, logfile, mem, imm, boot, openVars>>

\* LogAndApply installs the version once the MANIFEST is durable.
Install == vs' = [vs EXCEPT !.tables = @ \cup boot.add, !.log = logfile, !.descriptor = TRUE]

\* Faulty variant of DurableEdit: the MANIFEST is not synced.
UnsyncedEdit == disk

\* LogAndApply syncs the MANIFEST once the edit is in it.
DurableEdit == Sync(disk, Manifest(vs.manifest))

SyncDescriptor ==
  /\ db = "sync"
  /\ disk' = DurableEdit
  /\ IF vs.descriptor THEN db' = "gc" /\ Install
                      ELSE db' = "current" /\ UNCHANGED vs
  /\ UNCHANGED <<logfile, mem, imm, boot, openVars>>

SetCurrent ==
  /\ db = "current" /\ db' = "gc"
  /\ disk' = SetCurrentFile(disk, vs.manifest)
  /\ Install
  /\ UNCHANGED <<logfile, mem, imm, boot, openVars>>

\* Faulty variant of LiveTables: a table being written is not protected.
LiveTablesInstalled(tables, outputs) == tables \cup pinned

\* pending_outputs_ and the tables of every version that is still referenced.
LiveTables(tables, outputs) == outputs \cup tables \cup pinned

OldLog(n, v) == n < v.log

OldManifest(n, v) == n < v.manifest

\* The files DeleteObsoleteFiles removes.
ObsoleteFiles(v, outputs) ==
  {f \in Dir.files : CASE f[1] = "log" -> OldLog(f[2], v)
                       [] f[1] = "manifest" -> OldManifest(f[2], v)
                       [] f[1] = "table" -> f[2] \notin LiveTables(v.tables, outputs)}

\* Faulty variant of MayDelete: files are collected after a background error too.
AlwaysDelete(error) == TRUE

MayDelete(error) == ~error

\* DeleteObsoleteFiles with the version v and pending_outputs_ as given.  The result of a
\* deletion is ignored, and a crash may come between two of them: any subset may go.
DeleteObsoleteFiles(k, v, outputs, error) ==
  IF MayDelete(error)
    THEN {Delete(k, fs) : fs \in SUBSET ObsoleteFiles(v, outputs)}
    ELSE {k}

FinishOpen ==
  /\ db = "gc" /\ db' = "open"
  /\ disk' \in DeleteObsoleteFiles(disk, vs, pending, FALSE)
  /\ boot' = NoBoot
  \* From here on the caller sees what was recovered.
  /\ acked' = acked \cup {r.id : r \in mem \cup UNION {TableContents(t) : t \in vs.tables}}
  /\ UNCHANGED <<vs, logfile, mem, imm, writer, flush, comp, edit, pending, pinned, bgError,
                 must, batches, failures, compactions>>

(***************************************************************************)
(* An open database: DBImpl::Write, one group at a time.                   *)
(***************************************************************************)
WriteStarts(sync) ==
  /\ db = "open" /\ writer.pc = "idle" /\ ~bgError /\ batches < mode.batches
  /\ batches' = batches + 1
  /\ writer' = [pc |-> "log", rec |-> [id |-> batches + 1, seq |-> vs.last + 1], sync |-> sync]
  /\ UNCHANGED <<disk, db, vs, logfile, mem, imm, flush, comp, edit, pending, pinned, bgError,
                 boot, acked, must, failures, compactions>>

WriterOnly ==
  UNCHANGED <<db, logfile, imm, flush, comp, edit, pending, pinned, bgError, boot, batches,
              compactions>>

\* AddRecord: the record reaches the operating system.
AddRecord ==
  /\ writer.pc = "log"
  /\ disk' = AppendTo(disk, Log(logfile), writer.rec)
  /\ writer' = [writer EXCEPT !.pc = IF writer.sync THEN "sync" ELSE "insert"]
  /\ WriterOnly /\ UNCHANGED <<vs, mem, acked, must, failures>>

\* A crash or an I/O error, while the bound allows one.
Failure == failures < mode.failures /\ failures' = failures + 1

\* Faulty variant of SequenceAfterError: a failed write gives its sequence number back.
SequenceGivenBack == vs.last

SequenceAfterError == writer.rec.seq

\* What an append that returned an error leaves: nothing, a part of the record, or all of it.
AfterError(f, rec) ==
  {disk, AppendTo(disk, f, rec)} \cup (IF mode.torn THEN {AppendTo(disk, f, Torn)} ELSE {})

\* AddRecord returns an error.  The sequence number is used up, and the log stays in use.
AddRecordFails ==
  /\ "log" \in mode.faults /\ writer.pc = "log" /\ Failure
  /\ disk' \in AfterError(Log(logfile), writer.rec)
  /\ writer' = Idle
  /\ vs' = [vs EXCEPT !.last = SequenceAfterError]
  /\ WriterOnly /\ UNCHANGED <<mem, acked, must>>

\* Faulty variant of DurableLog: the log is flushed to the operating system only.
FlushedLog == disk

DurableLog == Sync(disk, Log(logfile))

SyncLog ==
  /\ writer.pc = "sync"
  /\ disk' = DurableLog
  /\ writer' = [writer EXCEPT !.pc = "insert"]
  /\ WriterOnly /\ UNCHANGED <<vs, mem, acked, must, failures>>

\* The batch goes into the memtable, the sequence is published, Write returns OK.
WriteReturns ==
  /\ writer.pc = "insert"
  /\ mem' = mem \cup {writer.rec}
  /\ vs' = [vs EXCEPT !.last = writer.rec.seq]
  /\ acked' = acked \cup {writer.rec.id}
  /\ must' = IF writer.sync THEN must \cup {writer.rec.id} ELSE must
  /\ writer' = Idle
  /\ WriterOnly /\ UNCHANGED <<disk, failures>>

\* MakeRoomForWrite switches to a new memtable and log; the old log is closed, not synced.
SwitchMemTable ==
  /\ db = "open" /\ writer.pc = "idle" /\ ~bgError /\ imm = {} /\ mem # {}
  /\ disk' = Create(disk, Log(vs.next))
  /\ logfile' = vs.next
  /\ vs' = [vs EXCEPT !.next = @ + 1]
  /\ imm' = mem /\ mem' = {}
  /\ UNCHANGED <<db, writer, flush, comp, edit, pending, pinned, bgError, boot, acked, must,
                 batches, failures, compactions>>

(***************************************************************************)
(* The background thread: CompactMemTable, also from inside a compaction,  *)
(* and the compaction of tables.  Both end in LogAndApply.                 *)
(***************************************************************************)
BackgroundOnly ==
  UNCHANGED <<db, logfile, mem, writer, pinned, boot, acked, must, batches>>

\* WriteLevel0Table takes a number and opens the table.
FlushStarts ==
  /\ db = "open" /\ imm # {} /\ flush.pc = "idle"
  /\ comp.pc = "work" \/ (comp.pc = "idle" /\ ~bgError)
  /\ flush' = [pc |-> "build", table |-> vs.next]
  /\ pending' = pending \cup {vs.next}
  /\ disk' = Create(disk, Table(vs.next))
  /\ vs' = [vs EXCEPT !.next = @ + 1]
  /\ BackgroundOnly /\ UNCHANGED <<failures, imm, comp, edit, bgError, compactions>>

\* "Earlier logs no longer needed": the log of the current memtable.
EarliestLog == logfile

\* The table is synced and LogAndApply is called.
FlushBuilt ==
  /\ flush.pc = "build"
  /\ disk' = Sync(AppendTo(disk, Table(flush.table), imm), Table(flush.table))
  /\ pending' = pending \ {flush.table}
  /\ flush' = [flush EXCEPT !.pc = "apply"]
  /\ edit' = [pc |-> "append", rec |-> Edit({flush.table}, {}, EarliestLog)]
  /\ BackgroundOnly /\ UNCHANGED <<failures, vs, imm, comp, bgError, compactions>>

CompactionStarts ==
  /\ db = "open" /\ flush.pc = "idle" /\ comp.pc = "idle" /\ imm = {} /\ ~bgError
  /\ compactions < mode.compactions /\ compactions' = compactions + 1
  /\ \E inputs \in SUBSET vs.tables \ {{}} :
       comp' = [pc |-> "work", inputs |-> inputs, table |-> vs.next]
  /\ pending' = pending \cup {vs.next}
  /\ disk' = Create(disk, Table(vs.next))
  /\ vs' = [vs EXCEPT !.next = @ + 1]
  /\ BackgroundOnly /\ UNCHANGED <<failures, imm, flush, edit, bgError>>

\* CompactMemTable runs inside the loop of DoCompactionWork, on the same thread.
NoNestedFlush == flush.pc = "idle"

\* FinishCompactionOutputFile and InstallCompactionResults.
CompactionWritten ==
  /\ comp.pc = "work" /\ NoNestedFlush
  /\ disk' = Sync(AppendTo(disk, Table(comp.table), UNION {TableContents(t) : t \in comp.inputs}),
                  Table(comp.table))
  /\ comp' = [comp EXCEPT !.pc = "apply"]
  /\ edit' = [pc |-> "append", rec |-> Edit({comp.table}, comp.inputs, vs.log)]
  /\ BackgroundOnly /\ UNCHANGED <<failures, vs, imm, flush, pending, bgError, compactions>>

\* LogAndApply appends the edit to the MANIFEST ...
EditAppended ==
  /\ edit.pc = "append"
  /\ disk' = AppendTo(disk, Manifest(vs.manifest), edit.rec)
  /\ edit' = [edit EXCEPT !.pc = "sync"]
  /\ BackgroundOnly /\ UNCHANGED <<failures, vs, imm, flush, comp, pending, bgError, compactions>>

\* ... and syncs it.
EditSynced ==
  /\ edit.pc = "sync"
  /\ disk' = DurableEdit
  /\ edit' = [edit EXCEPT !.pc = "install"]
  /\ BackgroundOnly /\ UNCHANGED <<failures, vs, imm, flush, comp, pending, bgError, compactions>>

\* The version after the edit.
Installed == [vs EXCEPT !.tables = (@ \ edit.rec.del) \cup edit.rec.add, !.log = edit.rec.log]

\* The end of CompactMemTable after a successful LogAndApply.
FlushInstalled ==
  /\ edit.pc = "install" /\ flush.pc = "apply"
  /\ vs' = Installed
  /\ imm' = {} /\ flush' = Idle /\ edit' = NoEdit
  /\ disk' \in DeleteObsoleteFiles(disk, Installed, pending, bgError)
  /\ BackgroundOnly /\ UNCHANGED <<failures, comp, pending, bgError, compactions>>

\* The end of a compaction: CleanupCompaction, ReleaseInputs, DeleteObsoleteFiles.
CompactionInstalled ==
  /\ edit.pc = "install" /\ flush.pc = "idle"
  /\ vs' = Installed
  /\ comp' = Idle /\ edit' = NoEdit
  /\ pending' = pending \ {comp.table}
  /\ disk' \in DeleteObsoleteFiles(disk, Installed, pending', bgError)
  /\ BackgroundOnly /\ UNCHANGED <<failures, imm, flush, bgError, compactions>>

\* LogAndApply fails, in AddRecord or in Sync: bg_error_ is set.
EditFails ==
  /\ "manifest" \in mode.faults /\ edit.pc \in {"append", "sync"} /\ Failure
  /\ bgError' = TRUE /\ edit' = NoEdit
  /\ \E k \in IF edit.pc = "append" THEN AfterError(Manifest(vs.manifest), edit.rec) ELSE {disk} :
       IF flush.pc = "apply"
         THEN /\ flush' = Idle /\ disk' = k /\ UNCHANGED <<comp, pending>>
         ELSE /\ comp' = Idle /\ pending' = pending \ {comp.table}
              /\ disk' \in DeleteObsoleteFiles(k, vs, pending', bgError')
              /\ UNCHANGED flush
  /\ BackgroundOnly /\ UNCHANGED <<vs, imm, compactions>>

\* An iterator references the current version, and drops it.
Pin ==
  /\ mode.iterators /\ db = "open"
  /\ \/ pinned = {} /\ vs.tables # {} /\ pinned' = vs.tables
     \/ pinned # {} /\ pinned' = {}
  /\ UNCHANGED <<disk, db, vs, logfile, mem, imm, writer, flush, comp, edit, pending, bgError,
                 boot, acked, must, batches, failures, compactions>>

(***************************************************************************)
(* Crashes.                                                                *)
(***************************************************************************)
\* The file whose append the crash interrupts.
Interrupted ==
  (IF writer.pc = "log" THEN {Log(logfile)} ELSE {})
    \cup (IF edit.pc = "append" \/ (db = "descriptor" /\ vs.descriptor)
             THEN {Manifest(vs.manifest)} ELSE {})

\* The process dies, or the database is closed; what it wrote stays.
ProcessCrash ==
  /\ db # "closed" /\ Failure
  /\ \E torn \in IF mode.torn THEN SUBSET Interrupted ELSE {{}} :
       disk' = [disk EXCEPT !.content =
                  [f \in DOMAIN @ |-> IF f \in torn THEN Append(@[f], Torn) ELSE @[f]]]
  /\ ProcessEnds
  /\ UNCHANGED <<acked, must, batches, compactions>>

\* The machine fails: some directory state since the last fsync remains, and of each
\* file at least what was synced.
PowerFailure ==
  /\ mode.power /\ Failure
  /\ \E d \in Range(disk.dirs) :
       /\ d.current # 1 \/ mode.newdb
       /\ LET unsynced(f) == Len(disk.content[f]) - disk.synced[f]
              exposed == {f \in d.files : unsynced(f) > 0}
          IN  \E lost \in [exposed -> 0 .. Max({0} \cup {unsynced(f) : f \in exposed})] :
                LET len(f) == Len(disk.content[f]) - (IF f \in exposed THEN lost[f] ELSE 0)
                IN  /\ \A f \in exposed : lost[f] <= unsynced(f)
                    /\ disk' = [dirs |-> <<d>>, synced |-> [f \in d.files |-> len(f)],
                                content |-> [f \in d.files |-> SubSeq(disk.content[f], 1, len(f))]]
  /\ ProcessEnds
  /\ acked' = must
  /\ UNCHANGED <<must, batches, compactions>>

Step ==
  \/ OpenDB \/ NewDBManifest \/ NewDBCurrent \/ RecoverVersions \/ RecoverLogFile
  \/ NewLogFile \/ WriteDescriptor \/ SyncDescriptor \/ SetCurrent \/ FinishOpen
  \/ \E sync \in mode.syncs : WriteStarts(sync)
  \/ AddRecord \/ AddRecordFails \/ SyncLog \/ WriteReturns \/ SwitchMemTable
  \/ FlushStarts \/ FlushBuilt \/ CompactionStarts \/ CompactionWritten
  \/ EditAppended \/ EditSynced \/ EditFails \/ FlushInstalled \/ CompactionInstalled
  \/ Pin \/ ProcessCrash \/ PowerFailure

Next == Step /\ UNCHANGED mode

Spec == Init /\ [][Next]_vars

(***************************************************************************)
(* Properties.                                                             *)
(***************************************************************************)
Visible == mem \cup imm \cup UNION {TableContents(t) : t \in vs.tables}

\* Whatever crash came before, VersionSet::Recover and the missing-files check of
\* DBImpl::Recover accept what is on the disk: CURRENT names a MANIFEST that is there and
\* reads to its end, and the tables it lists are there.
Openable == db = "recover" => CanRecover

\* "if it is just the process that crashes, no writes will be lost even if sync==false", and
\* a machine failure loses none written with sync = true (options.h): an open database has
\* every batch it acknowledged, and loses no batch that an earlier Open recovered.
AckedSurvive == db = "open" => acked \subseteq {r.id : r \in Visible}

\* The sequence numbers after recovery are fresh: no two batches of the database have the
\* same, and none is above LastSequence, where reads would not see it and the next write
\* would take it again (Recover 378-380, LogAndApply 966).
SequencesFresh ==
  db = "open" =>
    \A r \in Visible : /\ r.seq <= vs.last
                       /\ \A q \in Visible : r.seq = q.seq => r.id = q.id

\* An open database has every batch it must have, each under a sequence number of its own.
RecoveredWhole == AckedSurvive /\ SequencesFresh

\* Every table of the current version and of the version an iterator holds is complete and
\* in the directory, so are the MANIFEST that CURRENT names and the log of each memtable:
\* DeleteObsoleteFiles, from a nested flush too, has left them, and no file was created over
\* them; and no number in use will be given out again (next_file_number_).
FilesIntact ==
  db = "open" =>
    /\ vs.tables \cup pinned \cup pending \cup {logfile} \subseteq 0 .. vs.next - 1
    /\ \A t \in vs.tables \cup pinned :
         Table(t) \in Dir.files /\ Len(disk.content[Table(t)]) = 1
    /\ Manifest(vs.manifest) \in Dir.files /\ Dir.current = vs.manifest
    /\ Log(logfile) \in Dir.files
    /\ imm # {} => \E n \in vs.log .. logfile :
                     Log(n) \in Dir.files /\ imm \subseteq Range(disk.content[Log(n)])

\* The files a crash at this moment would have to find: those the MANIFEST of CURRENT
\* names, and the logs it has not made obsolete.
Needed ==
  LET m == Manifest(Dir.current)
      edits == Readable(disk.content[m])
  IN  IF Dir.current = 0 THEN {}
      ELSE {m} \cup {Table(t) : t \in Applied(edits)}
             \cup {f \in Dir.files : f[1] = "log" /\ f[2] >= Last(Complete(edits)).log}

\* No step of the program removes, truncates or overwrites a file that the state on disk
\* needs: NewWritableFile gets fresh numbers (MarkFileNumberUsed), and deletions wait for
\* the MANIFEST.
NeededKept ==
  [][db' # "closed" /\ disk' # disk =>
       LET removed == Dir.files \ Dir'.files
       IN  /\ removed # {} => removed \cap Needed = {}
           /\ \A f \in Dir.files \ removed :
                ~IsPrefix(disk.content[f], disk'.content[f]) => f \notin Needed]_vars
===============================================================================
