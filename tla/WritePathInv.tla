---------------------------- MODULE WritePathInv ----------------------------
(***************************************************************************)
(* The invariants that the proofs about WritePath rest on.  Those that a   *)
(* property is proved from are checked on an instance like the properties  *)
(* themselves.                                                             *)
(***************************************************************************)
EXTENDS WritePath

-----------------------------------------------------------------------------
(* Types.                                                                  *)

\* A step of anybody but a writer, and a step of a writer.
OtherStep ==
  \/ BackgroundStep
  \/ \E m \in Compactors : CompactRange(m) \/ CompactorStep(m)
  \/ \E r \in Readers : GetStarts(r) \/ GetEnds(r)
  \/ Close \/ CloseWakes \/ Closed

CallStep == \E w \in Writers : (\E c \in Calls : Write(w, c)) \/ WriterStep(w)

\* What the types need besides themselves: the memtables and the current log
\* exist; a flush has an imm_, so nobody switches logs before it is over; a
\* compaction has its level-0 inputs, and a running manual one has work left.
DataInv ==
  /\ DataTypes
  /\ mem \in DOMAIN logs
  /\ mem \in DOMAIN memtable /\ (imm # 0 => imm \in DOMAIN memtable)
  /\ bg.pc \in {"table", "ntable", "apply", "napply"} => imm # 0
  /\ bg.pc \in {"apply", "napply"} => bg.log = mem

BgInv ==
  /\ BgTypes
  /\ bg.inputs <= l0
  /\ bg.pc \notin {"compact", "install", "ntable", "napply"} => ~bg.isManual
  /\ bg.isManual /\ manual # None => mleft[manual] > 0
  /\ bg.isManual /\ manual = None => bgError \/ shuttingDown # "no"
  /\ manual # None => mpc[manual] = "loop" /\ ~mdone[manual]

TypeInv == WriterTypes /\ DataInv /\ BgInv

-----------------------------------------------------------------------------
(* Waiting.                                                                *)

\* The queue holds exactly the writers that still need a leader, each once; the
\* front may be running, and exactly the others sleep.
Places == 1..Len(writers)

QueueInv ==
  /\ \A i, j \in Places : writers[i] = writers[j] => i = j
  /\ \A i \in Places : \/ pc[writers[i]] \in LeaderPcs
                       \/ pc[writers[i]] = "queued" /\ ~done[writers[i]]
  /\ \A w \in Writers : pc[w] \in LeaderPcs => Len(writers) > 0 /\ writers[1] = w
  /\ \A w \in Writers : pc[w] = "queued" /\ ~done[w] =>
       loc[w].group.last = w /\ \E i \in Places : writers[i] = w
  /\ cvWait = {writers[i] : i \in 2..Len(writers)}
  /\ \A w \in Writers : pc[w] \in LeaderPcs => \E k \in Places : writers[k] = loc[w].group.last

\* Pending work is scheduled, and so is a background call that runs or that
\* somebody waits for; a closing database has no clients left.
ScheduleInv ==
  /\ WorkPending => bgScheduled
  /\ bg.pc # "idle" => bgScheduled
  /\ bgWait # {} => bgScheduled
  /\ shuttingDown # "no" => /\ \A w \in Writers : pc[w] = "idle"
                            /\ \A m \in Compactors : mpc[m] # "loop"

\* The destructor begins after every manual compaction has returned, and finds
\* the background thread in one only if its owner left it because of an error.
CloseInv == shuttingDown # "no" => manual = None /\ (bg.isManual => bgError)

\* The failures that set bg_error_.
ErrorFaults == {"sync", "table", "manifest", "compact"}

\* Without them it is set only by the destructor's stop of a flush or of an
\* automatic compaction.
QuietInv ==
  /\ bgError => shuttingDown # "no" /\ ~bg.isManual
  /\ \A w \in Writers : loc[w].status # "syncerror"
  /\ ManualNotFreed

\* The object of a manual compaction is gone when BackgroundCompaction ends it
\* only if bg_error_ was set before.
FreedOnlyAfterError == [][~crashed /\ crashed' => bgError]_vars

-----------------------------------------------------------------------------
(* What the database holds.                                                *)

\* A memtable is covered by its log and that log is kept; the leader only
\* inserts what it has logged.
LogInv ==
  /\ memtable[mem] \subseteq logs[mem] /\ mem >= logNumber
  /\ imm # 0 => imm \in DOMAIN logs /\ memtable[imm] \subseteq logs[imm] /\ imm >= logNumber
  /\ \A w \in Writers : pc[w] \in {"sync", "insert"} => loc[w].group.entries \subseteq logs[mem]

\* What a group that is being written adds is newer than LastSequence, and
\* LastSequence will not go back; memtables are numbered up to mem_.
GroupInv ==
  /\ \A w \in Writers : pc[w] \in {"log", "sync", "insert"} =>
       \A e \in loc[w].group.entries : e.seq > lastSequence
  /\ \A w \in Writers : pc[w] \in {"log", "sync", "insert", "relock"} =>
       loc[w].group.lastSeq >= lastSequence
  /\ \A n \in DOMAIN memtable : n <= mem

ReaderRecords ==
  [snapshot : Nat, mem : Nat, imm : Nat, tables : SUBSET Entries, current : BOOLEAN,
   expected : SUBSET Entries]

\* What a reader captured still exists, is not newer than LastSequence, and
\* shows it what it showed at first.
ReadInv ==
  /\ reader \in [Readers -> ReaderRecords \cup {None}]
  /\ \A r \in Readers : reader[r] # None =>
       /\ reader[r] \in ReaderRecords
       /\ reader[r].snapshot <= lastSequence
       /\ reader[r].mem \in DOMAIN memtable
       /\ reader[r].imm # 0 => reader[r].imm \in DOMAIN memtable
       /\ View(r) = reader[r].expected

\* Where a leader has a group to write.
Flight == {"log", "sync", "insert", "relock"}

\* What was written is not newer than LastSequence or belongs to the group in
\* flight, whose entries are newer, differ in their numbers, and will be covered
\* by the LastSequence its leader publishes.
SeqInv ==
  /\ \A e \in Written : \/ e.seq <= lastSequence
                        \/ \E w \in Writers : pc[w] \in Flight /\ e \in loc[w].group.entries
  /\ \A w \in Writers : pc[w] \in Flight =>
       /\ \A e \in loc[w].group.entries :
            e.seq > lastSequence /\ e.seq <= loc[w].group.lastSeq
       /\ \A e, f \in loc[w].group.entries : e.seq = f.seq => e = f
  /\ SequencesUnique

-----------------------------------------------------------------------------
(* What a call was promised.                                               *)

\* The call of x has not returned from Write.
Active(x) == pc[x] \notin {"idle", "immwait"}

\* What a call was promised when it returns OK.
Durable(c) == c.sync => \A e \in Written : e.op = c.id => e \in synced \cup tables

\* Nothing of the call of x has been written.
Fresh(x) == \A e \in Written : e.op # call[x].id

\* The i-th writer of the queue belongs to the group of l: it is not behind
\* last_writer.
In(l, i) == \E k \in Places : i <= k /\ writers[k] = loc[l].group.last

\* Calls that run have numbers of their own, which nothing that returned has;
\* a group holds entries of its members only.
Ids ==
  /\ \A x \in Writers : Active(x) => call[x].id <= ncalls
  /\ \A c \in acked : c.id <= ncalls
  /\ \A e \in Written : e.op <= ncalls
  /\ \A x, y \in Writers : Active(x) /\ Active(y) /\ call[x].id = call[y].id => x = y
  /\ \A c \in acked, x \in Writers : Active(x) => c.id # call[x].id
  /\ \A l \in Writers : pc[l] \in Flight => \A e \in loc[l].group.entries :
       \E i \in Places : In(l, i) /\ e.op = call[writers[i]].id

\* Of the queue only the group in flight can have written anything.
Unwritten ==
  \A i \in Places :
    \/ Fresh(writers[i])
    \/ \E l \in Writers : pc[l] \in {"sync", "insert", "relock", "pop"} /\ In(l, i)

\* A sync write is only in the group of a sync leader, which syncs the log with
\* the whole group before it inserts any of it.
Joined ==
  \A l \in Writers, i \in Places : In(l, i) =>
    /\ pc[l] \in {"log", "sync"} => (call[writers[i]].sync => call[l].sync)
    /\ pc[l] = "sync" => \A e \in Written : e.op = call[writers[i]].id => e \in logs[mem]
    /\ pc[l] = "insert" /\ call[writers[i]].sync => loc[l].group.entries \subseteq synced

\* Whoever will return OK, or has, was promised no more than was done.
Ready ==
  /\ \A l \in Writers, i \in Places :
       In(l, i) /\ pc[l] \in {"insert", "relock", "pop"} /\ loc[l].status = "ok"
         => Durable(call[writers[i]])
  /\ \A x \in Writers : pc[x] = "queued" /\ done[x] /\ loc[x].status = "ok"
         => Durable(call[x])
  /\ SyncedAcked

SyncInv == Ids /\ Unwritten /\ Joined /\ Ready

-----------------------------------------------------------------------------
(* What readers see of a call.                                             *)

\* The entries of S that belong to the call c.
Of(c, S) == {e \in S : e.op = c.id}

\* What readers see of a call that returns with status s.
Outcome(c, s) ==
  IF s = "ok" THEN Cardinality(Of(c, Visible)) = c.count ELSE Of(c, Visible) = {}

\* The queue is in the order of the calls; nobody has an error before its
\* group fails, and nobody else in its group before it builds one.
Ordered ==
  /\ \A c \in failed : c.id <= ncalls
  /\ \A i, j \in Places : i < j => call[writers[i]].id < call[writers[j]].id
  /\ \A w \in Writers : call[w].null => call[w].count = 0
  /\ \A w \in Writers :
       pc[w] \in {"room", "delay", "bgwait"} \/ (pc[w] = "queued" /\ ~done[w])
         => loc[w].group.last = w /\ loc[w].status = "ok"
  /\ \A w \in Writers : pc[w] \in {"log", "sync", "insert"} => loc[w].status = "ok"

\* A group has all entries of its members, numbered in the order of the calls.
Complete ==
  \A l \in Writers : pc[l] \in Flight =>
    /\ \A i \in Places : In(l, i) =>
         Cardinality(Of(call[writers[i]], loc[l].group.entries)) = call[writers[i]].count
    /\ \A e, f \in loc[l].group.entries : e.op < f.op => e.seq < f.seq

\* Entries that nobody sees yet are those of a group that is being inserted;
\* all of it is there before it is published.
Hidden ==
  /\ \A e \in Store :
       \/ e.seq <= lastSequence
       \/ \E l \in Writers : /\ pc[l] \in {"insert", "relock"} /\ loc[l].status = "ok"
                             /\ e \in loc[l].group.entries
  /\ \A l \in Writers : pc[l] = "relock" /\ loc[l].status = "ok" =>
       loc[l].group.entries \subseteq memtable[mem]

\* Whoever is in the queue called after everything that readers see, but for
\* the group just published.
Older ==
  \A e \in Visible, i \in Places :
    \/ e.op < call[writers[i]].id
    \/ \E l \in Writers : pc[l] = "pop" /\ In(l, i)

\* Whoever is about to return has the outcome it will report.
Settled ==
  /\ \A l \in Writers, i \in Places :
       pc[l] = "pop" /\ In(l, i) => Outcome(call[writers[i]], loc[l].status)
  /\ \A x \in Writers : pc[x] = "queued" /\ done[x] => Outcome(call[x], loc[x].status)

BatchInv == Ordered /\ Complete /\ Hidden /\ Older /\ Settled

\* A call that may still move between the stations of MakeRoomForWrite.
Waiting(x) == pc[x] \in {"room", "delay", "bgwait"} \/ (pc[x] = "queued" /\ ~done[x])

\* What BuildBatchGroup computes, for every place k where a group can end: its
\* entries are typed, they get numbers of their own above LastSequence and up to
\* the LastSequence to come, and, when the queue is in the order of the calls,
\* the whole batch of every member is there, numbered in that order.
GroupFacts ==
  /\ Cardinality({}) = 0
  /\ \A k \in Places :
       /\ GroupEntries(k) \in SUBSET Entries
       /\ lastSequence + Cardinality(Cells(k)) \in Nat
       /\ lastSequence + Cardinality(Cells(k)) >= lastSequence
       /\ \A e \in GroupEntries(k) :
            e.seq > lastSequence /\ e.seq <= lastSequence + Cardinality(Cells(k))
       /\ \A e, f \in GroupEntries(k) : e.seq = f.seq => e = f
       /\ (\A i, j \in Places : i < j => call[writers[i]].id < call[writers[j]].id) =>
            /\ \A i \in 1..k :
                 Cardinality(Of(call[writers[i]], GroupEntries(k))) = call[writers[i]].count
            /\ \A e, f \in GroupEntries(k) : e.op < f.op => e.seq < f.seq
=============================================================================
