-------------------------- MODULE WritePathProofs ---------------------------
(***************************************************************************)
(* The proofs about WritePath hold for every set of threads, every set of  *)
(* calls and faults and every limit.  Here: what the steps of a writer and *)
(* the steps of everybody else leave alone, the types, facts about the     *)
(* queue and about what was written that the other modules share; then     *)
(* waiting in DBImpl.  The writer queue of Write: one leader at a time, no *)
(* lost wakeup of a queued writer, and a pop loop that stops at            *)
(* last_writer.  The condition variable bg_cv_: whoever sleeps on it is    *)
(* served by a background call.  The object of a manual compaction.        *)
(***************************************************************************)
EXTENDS WritePathInv, TLAPS

\* Most leaves are first-order reasoning about sets and functions: Zenon tries them
\* first. The leaves that need arithmetic name the SMT solver.
USE Zenon, SMTT(20)

-----------------------------------------------------------------------------
(* Frames.                                                                 *)

\* A step is a step of a writer or of somebody else.
LEMMA NextCases ==
  ASSUME Next
  PROVE  CallStep \/ OtherStep
BY DEF Next, CallStep, OtherStep

\* The writer queue, the memtables and LastSequence belong to the writers.
LEMMA OtherFrame ==
  ASSUME OtherStep
  PROVE  UNCHANGED <<mutex, writerVars, histVars, lastSequence, memtable, mem, synced>>
<1> USE DEF writerVars, histVars, dataVars
<1>1. CASE BackgroundStep
  BY <1>1 DEF BackgroundStep, BgNothing, FlushStarts, FlushBuilt, FlushFails,
     FlushApplied, CompactionStarts, ManualEmpty, CompactionWritten, CompactionFails,
     CompactionInstalled
<1>2. CASE \E m \in Compactors : CompactRange(m) \/ CompactorStep(m)
  BY <1>2 DEF CompactRange, CompactorStep, ManualClaims, ManualWaits, ManualReturns
<1>3. CASE \E r \in Readers : GetStarts(r) \/ GetEnds(r)
  BY <1>3 DEF GetStarts, GetEnds
<1>4. CASE Close \/ CloseWakes \/ Closed
  BY <1>4 DEF Close, CloseWakes, Closed, vars
<1> QED
  BY <1>1, <1>2, <1>3, <1>4 DEF OtherStep

\* The version, the background thread, manual compactions, readers and the
\* destructor do not belong to them.
LEMMA CallFrame ==
  ASSUME CallStep
  PROVE  UNCHANGED <<shuttingDown, reader, l0, hot, bg, crashed, manualVars, tables,
                     logNumber>>
<1> USE DEF dataVars, bgVars
<1>1. PICK w \in Writers : (\E c \in Calls : Write(w, c)) \/ WriterStep(w)
  BY DEF CallStep
<1>2. CASE \E c \in Calls : Write(w, c)
  BY <1>2 DEF Write
<1>3. CASE WriterStep(w)
  BY <1>3 DEF WriterStep, WakeFront, WakeDone, RoomError, RoomDelay, DelayOver, RoomWait,
     RoomWake, RoomSwitch, RoomSwitchFails, RoomNull, BuildBatchGroup, AddRecord,
     AddRecordFails, Sync, SyncFails, InsertInto, Publish, Pop, AwaitImm,
     CompactMemTableReturns
<1> QED
  BY <1>1, <1>2, <1>3

\* What is left of a queue when its first k writers leave.
LEMMA SuffixFacts ==
  ASSUME NEW S, NEW s \in Seq(S), NEW k \in 1..Len(s)
  PROVE  /\ SubSeq(s, k + 1, Len(s)) \in Seq(S)
         /\ Len(SubSeq(s, k + 1, Len(s))) = Len(s) - k
         /\ \A i \in 1..(Len(s) - k) : SubSeq(s, k + 1, Len(s))[i] = s[k + i]
BY SMT

\* A queue with one writer more.
LEMMA AppendFacts ==
  ASSUME NEW S, NEW s \in Seq(S), NEW x \in S
  PROVE  /\ Append(s, x) \in Seq(S) /\ Len(Append(s, x)) = Len(s) + 1
         /\ Append(s, x)[Len(s) + 1] = x
         /\ \A i \in 1..Len(s) : Append(s, x)[i] = s[i]
BY SMT

-----------------------------------------------------------------------------
(* Types.                                                                  *)

\* Every step of a writer keeps the types of the queue.
LEMMA WriterTypesStep ==
  ASSUME TypeInv, GroupFacts, CallStep
  PROVE  WriterTypes'
<1> USE DEF histVars, WriterPcs, LocRecords, WriterTypes
<1>0. WriterTypes /\ DataTypes
  BY DEF TypeInv, DataInv
<1>1. ASSUME NEW w \in Writers, NEW c \in Calls, Write(w, c)
      PROVE  WriterTypes'
  <2>1. call' \in [Writers -> CallRecords] /\ ncalls' \in Nat
    BY <1>0, <1>1, CallsAssumption, SMT DEF Write, CallRecords
  <2>2. loc' \in [Writers -> LocRecords]
    <3>1. [NoGroup EXCEPT !.last = w] \in GroupRecords
      BY DEF NoGroup, GroupRecords
    <3> QED
      BY <1>0, <1>1, <3>1, CallsAssumption DEF Write, NewLoc
  <2>3. writers' \in Seq(Writers) /\ done' \in [Writers -> BOOLEAN]
    BY <1>0, <1>1, SMT DEF Write
  <2>5. /\ pc' \in [Writers -> WriterPcs] /\ cvWait' \subseteq Writers
        /\ mutex' \in Writers \cup {None}
    BY <1>0, <1>1 DEF Write
  <2>4. acked' = acked /\ failed' = failed
    BY <1>1 DEF Write
  <2> QED
    BY <1>0, <2>1, <2>2, <2>3, <2>4, <2>5
<1>2. ASSUME NEW w \in Writers, WakeFront(w) \/ DelayOver(w) \/ RoomWait(w) \/ RoomWake(w)
                                 \/ RoomNull(w)
      PROVE  WriterTypes'
  BY <1>0, <1>2 DEF WakeFront, DelayOver, RoomWait, RoomWake, RoomNull, InRoom
<1>3. ASSUME NEW w \in Writers, WakeDone(w)
      PROVE  WriterTypes'
  BY <1>0, <1>3, SMT DEF WakeDone, Return
<1>4. ASSUME NEW w \in Writers, RoomError(w) \/ RoomSwitchFails(w)
      PROVE  WriterTypes'
  <2>1. loc' = [loc EXCEPT ![w].status = "error"] /\ pc' = [pc EXCEPT ![w] = "pop"]
        /\ UNCHANGED <<mutex, writers, call, done, cvWait, ncalls, acked, failed>>
    BY <1>4 DEF RoomError, RoomSwitchFails
  <2> QED
    BY <1>0, <2>1
<1>5. ASSUME NEW w \in Writers, RoomDelay(w)
      PROVE  WriterTypes'
  BY <1>0, <1>5 DEF RoomDelay
<1>6. ASSUME NEW w \in Writers, RoomSwitch(w)
      PROVE  WriterTypes'
  BY <1>0, <1>6 DEF RoomSwitch
<1>7. ASSUME NEW w \in Writers, BuildBatchGroup(w)
      PROVE  WriterTypes'
  <2>1. PICK k \in 1..Len(writers) :
          loc' = [loc EXCEPT ![w].group =
                    [last |-> writers[k], entries |-> GroupEntries(k),
                     lastSeq |-> lastSequence + Cardinality(Cells(k))]]
    BY <1>7 DEF BuildBatchGroup
  <2> DEFINE es == GroupEntries(k)
             n == lastSequence + Cardinality(Cells(k))
             g == [last |-> writers[k], entries |-> es, lastSeq |-> n]
  <2>2. writers[k] \in Writers /\ es \in SUBSET Entries /\ n \in Nat
    BY <1>0, SMT DEF GroupFacts, Places
  <2> HIDE DEF es, n
  <2>3. g \in GroupRecords
    BY <2>2 DEF GroupRecords
  <2>4. loc' = [loc EXCEPT ![w].group = g]
    BY <2>1 DEF es, n
  <2> HIDE DEF g
  <2>5. loc' \in [Writers -> LocRecords]
    BY <1>0, <2>3, <2>4
  <2>6. mutex' = None /\ pc' = [pc EXCEPT ![w] = "log"]
        /\ UNCHANGED <<writers, call, done, cvWait, ncalls, acked, failed>>
    BY <1>7 DEF BuildBatchGroup
  <2> QED
    BY <1>0, <2>5, <2>6
<1>8. ASSUME NEW w \in Writers, AddRecord(w) \/ Sync(w) \/ InsertInto(w) \/ Publish(w)
      PROVE  WriterTypes'
  BY <1>0, <1>8 DEF AddRecord, Sync, InsertInto, Publish, Insertion
<1>9. ASSUME NEW w \in Writers, AddRecordFails(w)
      PROVE  WriterTypes'
  <2>1. loc' = [loc EXCEPT ![w].status = "error"] /\ pc' = [pc EXCEPT ![w] = "relock"]
        /\ UNCHANGED <<mutex, writers, call, done, cvWait, ncalls, acked, failed>>
    BY <1>9 DEF AddRecordFails
  <2> QED
    BY <1>0, <2>1
<1>10. ASSUME NEW w \in Writers, SyncFails(w)
      PROVE  WriterTypes'
  BY <1>0, <1>10 DEF SyncFails
<1>11. ASSUME NEW w \in Writers, Pop(w)
      PROVE  WriterTypes'
  <2>1. PICK k \in 1..Len(writers) :
          LET followers == {writers[i] : i \in 1..k} \ {w}
              front == IF k < Len(writers) THEN {writers[k + 1]} ELSE {}
          IN  /\ writers[k] = loc[w].group.last
              /\ writers' = SubSeq(writers, k + 1, Len(writers))
              /\ done' = [x \in Writers |-> done[x] \/ x \in followers]
              /\ loc' = [x \in Writers |-> IF x \in followers
                                           THEN [loc[x] EXCEPT !.status = loc[w].status]
                                           ELSE loc[x]]
              /\ cvWait' = cvWait \ (followers \cup front)
    BY <1>11 DEF Pop, NewFront
  <2>2. writers' \in Seq(Writers)
    BY <1>0, <2>1, SuffixFacts
  <2>3. loc' \in [Writers -> LocRecords]
    <3>1. \A x \in Writers : [loc[x] EXCEPT !.status = loc[w].status] \in LocRecords
      BY <1>0
    <3> QED
      BY <1>0, <2>1, <3>1, Zenon
  <2>4. done' \in [Writers -> BOOLEAN] /\ cvWait' \subseteq Writers
    BY <1>0, <2>1
  <2>5. /\ mutex' = None /\ UNCHANGED <<call, ncalls>>
        /\ pc' \in [Writers -> WriterPcs]
        /\ acked' \subseteq CallRecords /\ failed' \subseteq CallRecords
    BY <1>0, <1>11, SMT DEF Pop, Return
  <2> QED
    BY <1>0, <2>2, <2>3, <2>4, <2>5
<1>12. ASSUME NEW w \in Writers, AwaitImm(w) \/ CompactMemTableReturns(w)
      PROVE  WriterTypes'
  BY <1>0, <1>12 DEF AwaitImm, CompactMemTableReturns, writerVars
<1> QED
  BY <1>1, <1>2, <1>3, <1>4, <1>5, <1>6, <1>7, <1>8, <1>9, <1>10, <1>11, <1>12
     DEF CallStep, WriterStep

\* Every step of a writer keeps the types of the data.
LEMMA DataCallStep ==
  ASSUME TypeInv, CallStep
  PROVE  DataInv'
<1> USE DEF DataInv, DataTypes
<1>0. DataInv /\ WriterTypes /\ bg' = bg
  BY CallFrame DEF TypeInv
<1>1. PICK w \in Writers : (\E c \in Calls : Write(w, c)) \/ WriterStep(w)
  BY DEF CallStep
<1>2. loc[w].group.entries \subseteq Entries /\ loc[w].group.lastSeq \in Nat
  BY <1>0 DEF WriterTypes, LocRecords, GroupRecords
<1>3. CASE UNCHANGED dataVars
  BY <1>0, <1>3 DEF dataVars
<1>4. CASE RoomSwitch(w)
  <2>1. /\ imm = 0 /\ imm' = mem /\ mem' = mem + 1
        /\ UNCHANGED <<lastSequence, logNumber, tables, synced>>
    BY <1>4 DEF RoomSwitch, MustWait
  <2>2. /\ logs' = [n \in DOMAIN logs \cup {mem + 1} |-> IF n = mem + 1 THEN {} ELSE logs[n]]
        /\ memtable' = [n \in DOMAIN memtable \cup {mem + 1} |->
                          IF n = mem + 1 THEN {} ELSE memtable[n]]
    BY <1>4 DEF RoomSwitch
  <2> QED
    BY <1>0, <2>1, <2>2, SMT
<1>5. CASE AddRecord(w) \/ AddRecordFails(w)
  <2>1. logs' \in {logs, [logs EXCEPT ![mem] = @ \cup loc[w].group.entries]}
    BY <1>5 DEF AddRecord, AddRecordFails
  <2>2. DOMAIN logs' = DOMAIN logs /\ \A n \in DOMAIN logs : logs'[n] \subseteq Entries
    BY <1>0, <1>2, <2>1
  <2>3. UNCHANGED <<lastSequence, memtable, mem, imm, logNumber, tables, synced>>
    BY <1>5 DEF AddRecord, AddRecordFails
  <2> QED
    BY <1>0, <2>2, <2>3
<1>6. CASE Sync(w)
  BY <1>0, <1>6 DEF Sync
<1>7. CASE InsertInto(w)
  <2>1. PICK e \in loc[w].group.entries : memtable' = [memtable EXCEPT ![mem] = @ \cup {e}]
    BY <1>7 DEF InsertInto
  <2>2. /\ DOMAIN memtable' = DOMAIN memtable
        /\ \A n \in DOMAIN memtable : memtable'[n] \subseteq Entries
    BY <1>0, <1>2, <2>1
  <2>3. UNCHANGED <<lastSequence, logs, mem, imm, logNumber, tables, synced>>
    BY <1>7 DEF InsertInto
  <2> QED
    BY <1>0, <2>2, <2>3
<1>8. CASE Publish(w)
  BY <1>0, <1>2, <1>8 DEF Publish, NewLastSequence
<1>9. \/ UNCHANGED dataVars
      \/ RoomSwitch(w) \/ AddRecord(w) \/ AddRecordFails(w) \/ Sync(w) \/ InsertInto(w)
      \/ Publish(w)
  BY <1>1 DEF Write, WriterStep, WakeFront, WakeDone, RoomError, RoomDelay, DelayOver,
     RoomWait, RoomWake, RoomSwitchFails, RoomNull, BuildBatchGroup, SyncFails, Pop,
     AwaitImm, CompactMemTableReturns
<1> QED
  BY <1>3, <1>4, <1>5, <1>6, <1>7, <1>8, <1>9

\* The end of BackgroundCall leaves the background thread idle.
LEMMA EndsIdle ==
  ASSUME BackgroundCallEnds
  PROVE  bg'.pc = "idle" /\ bg'.inputs = 0 /\ ~bg'.isManual /\ bg' \in BgRecords
BY DEF BackgroundCallEnds, IdleBg, BgRecords, BgPcs

\* A flush ends in BackgroundCall, or in the compaction it interrupted.
LEMMA FlushEndsAt ==
  ASSUME bg \in BgRecords, FlushEnds
  PROVE  /\ bg' \in BgRecords
         /\ \/ bg'.pc = "idle" /\ bg'.inputs = 0 /\ ~bg'.isManual /\ ~Nested
            \/ /\ Nested /\ bg'.pc = "compact" /\ bg'.inputs = bg.inputs
               /\ bg'.isManual = bg.isManual
<1>1. CASE Nested
  <2>1. bg' = [bg EXCEPT !.pc = "compact", !.log = 0, !.new = 0] /\ 0 \in Nat
    BY <1>1 DEF FlushEnds
  <2> QED
    BY <1>1, <2>1, Zenon DEF BgRecords, BgPcs
<1>2. CASE ~Nested
  BY <1>2, EndsIdle DEF FlushEnds
<1> QED
  BY <1>1, <1>2

\* So does every step of somebody else: only a flush changes the data.
LEMMA DataOtherStep ==
  ASSUME TypeInv, OtherStep
  PROVE  DataInv'
<1> USE DEF DataInv, DataTypes
<1>0. DataInv /\ bg \in BgRecords
  BY DEF TypeInv, BgInv, BgTypes
<1>1. ASSUME UNCHANGED dataVars, bg' = bg \/ bg'.pc \in {"idle", "compact", "install"}
      PROVE  DataInv'
  BY <1>0, <1>1 DEF dataVars
<1>2. CASE BgNothing \/ ManualEmpty \/ CompactionFails \/ CompactionInstalled
  <2>1. UNCHANGED dataVars /\ BackgroundCallEnds
    BY <1>2 DEF BgNothing, ManualEmpty, CompactionFails, CompactionInstalled
  <2> QED
    BY <1>1, <2>1, EndsIdle
<1>3. CASE CompactionStarts \/ CompactionWritten
  BY <1>0, <1>1, <1>3, SMT DEF CompactionStarts, CompactionWritten, Compacting, BgRecords
<1>4. CASE FlushStarts
  <2>1. bg'.pc \in {"table", "ntable"}
    BY <1>0, <1>4, Zenon DEF FlushStarts, BgRecords
  <2> QED
    BY <1>0, <1>4, <2>1 DEF FlushStarts, dataVars
<1>5. CASE FlushBuilt
  <2>1. bg'.pc \in {"apply", "napply"} /\ bg'.log = mem
    BY <1>0, <1>5, Zenon DEF FlushBuilt, EditLogNumber, BgRecords
  <2> QED
    BY <1>0, <1>5, <2>1 DEF FlushBuilt, dataVars
<1>6. CASE FlushFails
  <2>1. bg'.pc \in {"idle", "compact"}
    BY <1>0, <1>6, FlushEndsAt DEF FlushFails
  <2> QED
    BY <1>1, <1>6, <2>1 DEF FlushFails
<1>7. CASE FlushApplied
  <2>1. bg'.pc \in {"idle", "compact"}
    BY <1>0, <1>7, FlushEndsAt DEF FlushApplied
  <2>2. /\ tables' = tables \cup memtable[imm] /\ imm' = 0 /\ logNumber' = mem
        /\ logs' = IF bgError THEN logs
                   ELSE [n \in {m \in DOMAIN logs : m >= mem} |-> logs[n]]
        /\ UNCHANGED <<lastSequence, memtable, mem, synced>>
    BY <1>0, <1>7 DEF FlushApplied
  <2>3. imm \in DOMAIN memtable
    BY <1>0, <1>7 DEF FlushApplied
  <2> QED
    BY <1>0, <2>1, <2>2, <2>3, SMT
<1>8. CASE ~BackgroundStep
  <2>1. UNCHANGED dataVars /\ bg' = bg
    BY <1>8 DEF OtherStep, CompactRange, CompactorStep, ManualClaims, ManualWaits,
       ManualReturns, GetStarts, GetEnds, Close, CloseWakes, Closed, vars, bgVars
  <2> QED
    BY <1>1, <2>1
<1> QED
  BY <1>2, <1>3, <1>4, <1>5, <1>6, <1>7, <1>8 DEF BackgroundStep

\* Every step keeps the types of the background work; the steps of a writer.
LEMMA BgCallStep ==
  ASSUME TypeInv, CallStep
  PROVE  BgInv'
<1> USE DEF BgInv, BgTypes
<1>0. BgInv /\ UNCHANGED <<shuttingDown, l0, hot, bg, crashed, manual, mpc, mdone, mleft>>
  BY CallFrame DEF TypeInv, manualVars
<1>1. PICK w \in Writers : (\E c \in Calls : Write(w, c)) \/ WriterStep(w)
  BY DEF CallStep
<1>2. /\ bgError' \in BOOLEAN /\ bgScheduled' \in BOOLEAN
      /\ bgWait' \subseteq bgWait \cup {w} /\ (bgError => bgError')
  <2>1. CASE \E c \in Calls : Write(w, c)
    <3>1. UNCHANGED <<bgWait, bgError, bgScheduled>>
      BY <2>1 DEF Write, bgVars
    <3> QED
      BY <1>0, <3>1
  <2>2. CASE RoomSwitch(w)
    BY <1>0, <2>2 DEF RoomSwitch, MaybeScheduleCompaction, WorkPending, NeedsCompaction
  <2>3. CASE Publish(w)
    BY <1>0, <2>3 DEF Publish, RecordBackgroundError
  <2>4. CASE WriterStep(w) /\ ~RoomSwitch(w) /\ ~Publish(w)
    <3>1. UNCHANGED <<bgError, bgScheduled>> /\ bgWait' \in {bgWait, bgWait \cup {w}}
      BY <2>4 DEF WriterStep, WakeFront, WakeDone, RoomError, RoomDelay, DelayOver,
         RoomWait, RoomWake, RoomSwitchFails, RoomNull, BuildBatchGroup, AddRecord,
         AddRecordFails, Sync, SyncFails, InsertInto, Pop, AwaitImm,
         CompactMemTableReturns, bgVars
    <3> QED
      BY <1>0, <3>1
  <2> QED
    BY <1>1, <2>1, <2>2, <2>3, <2>4
<1> QED
  BY <1>0, <1>2

\* The steps of the others, one at a time.
LEMMA BgOtherStep ==
  ASSUME TypeInv, OtherStep
  PROVE  BgInv'
<1> USE DEF BgInv, BgTypes, manualVars
<1>0. BgInv /\ bg \in BgRecords /\ imm \in Nat
  BY DEF TypeInv, DataInv, DataTypes
<1>1. ASSUME UNCHANGED <<shuttingDown, bgError, manual, mpc, mdone, mleft, crashed>>,
             bgWait' \subseteq Writers \cup Compactors \cup {"closer"},
             l0' \in Nat, hot' \in BOOLEAN, bgScheduled' \in BOOLEAN, bg' \in BgRecords,
             bg'.inputs <= l0', bg'.isManual => bg.isManual,
             bg'.isManual => bg'.pc \in {"compact", "install", "ntable", "napply"}
      PROVE  BgInv'
  BY <1>0, <1>1
<1>2. CASE BgNothing
  <2>1. BackgroundCallEnds /\ UNCHANGED <<shuttingDown, bgError, manualVars, crashed, l0, hot>>
    BY <1>2 DEF BgNothing
  <2>2. bgWait' = {} /\ bgScheduled' \in BOOLEAN
    BY <2>1 DEF BackgroundCallEnds, WorkPending
  <2>3. bg'.inputs = 0 /\ ~bg'.isManual /\ bg' \in BgRecords
    BY <2>1, EndsIdle
  <2>4. l0' \in Nat /\ bg'.inputs <= l0'
    BY <1>0, <2>1, <2>3, SMT
  <2>5. hot' \in BOOLEAN
    BY <1>0, <2>1, Zenon
  <2> QED
    BY <1>1, <2>1, <2>2, <2>3, <2>4, <2>5
<1>3. CASE FlushStarts
  <2>1. UNCHANGED <<bgWait, shuttingDown, l0, hot, bgError, bgScheduled, crashed, manualVars>>
    BY <1>3 DEF FlushStarts
  <2>2. \/ bg' = [bg EXCEPT !.pc = "table"] /\ bg.pc = "idle"
        \/ /\ bg.pc = "compact" /\ bg.keys > 0
           /\ bg' = [bg EXCEPT !.pc = "ntable", !.keys = bg.keys - 1]
    BY <1>3 DEF FlushStarts, BgStarts
  <2>3. bg.keys > 0 => bg.keys - 1 \in Nat
    BY <1>0, SMT DEF BgRecords
  <2>4. /\ bg' \in BgRecords /\ bg'.inputs = bg.inputs /\ bg'.isManual = bg.isManual
        /\ (bg'.pc = "table" /\ bg.pc = "idle") \/ bg'.pc = "ntable"
    <3>1. CASE bg' = [bg EXCEPT !.pc = "table"] /\ bg.pc = "idle"
      BY <1>0, <3>1, Zenon DEF BgRecords, BgPcs
    <3>2. CASE bg.keys > 0 /\ bg' = [bg EXCEPT !.pc = "ntable", !.keys = bg.keys - 1]
      BY <1>0, <2>3, <3>2, Zenon DEF BgRecords, BgPcs
    <3> QED
      BY <2>2, <3>1, <3>2
  <2> QED
    BY <1>0, <1>1, <2>1, <2>4
<1>4. CASE FlushBuilt
  <2>1. UNCHANGED <<bgWait, shuttingDown, l0, hot, bgError, bgScheduled, crashed, manualVars>>
    BY <1>4 DEF FlushBuilt
  <2>2. PICK n \in {0, 1} :
          bg' = [bg EXCEPT !.pc = IF Nested THEN "napply" ELSE "apply", !.log = mem, !.new = n]
    BY <1>4 DEF FlushBuilt, EditLogNumber
  <2>3. n \in Nat /\ mem \in Nat
    BY SMT DEF TypeInv, DataInv, DataTypes
  <2>4. /\ bg' \in BgRecords /\ bg'.inputs = bg.inputs /\ bg'.isManual = bg.isManual
        /\ bg'.pc = IF Nested THEN "napply" ELSE "apply"
    BY <1>0, <2>2, <2>3, Zenon DEF BgRecords, BgPcs
  <2>5. bg'.isManual => bg'.pc \in {"compact", "install", "ntable", "napply"}
    BY <1>0, <1>4, <2>4 DEF FlushBuilt, Nested
  <2> QED
    BY <1>0, <1>1, <2>1, <2>4, <2>5
<1>5. CASE FlushFails \/ FlushApplied
  <2>1. /\ UNCHANGED <<shuttingDown, crashed, manualVars>> /\ FlushEnds
        /\ bgError' \in BOOLEAN /\ (bgError => bgError')
    BY <1>0, <1>5 DEF FlushFails, FlushApplied
  <2>2. hot' \in BOOLEAN /\ l0' \in Nat /\ l0 <= l0'
    <3>1. l0' \in {l0, l0 + bg.new} /\ (hot' = hot \/ hot' \in BOOLEAN)
      BY <1>5, Zenon DEF FlushFails, FlushApplied, NewVersion
    <3>2. l0 \in Nat /\ bg.new \in Nat
      BY <1>0 DEF BgRecords
    <3>3. hot' \in BOOLEAN
      BY <1>0, <3>1, Zenon
    <3> QED
      BY <3>1, <3>2, <3>3, SMT
  <2>3. bgWait' = {} /\ bgScheduled' \in BOOLEAN
    BY <1>0, <2>1 DEF FlushEnds, BackgroundCallEnds, WorkPending
  <2>4. /\ bg' \in BgRecords
        /\ \/ bg'.pc = "idle" /\ bg'.inputs = 0 /\ ~bg'.isManual
           \/ bg'.pc = "compact" /\ bg'.inputs = bg.inputs /\ bg'.isManual = bg.isManual
    BY <1>0, <2>1, FlushEndsAt
  <2>5. bg'.inputs <= l0'
    BY <1>0, <2>2, <2>4, SMT DEF BgRecords
  <2> QED
    BY <1>0, <2>1, <2>2, <2>3, <2>4, <2>5
<1>6. CASE CompactionStarts
  <2>1. UNCHANGED <<bgWait, shuttingDown, l0, hot, bgError, bgScheduled, crashed, manualVars>>
    BY <1>6 DEF CompactionStarts
  <2>2. PICK n \in 0..l0, at \in {"compact", "install"}, b \in BOOLEAN :
          bg' = Compacting(at, n, b) /\ (b => manual # None /\ mleft[manual] > 0)
    BY <1>6 DEF CompactionStarts
  <2>3. /\ bg' \in BgRecords /\ bg'.inputs <= l0 /\ bg'.isManual = b
        /\ bg'.pc \in {"compact", "install"}
    <3>1. n \in Nat /\ n <= l0 /\ MaxKeys \in Nat /\ bg.log \in Nat
      BY <1>0, <2>2, BoundsAssumption, SMT DEF BgRecords
    <3> QED
      BY <2>2, <3>1 DEF Compacting, BgRecords, BgPcs
  <2> QED
    BY <1>0, <2>1, <2>2, <2>3
<1>7. CASE ManualEmpty
  <2>1. /\ BackgroundCallEnds /\ UNCHANGED <<shuttingDown, bgError, crashed, l0, hot, mpc, mleft>>
        /\ manual # None /\ mdone' = [mdone EXCEPT ![manual] = TRUE] /\ manual' = None
    BY <1>7 DEF ManualEmpty
  <2>2. bgWait' = {} /\ bgScheduled' \in BOOLEAN
    BY <2>1 DEF BackgroundCallEnds, WorkPending
  <2>3. bg'.inputs = 0 /\ ~bg'.isManual /\ bg' \in BgRecords
    BY <2>1, EndsIdle
  <2>4. l0' \in Nat /\ bg'.inputs <= l0' /\ mdone' \in [Compactors -> BOOLEAN]
    BY <1>0, <2>1, <2>3, SMT
  <2> QED
    BY <1>0, <2>1, <2>2, <2>3, <2>4
<1>8. CASE CompactionWritten
  <2>1. UNCHANGED <<bgWait, shuttingDown, l0, hot, bgError, bgScheduled, crashed, manualVars>>
    BY <1>8 DEF CompactionWritten
  <2>2. bg' \in BgRecords /\ bg'.inputs = bg.inputs /\ bg'.isManual = bg.isManual
        /\ bg'.pc = "install"
    BY <1>0, <1>8 DEF CompactionWritten, BgRecords, BgPcs
  <2> QED
    BY <1>0, <1>1, <2>1, <2>2
<1>9. ASSUME NEW ok \in BOOLEAN, ManualEnds(ok)
      PROVE  /\ mdone' \in [Compactors -> BOOLEAN] /\ mleft' \in [Compactors -> Nat]
             /\ manual' \in {manual, None} /\ crashed' \in BOOLEAN
             /\ manual' # None => mdone' = mdone
  <2>1. CASE bg.isManual /\ manual # None
    <3>1. /\ mdone' = [mdone EXCEPT ![manual] = ~ok] /\ manual' = None /\ crashed' = crashed
          /\ mleft' = [mleft EXCEPT ![manual] = IF ok THEN @ - 1 ELSE @]
      BY <1>9, <2>1 DEF ManualEnds
    <3>2. manual \in Compactors /\ mleft[manual] - 1 \in Nat
      BY <1>0, <2>1, SMT
    <3> QED
      BY <1>0, <3>1, <3>2
  <2>2. CASE ~(bg.isManual /\ manual # None)
    <3>1. UNCHANGED <<manual, mdone, mleft>> /\ crashed' \in {crashed, TRUE}
      BY <1>9, <2>2 DEF ManualEnds
    <3> QED
      BY <1>0, <3>1
  <2> QED
    BY <2>1, <2>2
<1>10. CASE CompactionFails \/ CompactionInstalled
  <2>1. /\ BackgroundCallEnds /\ UNCHANGED <<shuttingDown, mpc>>
        /\ \E ok \in BOOLEAN : ManualEnds(ok)
        /\ bgError' \in BOOLEAN
    BY <1>0, <1>10 DEF CompactionFails, CompactionInstalled
  <2>2. hot' \in BOOLEAN /\ l0' \in Nat
    <3>1. l0' \in {l0, l0 - bg.inputs} /\ (hot' = hot \/ hot' \in BOOLEAN)
      BY <1>10, Zenon DEF CompactionFails, CompactionInstalled, NewVersion
    <3>2. l0 \in Nat /\ bg.inputs \in Nat /\ bg.inputs <= l0
      BY <1>0 DEF BgRecords
    <3>3. hot' \in BOOLEAN
      BY <1>0, <3>1, Zenon
    <3> QED
      BY <3>1, <3>2, <3>3, SMT
  <2>3. bgWait' = {} /\ bgScheduled' \in BOOLEAN
    BY <2>1 DEF BackgroundCallEnds, WorkPending
  <2>4. bg'.inputs = 0 /\ ~bg'.isManual /\ bg' \in BgRecords
    BY <2>1, EndsIdle
  <2>5. bg'.inputs <= l0'
    BY <2>2, <2>4, SMT
  <2>6. /\ mdone' \in [Compactors -> BOOLEAN] /\ mleft' \in [Compactors -> Nat]
        /\ manual' \in {manual, None} /\ crashed' \in BOOLEAN
        /\ manual' # None => mdone' = mdone
    BY <1>9, <2>1
  <2> QED
    BY <1>0, <2>1, <2>2, <2>3, <2>4, <2>5, <2>6
<1>11. ASSUME NEW m \in Compactors, CompactRange(m)
      PROVE  BgInv'
  <2>1. /\ UNCHANGED <<bgWait, shuttingDown, l0, hot, bgError, bgScheduled, bg, crashed, manual, mdone>>
        /\ mpc[m] = "idle" /\ mpc' = [mpc EXCEPT ![m] = "loop"]
    BY <1>11 DEF CompactRange, bgVars
  <2>2. PICK n \in 0..MaxRounds : mleft' = [mleft EXCEPT ![m] = n]
    BY <1>11 DEF CompactRange
  <2>3. mleft' \in [Compactors -> Nat]
    <3>1. n \in Nat /\ mleft \in [Compactors -> Nat]
      BY <1>0, <2>2, BoundsAssumption, SMT
    <3> QED
      BY <2>2, <3>1
  <2>4. manual # m
    BY <1>0, <2>1, ThreadsAssumption
  <2> QED
    BY <1>0, <2>1, <2>2, <2>3, <2>4, SMT
<1>12. ASSUME NEW m \in Compactors, CompactorStep(m)
      PROVE  BgInv'
  <2>0. m # None
    BY ThreadsAssumption
  <2>1. CASE ManualClaims(m)
    <3>1. bgScheduled' \in BOOLEAN
      BY <1>0, <2>1 DEF ManualClaims, MaybeScheduleCompaction, WorkPending
    <3> QED
      BY <1>0, <2>0, <2>1, <3>1 DEF ManualClaims, ManualAtLoop, ManualGoesOn
  <2>2. CASE ManualWaits(m)
    BY <1>0, <2>2 DEF ManualWaits, bgVars
  <2>3. CASE ManualReturns(m)
    BY <1>0, <2>0, <2>3 DEF ManualReturns, ManualGoesOn, bgVars
  <2> QED
    BY <1>12, <2>1, <2>2, <2>3 DEF CompactorStep
<1>13. ASSUME NEW r \in Readers, GetStarts(r) \/ GetEnds(r)
      PROVE  BgInv'
  <2>1. CASE GetStarts(r)
    BY <1>0, <2>1 DEF GetStarts, bgVars
  <2>2. CASE GetEnds(r)
    <3>1. /\ UNCHANGED <<bgWait, shuttingDown, l0, bgError, bg, crashed, manualVars>>
          /\ \/ UNCHANGED <<hot, bgScheduled>>
             \/ hot' = (hot \/ reader[r].current) /\ MaybeScheduleCompaction
      BY <2>2 DEF GetEnds
    <3>2. hot' \in BOOLEAN
      BY <1>0, <3>1, Zenon
    <3>3. bgScheduled' \in BOOLEAN
      BY <1>0, <3>1 DEF MaybeScheduleCompaction, WorkPending
    <3> QED
      BY <1>0, <3>1, <3>2, <3>3
  <2> QED
    BY <1>13, <2>1, <2>2
<1>14. CASE Close \/ CloseWakes \/ Closed
  BY <1>0, <1>14, SMT DEF Close, CloseWakes, Closed, vars, bgVars
<1> QED
  BY <1>2, <1>3, <1>4, <1>5, <1>6, <1>7, <1>8, <1>10, <1>11, <1>12, <1>13, <1>14
     DEF OtherStep, BackgroundStep

\* A freshly opened database satisfies the strengthened type invariant.
LEMMA TypeInvInit ==
  ASSUME Init
  PROVE  TypeInv
<1> USE DEF Init
<1>1. WriterTypes
  <2>1. NoCall \in CallRecords
    BY DEF NoCall, CallRecords
  <2>2. NoGroup \in GroupRecords
    BY DEF NoGroup, GroupRecords
  <2>3. NoLoc \in LocRecords
    BY <2>2 DEF NoLoc, LocRecords
  <2>4. pc \in [Writers -> WriterPcs] /\ done \in [Writers -> BOOLEAN]
    BY DEF WriterPcs
  <2>5. call \in [Writers -> CallRecords] /\ loc \in [Writers -> LocRecords]
    BY <2>1, <2>3
  <2>6. writers \in Seq(Writers)
    BY SMT
  <2> QED
    BY <2>4, <2>5, <2>6 DEF WriterTypes
<1>2. DataInv
  <2>1. bg.pc = "idle"
    BY DEF IdleBg
  <2>2. DataTypes /\ mem \in DOMAIN logs /\ mem \in DOMAIN memtable /\ imm = 0
    BY SMT DEF DataTypes
  <2> QED
    BY <2>1, <2>2 DEF DataInv
<1>3. BgInv
  <2>1. bg \in BgRecords /\ bg.inputs <= l0 /\ ~bg.isManual
    <3>1. bg = IdleBg /\ l0 = 0
      OBVIOUS
    <3>2. IdleBg \in BgRecords /\ IdleBg.inputs = 0 /\ ~IdleBg.isManual
      BY DEF BgRecords, BgPcs, IdleBg
    <3> QED
      BY <3>1, <3>2, SMT
  <2>2. manual = None
    OBVIOUS
  <2>3. BgTypes
    BY <2>1 DEF BgTypes
  <2> QED
    BY <2>1, <2>2, <2>3 DEF BgInv
<1> QED
  BY <1>1, <1>2, <1>3 DEF TypeInv

\* Every step of every thread keeps it.
LEMMA TypeInvNext ==
  ASSUME TypeInv, GroupFacts, [Next]_vars
  PROVE  TypeInv'
<1>1. CASE CallStep
  BY <1>1, WriterTypesStep, DataCallStep, BgCallStep DEF TypeInv
<1>2. CASE OtherStep
  <2>1. WriterTypes'
    BY <1>2, OtherFrame DEF TypeInv, WriterTypes, writerVars, histVars
  <2> QED
    BY <1>2, <2>1, DataOtherStep, BgOtherStep DEF TypeInv
<1>3. CASE UNCHANGED vars
  <2>1. WriterTypes'
    BY <1>3 DEF TypeInv, WriterTypes, vars, writerVars, histVars
  <2>2. DataInv'
    BY <1>3 DEF TypeInv, DataInv, DataTypes, vars, dataVars, bgVars
  <2>3. BgInv'
    BY <1>3 DEF TypeInv, BgInv, BgTypes, vars, dataVars, bgVars, manualVars
  <2> QED
    BY <2>1, <2>2, <2>3 DEF TypeInv
<1> QED
  BY <1>1, <1>2, <1>3, NextCases

-----------------------------------------------------------------------------
(* The queue.                                                              *)

\* Only w can be past the wait for its turn.
LEMMA OnlyLeader ==
  ASSUME QueueInv, NEW w \in Writers, pc[w] \in LeaderPcs
  PROVE  \A x \in Writers \ {w} : pc[x] \notin LeaderPcs
BY SMT DEF QueueInv

\* Whoever is in the queue is in Write and not told that it is done.
LEMMA QueueActive ==
  ASSUME WriterTypes, QueueInv
  PROVE  \A i \in Places : /\ writers[i] \in Writers /\ Active(writers[i])
                           /\ ~(pc[writers[i]] = "queued" /\ done[writers[i]])
BY SMT DEF WriterTypes, QueueInv, Places, Active, LeaderPcs

\* A new call goes to the end of the queue and into no group.
LEMMA WriteQueue ==
  ASSUME WriterTypes, QueueInv, NEW w \in Writers, NEW c \in Calls, Write(w, c)
  PROVE  /\ \E n \in Places' : writers'[n] = w /\ \A i \in Places' : i = n \/ (i \in Places /\ i < n)
         /\ \A i \in Places : /\ i \in Places' /\ writers'[i] = writers[i] /\ writers[i] # w
                              /\ call'[writers'[i]] = call[writers[i]]
         /\ call'[w].id = ncalls + 1 /\ ~done'[w] /\ pc'[w] \in {"room", "queued"}
         /\ \A x \in Writers \ {w} : /\ pc'[x] = pc[x] /\ call'[x] = call[x]
                                     /\ loc'[x] = loc[x] /\ done'[x] = done[x]
         /\ \A l \in Writers : pc'[l] \in LeaderPcs \ {"room"} =>
              l # w /\ \A i \in Places' : In(l, i)' <=> i \in Places /\ In(l, i)
<1>1. PICK n \in Nat : n = Len(writers)
  BY SMT DEF WriterTypes
<1>2. /\ pc[w] = "idle" /\ writers' = Append(writers, w)
      /\ call' = [call EXCEPT ![w] = [id |-> ncalls + 1, count |-> c.count,
                                      sync |-> c.sync, null |-> c.null]]
      /\ loc' = [loc EXCEPT ![w] = NewLoc(w, c)]
      /\ done' = [done EXCEPT ![w] = FALSE]
      /\ \E p \in {"room", "queued"} : pc' = [pc EXCEPT ![w] = p]
  BY DEF Write
<1>3. /\ call'[w].id = ncalls + 1 /\ ~done'[w] /\ pc'[w] \in {"room", "queued"}
      /\ \A x \in Writers \ {w} : /\ pc'[x] = pc[x] /\ call'[x] = call[x]
                                  /\ loc'[x] = loc[x] /\ done'[x] = done[x]
  BY <1>2 DEF WriterTypes
<1>4. /\ Places' = 1..(n + 1) /\ Places = 1..n /\ writers'[n + 1] = w
      /\ \A i \in Places : i \in Places' /\ writers'[i] = writers[i] /\ writers[i] # w
  <2>1. /\ Len(writers') = n + 1 /\ writers'[n + 1] = w
        /\ \A i \in 1..n : writers'[i] = writers[i]
    BY <1>1, <1>2, AppendFacts, SMT DEF WriterTypes
  <2>2. \A i \in Places : writers[i] # w
    BY <1>2, QueueActive DEF Active
  <2> QED
    BY <1>1, <2>1, <2>2, SMT DEF Places
<1>5. \A i \in Places : call'[writers'[i]] = call[writers[i]]
  BY <1>3, <1>4, QueueActive, SMT
<1>6. ASSUME NEW l \in Writers, pc'[l] \in LeaderPcs \ {"room"}
      PROVE  l # w /\ \A i \in Places' : In(l, i)' <=> i \in Places /\ In(l, i)
  <2>1. l # w /\ loc'[l] = loc[l] /\ pc[l] \in LeaderPcs
    BY <1>3, <1>6 DEF LeaderPcs
  <2>2. PICK k \in Places : writers[k] = loc[l].group.last
    BY <2>1 DEF QueueInv
  <2>3. loc[l].group.last # w
    BY <1>4, <2>2
  <2>4. \A j \in Places' : writers'[j] = loc[l].group.last => j \in Places /\ writers[j] = writers'[j]
    BY <1>4, <2>3, SMT
  <2>5. \A i \in Places' : In(l, i)' <=> \E j \in Places' : i <= j /\ writers'[j] = loc[l].group.last
    BY <2>1 DEF In
  <2>6. \A i \in Places', j \in Places : i <= j => i \in Places
    BY <1>4, SMT
  <2> QED
    BY <1>4, <2>1, <2>4, <2>5, <2>6, SMT DEF In
<1>7. n + 1 \in Places' /\ \A i \in Places' : i = n + 1 \/ (i \in Places /\ i < n + 1)
  BY <1>4, SMT
<1> QED
  BY <1>3, <1>4, <1>5, <1>6, <1>7

\* Pop takes the group of its leader from the queue: the first k writers.
LEMMA PopQueue ==
  ASSUME WriterTypes, QueueInv, NEW w \in Writers, Pop(w)
  PROVE  \E k \in Places :
           /\ done' = [x \in Writers |-> done[x] \/ x \in {writers[i] : i \in 1..k} \ {w}]
           /\ loc' = [x \in Writers |-> IF x \in {writers[i] : i \in 1..k} \ {w}
                                        THEN [loc[x] EXCEPT !.status = loc[w].status]
                                        ELSE loc[x]]
           /\ k \in Nat /\ 1 \in Places /\ 1 <= k /\ writers[1] = w
           /\ \A i \in 1..k : i \in Places /\ i <= k
           /\ \A i \in Places : In(w, i) <=> i <= k
           /\ \A i \in Places' : i + k \in Places /\ ~(i + k <= k) /\ writers'[i] = writers[i + k]
<1>1. PICK k \in 1..Len(writers) :
        /\ writers[k] = loc[w].group.last
        /\ writers' = SubSeq(writers, k + 1, Len(writers))
        /\ done' = [x \in Writers |-> done[x] \/ x \in {writers[i] : i \in 1..k} \ {w}]
        /\ loc' = [x \in Writers |-> IF x \in {writers[i] : i \in 1..k} \ {w}
                                     THEN [loc[x] EXCEPT !.status = loc[w].status]
                                     ELSE loc[x]]
  BY DEF Pop
<1>2. pc[w] \in LeaderPcs
  BY DEF Pop, LeaderPcs
<1>3. k \in Nat /\ k \in Places /\ Len(writers) \in Nat /\ 1 \in Places /\ 1 <= k /\ writers[1] = w
  BY <1>2, SMT DEF WriterTypes, Places, QueueInv
<1>4. \A i \in Places : In(w, i) <=> i <= k
  BY <1>1, <1>3, SMT DEF In, QueueInv
<1>5. PICK n \in Nat : n = Len(writers)
  BY <1>3
<1>6. writers' = SubSeq(writers, k + 1, n) /\ k <= n
  BY <1>1, <1>5, SMT
<1>7. Len(writers') = n - k /\ \A i \in 1..(n - k) : writers'[i] = writers[k + i]
  BY <1>3, <1>5, <1>6, SuffixFacts DEF WriterTypes
<1>8. \A i \in Places' : i + k \in Places /\ ~(i + k <= k) /\ writers'[i] = writers[i + k]
  <2> TAKE i \in Places'
  <2>1. i \in 1..(n - k)
    BY <1>7 DEF Places
  <2>2. i + k \in 1..n /\ ~(i + k <= k) /\ i + k = k + i
    BY <1>3, <1>6, <2>1, SMT
  <2> QED  BY <1>5, <1>7, <2>1, <2>2 DEF Places
<1>9. \A i \in 1..k : i \in Places /\ i <= k
  BY <1>3, SMT DEF Places
<1> QED
  BY <1>1, <1>3, <1>4, <1>8, <1>9

-----------------------------------------------------------------------------
(* What was written.                                                       *)

\* An entry is written when a table, a log or a memtable has it.
LEMMA InWritten ==
  \A e : e \in Written <=>
    \/ e \in tables
    \/ \E n \in DOMAIN logs : e \in logs[n]
    \/ \E n \in DOMAIN memtable : e \in memtable[n]
<1> DEFINE L == UNION {logs[n] : n \in DOMAIN logs}
           M == UNION {memtable[n] : n \in DOMAIN memtable}
<1>1. \A e : e \in L <=> \E n \in DOMAIN logs : e \in logs[n]
  OBVIOUS
<1>2. \A e : e \in M <=> \E n \in DOMAIN memtable : e \in memtable[n]
  OBVIOUS
<1>3. Written = tables \cup L \cup M
  BY Zenon DEF Written
<1> HIDE DEF L, M
<1> QED
  BY <1>1, <1>2, <1>3

\* So it is after a step.
LEMMA InWrittenNext ==
  \A e : e \in Written' <=>
    \/ e \in tables'
    \/ \E n \in DOMAIN logs' : e \in logs'[n]
    \/ \E n \in DOMAIN memtable' : e \in memtable'[n]
<1> DEFINE L == UNION {logs'[n] : n \in DOMAIN logs'}
           M == UNION {memtable'[n] : n \in DOMAIN memtable'}
<1>1. \A e : e \in L <=> \E n \in DOMAIN logs' : e \in logs'[n]
  OBVIOUS
<1>2. \A e : e \in M <=> \E n \in DOMAIN memtable' : e \in memtable'[n]
  OBVIOUS
<1>3. Written' = tables' \cup L \cup M
  BY Zenon DEF Written
<1> HIDE DEF L, M
<1> QED
  BY <1>1, <1>2, <1>3

\* What is written has the type of entries.
LEMMA WrittenTyped ==
  ASSUME DataTypes
  PROVE  Written \subseteq Entries
<1> SUFFICES ASSUME NEW e \in Written PROVE e \in Entries
  OBVIOUS
<1> QED
  BY InWritten DEF DataTypes

\* If whatever a step adds to tables, logs and memtables was written before or
\* is in es, it adds nothing else.
LEMMA WrittenGrows ==
  ASSUME NEW es,
         \A e \in tables' : e \in Written \cup es,
         \A n \in DOMAIN logs' : \A e \in logs'[n] : e \in Written \cup es,
         \A n \in DOMAIN memtable' : \A e \in memtable'[n] : e \in Written \cup es
  PROVE  Written' \subseteq Written \cup es
BY InWrittenNext

\* What readers see was written.
LEMMA StoreWritten ==
  ASSUME DataInv
  PROVE  Store \subseteq Written /\ Visible \subseteq Store /\ Store \subseteq Entries
<1>1. Store \subseteq Written
  BY InWritten DEF Store, DataInv
<1>2. Written \subseteq Entries
  BY WrittenTyped DEF DataInv
<1> QED
  BY <1>1, <1>2 DEF Visible

-----------------------------------------------------------------------------
(* The writer queue.                                                       *)

\* The empty queue of a freshly opened database is in order.
LEMMA QueueInit ==
  ASSUME Init
  PROVE  QueueInv
BY SMTT(20) DEF Init, QueueInv, Places, LeaderPcs

\* A step that moves w between stations of the leader, and may set its group.
LEMMA LeaderMoves ==
  ASSUME WriterTypes, QueueInv, NEW w \in Writers, NEW p \in LeaderPcs,
         pc[w] \in LeaderPcs, pc' = [pc EXCEPT ![w] = p],
         UNCHANGED <<writers, done, cvWait>>,
         \A x \in Writers \ {w} : loc'[x].group.last = loc[x].group.last,
         \E k \in Places : writers[k] = loc'[w].group.last
  PROVE  QueueInv'
<1>1. /\ \A x \in Writers \ {w} : pc'[x] = pc[x]
      /\ pc'[w] = p /\ p # "queued"
  BY DEF WriterTypes, LeaderPcs
<1>2. Places' = Places
  BY DEF Places
<1>3. \A i \in Places : writers[i] \in Writers
  BY SMT DEF WriterTypes, Places
<1>4. \A i \in Places : \/ pc'[writers'[i]] \in LeaderPcs
                        \/ pc'[writers'[i]] = "queued" /\ ~done'[writers'[i]]
  BY <1>1, <1>3, SMT DEF QueueInv
<1>5. \A x \in Writers : pc'[x] \in LeaderPcs => Len(writers') > 0 /\ writers'[1] = x
  BY <1>1, SMTT(20) DEF QueueInv
<1>6. \A x \in Writers : pc'[x] = "queued" /\ ~done'[x] =>
        loc'[x].group.last = x /\ \E i \in Places : writers'[i] = x
  BY <1>1, SMTT(20) DEF QueueInv
<1>7. \A x \in Writers : pc'[x] \in LeaderPcs =>
        \E k \in Places : writers'[k] = loc'[x].group.last
  BY <1>1, SMT DEF QueueInv
<1> QED
  BY <1>2, <1>4, <1>5, <1>6, <1>7, SMT DEF QueueInv

\* The steps of a writer keep the queue in order.
LEMMA QueueCallStep ==
  ASSUME TypeInv, QueueInv, CallStep
  PROVE  QueueInv'
<1> USE DEF LeaderPcs
<1>0. WriterTypes /\ QueueInv
  BY DEF TypeInv
<1>a. \A x \in Writers : loc[x] \in LocRecords
  BY <1>0 DEF WriterTypes
<1>1. ASSUME NEW w \in Writers, NEW c \in Calls, Write(w, c)
      PROVE  QueueInv'
  <2>1. /\ Len(writers') = Len(writers) + 1 /\ writers'[Len(writers) + 1] = w
        /\ \A i \in 1..Len(writers) : writers'[i] = writers[i]
    BY <1>0, <1>1, AppendFacts, SMT DEF Write, WriterTypes
  <2>2. /\ pc[w] = "idle" /\ pc' = [pc EXCEPT ![w] = IF writers = <<>> THEN "room" ELSE "queued"]
        /\ cvWait' = (IF writers = <<>> THEN cvWait ELSE cvWait \cup {w})
        /\ done' = [done EXCEPT ![w] = FALSE]
    BY <1>1 DEF Write, NoneAhead
  <2>3. /\ \A x \in Writers \ {w} : loc'[x] = loc[x]
        /\ loc'[w].group.last = w
    BY <1>0, <1>1 DEF Write, NewLoc, NoGroup, WriterTypes
  <2>4. writers = <<>> <=> Len(writers) = 0
    BY <1>0, SMT DEF WriterTypes
  <2>5. \A i \in 1..Len(writers) : writers[i] # w
    BY <1>0, <2>2 DEF QueueInv, Places
  <2>6. Len(writers) \in Nat
    BY <1>0, SMT DEF WriterTypes
  <2>a. /\ \A x \in Writers \ {w} : pc'[x] = pc[x] /\ (done'[x] <=> done[x])
        /\ pc'[w] = (IF writers = <<>> THEN "room" ELSE "queued") /\ ~done'[w]
    BY <1>0, <2>2 DEF WriterTypes
  <2>b. \A i \in 1..Len(writers) : writers[i] \in Writers
    BY <1>0, SMTT(20) DEF WriterTypes
  <2> DEFINE n == Len(writers)
  <2>7. \A i, j \in 1..(n + 1) : writers'[i] = writers'[j] => i = j
    BY <1>0, <2>1, <2>5, <2>6, SMTT(20) DEF QueueInv, Places
  <2>8. \A i \in 1..(n + 1) : \/ pc'[writers'[i]] \in LeaderPcs
                              \/ pc'[writers'[i]] = "queued" /\ ~done'[writers'[i]]
    BY <1>0, <2>1, <2>5, <2>6, <2>a, <2>b, SMTT(20) DEF QueueInv, Places
  <2>9. \A x \in Writers : pc'[x] \in LeaderPcs => n + 1 > 0 /\ writers'[1] = x
    BY <1>0, <2>1, <2>4, <2>6, <2>a, SMTT(20) DEF QueueInv, Places
  <2>10. \A x \in Writers : pc'[x] = "queued" /\ ~done'[x] =>
           loc'[x].group.last = x /\ \E i \in 1..(n + 1) : writers'[i] = x
    BY <1>0, <2>1, <2>3, <2>6, <2>a, SMTT(20) DEF QueueInv, Places
  <2>11. cvWait' = {writers'[i] : i \in 2..(n + 1)}
    BY <1>0, <2>1, <2>2, <2>4, <2>6, SMTT(20) DEF QueueInv, Places
  <2>12. \A x \in Writers : pc'[x] \in LeaderPcs =>
           \E k \in 1..(n + 1) : writers'[k] = loc'[x].group.last
    BY <1>0, <2>1, <2>3, <2>6, <2>a, SMTT(20) DEF QueueInv, Places
  <2> QED
    BY <2>1, <2>7, <2>8, <2>9, <2>10, <2>11, <2>12, SMTT(20) DEF QueueInv, Places
<1>2. ASSUME NEW w \in Writers, WakeFront(w)
      PROVE  QueueInv'
  <2>1. /\ pc[w] = "queued" /\ ~done[w] /\ Head(writers) = w /\ pc' = [pc EXCEPT ![w] = "room"]
        /\ UNCHANGED <<writers, done, cvWait, loc>>
    BY <1>2 DEF WakeFront
  <2>2. Len(writers) > 0 /\ writers[1] = w
    BY <1>0, <2>1, SMT DEF QueueInv, Places, WriterTypes
  <2>3. /\ \A v \in Writers \ {w} : pc'[v] = pc[v]
        /\ pc'[w] = "room"
    BY <1>0, <2>1 DEF WriterTypes
  <2>4. (\A i \in Places : writers[i] \in Writers) /\ Places' = Places /\ 1 \in Places
    BY <1>0, <2>1, <2>2, SMT DEF WriterTypes, Places
  <2>5. "room" \in LeaderPcs /\ loc[w].group.last = w
    BY <1>0, <2>1 DEF QueueInv, LeaderPcs
  <2> QED
    BY <1>0, <2>1, <2>2, <2>3, <2>4, <2>5, SMTT(20) DEF QueueInv
<1>3. ASSUME NEW w \in Writers, WakeDone(w)
      PROVE  QueueInv'
  <2>1. /\ pc[w] = "queued" /\ done[w]
        /\ \E p \in {"immwait", "idle"} : pc' = [pc EXCEPT ![w] = p]
        /\ UNCHANGED <<writers, done, cvWait, loc>>
    BY <1>3 DEF WakeDone, Return
  <2>2. pc \in [Writers -> WriterPcs]
    BY <1>0 DEF WriterTypes
  <2>3. \A v \in Writers : /\ pc'[v] \in LeaderPcs <=> pc[v] \in LeaderPcs
                           /\ pc'[v] = "queued" /\ ~done[v] <=> pc[v] = "queued" /\ ~done[v]
    BY <2>1, <2>2 DEF LeaderPcs
  <2>4. (\A i \in Places : writers[i] \in Writers) /\ Places' = Places
    BY <1>0, <2>1, SMT DEF WriterTypes, Places
  <2> QED
    BY <1>0, <2>1, <2>3, <2>4, SMT DEF QueueInv
<1>4. ASSUME NEW w \in Writers,
             \/ RoomError(w) \/ RoomDelay(w) \/ DelayOver(w) \/ RoomWait(w) \/ RoomWake(w)
             \/ RoomSwitchFails(w) \/ RoomNull(w) \/ AddRecord(w) \/ AddRecordFails(w)
             \/ Sync(w) \/ SyncFails(w) \/ InsertInto(w) \/ Publish(w)
      PROVE  QueueInv'
  <2>1. PICK p \in LeaderPcs : /\ pc[w] \in LeaderPcs
                               /\ pc' = [pc EXCEPT ![w] = p]
                               /\ UNCHANGED <<writers, done, cvWait>>
    BY <1>4 DEF RoomError, RoomDelay, DelayOver, RoomWait, RoomWake, RoomSwitchFails,
       RoomNull, AddRecord, AddRecordFails, Sync, SyncFails, InsertInto, Publish, InRoom,
       Insertion
  <2>2. \/ loc' = loc \/ loc' = [loc EXCEPT ![w].status = "error"]
        \/ loc' = [loc EXCEPT ![w].delay = FALSE] \/ loc' = [loc EXCEPT ![w].status = "syncerror"]
    BY <1>4 DEF RoomError, RoomDelay, DelayOver, RoomWait, RoomWake, RoomSwitchFails,
       RoomNull, AddRecord, AddRecordFails, Sync, SyncFails, InsertInto, Publish
  <2>3. \A x \in Writers : loc'[x].group = loc[x].group
    <3> USE <1>0, <1>a DEF WriterTypes, LocRecords
    <3>1. CASE loc' = [loc EXCEPT ![w].status = "error"]
      BY <3>1
    <3>2. CASE loc' = [loc EXCEPT ![w].status = "syncerror"]
      BY <3>2
    <3>3. CASE loc' = [loc EXCEPT ![w].delay = FALSE]
      BY <3>3
    <3> QED
      BY <2>2, <3>1, <3>2, <3>3
  <2>4. \E k \in Places : writers[k] = loc'[w].group.last
    BY <1>0, <2>1, <2>3, SMTT(20) DEF QueueInv
  <2> QED
    BY <1>0, <2>1, <2>3, <2>4, LeaderMoves
<1>5. ASSUME NEW w \in Writers, RoomSwitch(w)
      PROVE  QueueInv'
  <2>1. loc' = [loc EXCEPT ![w].force = FALSE] /\ UNCHANGED <<pc, writers, done, cvWait>>
    BY <1>5 DEF RoomSwitch
  <2>2. \A x \in Writers : loc'[x].group = loc[x].group
    BY <1>0, <1>a, <2>1 DEF WriterTypes, LocRecords
  <2> QED
    BY <1>0, <2>1, <2>2, SMT DEF QueueInv, Places
<1>6. ASSUME NEW w \in Writers, BuildBatchGroup(w)
      PROVE  QueueInv'
  <2>1. PICK k \in Places :
          loc' = [loc EXCEPT ![w].group =
                    [last |-> writers[k], entries |-> GroupEntries(k),
                     lastSeq |-> lastSequence + Cardinality(Cells(k))]]
    BY <1>6 DEF BuildBatchGroup, Places
  <2> DEFINE es == GroupEntries(k)
             n == lastSequence + Cardinality(Cells(k))
  <2>2. loc' = [loc EXCEPT ![w].group = [last |-> writers[k], entries |-> es, lastSeq |-> n]]
    BY <2>1
  <2> HIDE DEF es, n
  <2>3. loc'[w].group.last = writers[k] /\ \A x \in Writers \ {w} : loc'[x] = loc[x]
    BY <1>0, <1>a, <2>2 DEF WriterTypes, LocRecords
  <2>4. pc[w] = "room" /\ pc' = [pc EXCEPT ![w] = "log"] /\ UNCHANGED <<writers, done, cvWait>>
    BY <1>6 DEF BuildBatchGroup, InRoom
  <2> QED
    BY <1>0, <2>3, <2>4, LeaderMoves
<1>7. ASSUME NEW w \in Writers, Pop(w)
      PROVE  QueueInv'
  <2> DEFINE n == Len(writers)
  <2>1. PICK k \in Places :
          LET followers == {writers[i] : i \in 1..k} \ {w}
              front == IF k < n THEN {writers[k + 1]} ELSE {}
          IN  /\ writers[k] = loc[w].group.last
              /\ writers' = SubSeq(writers, k + 1, n)
              /\ done' = [x \in Writers |-> done[x] \/ x \in followers]
              /\ loc' = [x \in Writers |-> IF x \in followers
                                           THEN [loc[x] EXCEPT !.status = loc[w].status]
                                           ELSE loc[x]]
              /\ cvWait' = cvWait \ (followers \cup front)
    BY <1>7 DEF Pop, NewFront, Places
  <2>2. /\ pc[w] = "pop" /\ \E p \in {"immwait", "idle"} : pc' = [pc EXCEPT ![w] = p]
    BY <1>7 DEF Pop, Return
  <2>3. n \in Nat /\ k \in Nat /\ k <= n /\ k > 0 /\ writers[1] = w
    BY <1>0, <2>2, SMT DEF QueueInv, Places, WriterTypes
  <2>4. Len(writers') = n - k /\ \A i \in 1..(n - k) : writers'[i] = writers[k + i]
    BY <1>0, <2>1, <2>3, SuffixFacts, SMTT(20) DEF WriterTypes
  <2>5. \A x \in Writers : loc'[x].group = loc[x].group
    BY <1>0, <1>a, <2>1 DEF WriterTypes, LocRecords
  <2>6. \A x \in Writers : ~done'[x] <=> ~done[x] /\ (x = w \/ \A i \in 1..k : x # writers[i])
    BY <1>0, <2>1, Zenon DEF WriterTypes
  <2>7. \A i, j \in 1..(n - k) : writers'[i] = writers'[j] => i = j
    BY <1>0, <2>3, <2>4, SMTT(20) DEF QueueInv, Places
  <2>8. \A i \in (k + 1)..n : pc[writers[i]] = "queued" /\ ~done[writers[i]] /\ writers[i] # w
    BY <1>0, <2>3, SMT DEF QueueInv, Places, WriterTypes
  <2>9. \A i \in (k + 1)..n : pc'[writers[i]] = "queued" /\ ~done'[writers[i]]
    <3> SUFFICES ASSUME NEW i \in (k + 1)..n
                 PROVE  pc'[writers[i]] = "queued" /\ ~done'[writers[i]]
      OBVIOUS
    <3>1. writers[i] \in Writers /\ \A j \in 1..k : writers[i] # writers[j]
      BY <1>0, <2>3, SMT DEF QueueInv, Places, WriterTypes
    <3>2. ~done'[writers[i]]
      BY <2>6, <2>8, <3>1
    <3> QED
      BY <1>0, <2>2, <2>8, <3>1, <3>2 DEF WriterTypes
  <2>10. \A i \in 1..(n - k) : pc'[writers'[i]] = "queued" /\ ~done'[writers'[i]]
    <3> SUFFICES ASSUME NEW i \in 1..(n - k)
                 PROVE  pc'[writers'[i]] = "queued" /\ ~done'[writers'[i]]
      OBVIOUS
    <3>1. writers'[i] = writers[k + i] /\ k + i \in (k + 1)..n
      BY <2>3, <2>4, SMTT(20)
    <3> QED
      BY <2>9, <3>1
  <2>11. \A x \in Writers : pc'[x] \notin LeaderPcs
    BY <1>0, <2>2, <2>3, SMTT(20) DEF QueueInv, Places, WriterTypes
  <2>12. ASSUME NEW x \in Writers, pc'[x] = "queued", ~done'[x]
         PROVE  loc'[x].group.last = x /\ \E i \in 1..(n - k) : writers'[i] = x
    <3>1. pc[x] = "queued" /\ ~done[x] /\ x # w
      BY <1>0, <2>2, <2>6, <2>12 DEF WriterTypes
    <3>2. PICK j \in Places : writers[j] = x
      BY <1>0, <3>1 DEF QueueInv
    <3>3. j > k
      <4>1. \A i \in 1..k : x # writers[i]
        BY <2>6, <2>12, <3>1
      <4> QED
        BY <2>3, <3>2, <4>1, SMT DEF Places
    <3>4. j - k \in 1..(n - k) /\ writers'[j - k] = x
      BY <2>3, <2>4, <3>2, <3>3, SMT DEF Places
    <3> QED
      BY <1>0, <2>5, <3>1, <3>4, SMTT(20) DEF QueueInv
  <2>13. cvWait' = {writers'[i] : i \in 2..(n - k)}
    <3>1. cvWait' = {writers[i] : i \in 2..n}
                    \ (({writers[i] : i \in 1..k} \ {w}) \cup (IF k < n THEN {writers[k + 1]} ELSE {}))
      BY <1>0, <2>1 DEF QueueInv
    <3>2. ASSUME NEW x \in cvWait' PROVE x \in {writers'[i] : i \in 2..(n - k)}
      <4>1. PICK j \in 2..n : x = writers[j] /\ j > k + 1
        BY <1>0, <2>3, <3>1, <3>2, SMTT(20) DEF QueueInv, Places
      <4>2. j - k \in 2..(n - k) /\ writers'[j - k] = x
        BY <2>3, <2>4, <4>1, SMT
      <4> QED
        BY <4>2
    <3>3. ASSUME NEW i \in 2..(n - k) PROVE writers'[i] \in cvWait'
      <4>1. writers'[i] = writers[k + i] /\ k + i \in 2..n /\ k + i > k + 1
        BY <2>3, <2>4, SMTT(20)
      <4>2. \A j \in 1..(k + 1) : j <= n => writers[j] # writers[k + i]
        BY <1>0, <2>3, <4>1, SMTT(20) DEF QueueInv, Places
      <4>3. writers[k + i] \notin {writers[j] : j \in 1..k}
        BY <2>3, <4>2, SMT
      <4>4. writers[k + i] \notin (IF k < n THEN {writers[k + 1]} ELSE {})
        BY <2>3, <4>2, SMTT(20)
      <4> QED
        BY <3>1, <4>1, <4>3, <4>4
    <3> QED
      BY <3>2, <3>3
  <2> QED
    BY <2>4, <2>7, <2>10, <2>11, <2>12, <2>13, SMTT(20) DEF QueueInv, Places
<1>8. ASSUME NEW w \in Writers, AwaitImm(w) \/ CompactMemTableReturns(w)
      PROVE  QueueInv'
  <2>1. UNCHANGED <<writers, done, cvWait, loc>> /\ pc[w] = "immwait"
        /\ pc' \in {pc, [pc EXCEPT ![w] = "idle"]}
    BY <1>8 DEF AwaitImm, CompactMemTableReturns, writerVars
  <2>2. pc \in [Writers -> WriterPcs]
    BY <1>0 DEF WriterTypes
  <2>3. \A v \in Writers : /\ pc'[v] \in LeaderPcs <=> pc[v] \in LeaderPcs
                           /\ pc'[v] = "queued" <=> pc[v] = "queued"
    BY <2>1, <2>2 DEF LeaderPcs
  <2>4. \A i \in Places : writers[i] \in Writers
    BY <1>0, SMT DEF WriterTypes, Places
  <2>5. Places' = Places
    BY <2>1 DEF Places
  <2> QED
    BY <1>0, <2>1, <2>3, <2>4, <2>5, SMT DEF QueueInv
<1> QED
  BY <1>1, <1>2, <1>3, <1>4, <1>5, <1>6, <1>7, <1>8 DEF CallStep, WriterStep

\* Every step keeps the queue of DBImpl::Write in order.
LEMMA QueueNext ==
  ASSUME TypeInv, QueueInv, [Next]_vars
  PROVE  QueueInv'
<1>1. CASE CallStep
  BY <1>1, QueueCallStep
<1>2. CASE OtherStep
  <2>1. UNCHANGED <<writers, pc, loc, done, cvWait>>
    BY <1>2, OtherFrame DEF writerVars
  <2>2. Places' = Places
    BY <2>1 DEF Places
  <2> QED
    BY <2>1, <2>2, SMT DEF QueueInv
<1>3. CASE UNCHANGED vars
  <2>1. UNCHANGED <<writers, pc, loc, done, cvWait>>
    BY <1>3 DEF vars, writerVars
  <2>2. Places' = Places
    BY <2>1 DEF Places
  <2> QED
    BY <2>1, <2>2, SMT DEF QueueInv
<1> QED
  BY <1>1, <1>2, <1>3, NextCases

\* What an orderly queue means for the leader, for sleepers and for the pop loop.
LEMMA QueueFacts ==
  ASSUME TypeInv, QueueInv
  PROVE  OneLeader /\ NoLostWakeup /\ PopStops
<1>0. WriterTypes
  BY DEF TypeInv
<1>1. Len(writers) > 0 => writers # <<>> /\ Head(writers) = writers[1]
  BY <1>0, SMT DEF WriterTypes
<1>2. OneLeader
  BY <1>1, SMTT(20) DEF OneLeader, QueueInv
<1>3. \A i \in 2..Len(writers) : pc[writers[i]] = "queued" /\ ~done[writers[i]]
  BY <1>0, SMT DEF QueueInv, Places, WriterTypes
<1>4. NoLostWakeup
  <2> SUFFICES ASSUME NEW w \in cvWait
               PROVE  /\ pc[w] = "queued" /\ ~done[w]
                      /\ writers # <<>> /\ Head(writers) # w
    BY DEF NoLostWakeup
  <2>1. PICK i \in 2..Len(writers) : writers[i] = w
    BY DEF QueueInv
  <2>2. Len(writers) > 0 /\ writers[1] # w
    BY <1>0, <2>1, SMTT(20) DEF QueueInv, Places, WriterTypes
  <2> QED
    BY <1>1, <1>3, <2>1, <2>2
<1>5. PopStops
  BY <1>0, <1>3, SMTT(20) DEF PopStops, QueueInv, Places, WriterTypes
<1> QED
  BY <1>2, <1>4, <1>5

-----------------------------------------------------------------------------
(* bg_cv_.                                                                 *)

\* At first nobody waits on bg_cv_.
LEMMA ScheduleInit ==
  ASSUME Init
  PROVE  ScheduleInv
BY BoundsAssumption, SMT DEF Init, ScheduleInv, WorkPending, NeedsCompaction, IdleBg

\* A writer that goes to sleep on bg_cv_ in MakeRoomForWrite or
\* TEST_CompactMemTable leaves a background call scheduled.
LEMMA ScheduleCallStep ==
  ASSUME TypeInv, ScheduleInv, CallStep
  PROVE  ScheduleInv'
<1> USE DEF ScheduleInv
<1>0. ScheduleInv /\ WriterTypes /\ BgTypes
      /\ UNCHANGED <<shuttingDown, l0, hot, bg, manual, mpc>>
  BY CallFrame DEF TypeInv, BgInv, manualVars
<1>1. PICK w \in Writers : (\E c \in Calls : Write(w, c)) \/ WriterStep(w)
  BY DEF CallStep
<1>2. shuttingDown = "no"
  <2>1. CASE \E c \in Calls : Write(w, c)
    BY <2>1 DEF Write
  <2>2. CASE WriterStep(w)
    <3>1. pc[w] # "idle"
      BY <2>2 DEF WriterStep, WakeFront, WakeDone, RoomError, RoomDelay, DelayOver,
         RoomWait, RoomWake, RoomSwitch, RoomSwitchFails, RoomNull, BuildBatchGroup,
         AddRecord, AddRecordFails, Sync, SyncFails, InsertInto, Publish, Pop, AwaitImm,
         CompactMemTableReturns, InRoom
    <3> QED
      BY <1>0, <3>1
  <2> QED
    BY <1>1, <2>1, <2>2
<1>3. ASSUME NEW b \in BOOLEAN, bgScheduled' = bgScheduled,
             imm' = imm, bgError => bgError',
             bgWait' \subseteq bgWait \cup (IF b THEN {w} ELSE {}), b => WorkPending
      PROVE  ScheduleInv'
  BY <1>0, <1>2, <1>3 DEF WorkPending, NeedsCompaction
<1>4. CASE RoomWait(w) \/ AwaitImm(w)
  <2>1. WorkPending
    <3>1. imm # 0 \/ l0 >= L0Stop
      BY <1>0, <1>2, <1>4 DEF RoomWait, PastDelay, AwaitImm, MustWait
    <3>2. ~bgError /\ shuttingDown = "no"
      BY <1>0, <1>2, <1>4 DEF RoomWait, PastDelay, AwaitImm
    <3>3. l0 >= L0Stop => l0 >= L0Trigger
      BY <1>0, BoundsAssumption, SMT DEF BgTypes
    <3> QED
      BY <3>1, <3>2, <3>3 DEF WorkPending, NeedsCompaction
  <2> QED
    BY <1>3, <1>4, <2>1 DEF RoomWait, PastDelay, AwaitImm, bgVars, dataVars
<1>5. CASE RoomSwitch(w)
  BY <1>0, <1>2, <1>5 DEF RoomSwitch, MaybeScheduleCompaction
<1>6. CASE Publish(w)
  BY <1>3, <1>6 DEF Publish, RecordBackgroundError
<1>7. CASE ((\E c \in Calls : Write(w, c)) \/ WriterStep(w))
           /\ ~(RoomWait(w) \/ AwaitImm(w) \/ RoomSwitch(w) \/ Publish(w))
  <2>1. UNCHANGED <<bgScheduled, imm, bgError, bgWait>>
    BY <1>7 DEF Write, WriterStep, WakeFront, WakeDone, RoomError, RoomDelay, DelayOver,
       RoomWake, RoomSwitchFails, RoomNull, BuildBatchGroup, AddRecord, AddRecordFails,
       Sync, SyncFails, InsertInto, Pop, CompactMemTableReturns, bgVars, dataVars
  <2> QED
    BY <1>3, <2>1
<1> QED
  BY <1>1, <1>4, <1>5, <1>6, <1>7

\* So do manual compactions and the destructor; a background call that ends
\* wakes everybody or is scheduled again.
LEMMA ScheduleOtherStep ==
  ASSUME TypeInv, ScheduleInv, OtherStep
  PROVE  ScheduleInv'
<1> USE DEF ScheduleInv
<1>0. ScheduleInv /\ BgInv /\ BgTypes /\ bg \in BgRecords /\ pc' = pc
  BY OtherFrame DEF TypeInv, BgInv, BgTypes, writerVars
<1>1. ASSUME BackgroundCallEnds, UNCHANGED <<shuttingDown, mpc>>
      PROVE  ScheduleInv'
  BY <1>0, <1>1, EndsIdle DEF BackgroundCallEnds
<1>2. CASE BgNothing \/ ManualEmpty \/ CompactionFails \/ CompactionInstalled
  BY <1>1, <1>2 DEF BgNothing, ManualEmpty, CompactionFails, CompactionInstalled, manualVars
<1>3. CASE FlushStarts \/ FlushBuilt \/ CompactionStarts \/ CompactionWritten
  <2>1. UNCHANGED <<shuttingDown, mpc, manual, imm, bgError, l0, hot, bgScheduled, bgWait>>
    BY <1>3 DEF FlushStarts, FlushBuilt, CompactionStarts, CompactionWritten, manualVars,
       dataVars
  <2>2. bgScheduled
    BY <1>0, <1>3 DEF FlushStarts, FlushBuilt, CompactionStarts, CompactionWritten, BgStarts
  <2> QED
    BY <1>0, <2>1, <2>2
<1>4. CASE FlushFails \/ FlushApplied
  <2>1. UNCHANGED <<shuttingDown, mpc>> /\ FlushEnds /\ bg.pc # "idle"
    BY <1>4 DEF FlushFails, FlushApplied, manualVars
  <2>2. CASE Nested
    BY <1>0, <2>1, <2>2 DEF FlushEnds
  <2>3. CASE ~Nested
    BY <1>1, <2>1, <2>3 DEF FlushEnds
  <2> QED
    BY <2>2, <2>3
<1>5. ASSUME NEW m \in Compactors, CompactRange(m)
      PROVE  ScheduleInv'
  BY <1>0, <1>5 DEF CompactRange, bgVars, dataVars, WorkPending, NeedsCompaction, BgTypes
<1>6. ASSUME NEW m \in Compactors, ManualClaims(m)
      PROVE  ScheduleInv'
  <2>1. WorkPending'
    BY <1>6, ThreadsAssumption DEF ManualClaims, ManualGoesOn, WorkPending
  <2> QED
    BY <1>0, <1>6, <2>1 DEF ManualClaims, MaybeScheduleCompaction
<1>7. ASSUME NEW m \in Compactors, ManualWaits(m)
      PROVE  ScheduleInv'
  BY <1>0, <1>7 DEF ManualWaits, ManualGoesOn, bgVars, dataVars, manualVars, WorkPending,
     NeedsCompaction
<1>8. ASSUME NEW m \in Compactors, ManualReturns(m)
      PROVE  ScheduleInv'
  BY <1>0, <1>8 DEF ManualReturns, bgVars, dataVars, WorkPending, NeedsCompaction, BgTypes
<1>9. ASSUME NEW r \in Readers, GetStarts(r)
      PROVE  ScheduleInv'
  BY <1>0, <1>9 DEF GetStarts, bgVars, dataVars, manualVars, WorkPending, NeedsCompaction
<1>10. ASSUME NEW r \in Readers, GetEnds(r)
      PROVE  ScheduleInv'
  <2>1. UNCHANGED <<shuttingDown, mpc, manual, imm, bgError, l0, bg, bgWait>>
    BY <1>10 DEF GetEnds, dataVars, manualVars
  <2>2. CASE UNCHANGED <<hot, bgScheduled>>
    BY <1>0, <2>1, <2>2 DEF WorkPending, NeedsCompaction
  <2>3. CASE MaybeScheduleCompaction
    BY <1>0, <2>1, <2>3 DEF MaybeScheduleCompaction
  <2> QED
    BY <1>10, <2>2, <2>3 DEF GetEnds
<1>11. CASE Close \/ CloseWakes \/ Closed
  BY <1>0, <1>11 DEF Close, CloseWakes, Closed, vars, bgVars, dataVars, manualVars,
     WorkPending, NeedsCompaction
<1> QED
  BY <1>2, <1>3, <1>4, <1>5, <1>6, <1>7, <1>8, <1>9, <1>10, <1>11
     DEF OtherStep, BackgroundStep, CompactorStep

\* Every step keeps a background call scheduled while there is work for it.
LEMMA ScheduleNext ==
  ASSUME TypeInv, ScheduleInv, [Next]_vars
  PROVE  ScheduleInv'
<1>1. CASE UNCHANGED vars
  BY <1>1 DEF vars, writerVars, dataVars, bgVars, manualVars, ScheduleInv, WorkPending,
     NeedsCompaction
<1> QED
  BY <1>1, NextCases, ScheduleCallStep, ScheduleOtherStep

-----------------------------------------------------------------------------
(* The object of a manual compaction.                                      *)

\* At first nothing is closing.
LEMMA CloseInit ==
  ASSUME Init
  PROVE  CloseInv
BY DEF Init, CloseInv

\* bg_error_ is never cleared.
LEMMA ErrorStays ==
  ASSUME CallStep \/ OtherStep, bgError
  PROVE  bgError'
<1> USE DEF bgVars
<1>1. CASE CallStep
  <2>1. PICK w \in Writers : (\E c \in Calls : Write(w, c)) \/ WriterStep(w)
    BY <1>1 DEF CallStep
  <2>2. CASE Publish(w)
    BY <2>2 DEF Publish, RecordBackgroundError
  <2>3. CASE ~Publish(w)
    BY <2>1, <2>3 DEF Write, WriterStep, WakeFront, WakeDone, RoomError, RoomDelay,
       DelayOver, RoomWait, RoomWake, RoomSwitch, RoomSwitchFails, RoomNull, BuildBatchGroup,
       AddRecord, AddRecordFails, Sync, SyncFails, InsertInto, Pop, AwaitImm,
       CompactMemTableReturns
  <2> QED
    BY <2>2, <2>3
<1>2. CASE OtherStep
  BY <1>2 DEF OtherStep, BackgroundStep, BgNothing, FlushStarts, FlushBuilt, FlushFails,
     FlushApplied, CompactionStarts, ManualEmpty, CompactionWritten, CompactionFails,
     CompactionInstalled, CompactRange, CompactorStep, ManualClaims, ManualWaits,
     ManualReturns, GetStarts, GetEnds, Close, CloseWakes, Closed, vars
<1> QED
  BY <1>1, <1>2

\* The background thread gets into a manual compaction by starting one.
LEMMA ManualStarts ==
  ASSUME BgTypes, OtherStep, ~CompactionStarts
  PROVE  bg'.isManual => bg.isManual
<1>0. bg \in BgRecords
  BY DEF BgTypes
<1>1. CASE FlushStarts
  BY <1>0, <1>1 DEF FlushStarts, BgRecords
<1>2. CASE FlushBuilt
  BY <1>0, <1>2 DEF FlushBuilt, BgRecords
<1>3. CASE CompactionWritten
  BY <1>0, <1>3 DEF CompactionWritten, BgRecords
<1>4. CASE FlushFails \/ FlushApplied
  <2>1. bg' = IdleBg \/ bg' = [bg EXCEPT !.pc = "compact", !.log = 0, !.new = 0]
    BY <1>4 DEF FlushFails, FlushApplied, FlushEnds, BackgroundCallEnds
  <2>2. CASE bg' = IdleBg
    BY <2>2 DEF IdleBg
  <2>3. CASE bg' = [bg EXCEPT !.pc = "compact", !.log = 0, !.new = 0]
    BY <1>0, <2>3 DEF BgRecords
  <2> QED
    BY <2>1, <2>2, <2>3
<1>5. CASE BgNothing \/ ManualEmpty \/ CompactionFails \/ CompactionInstalled
  <2>1. bg' = IdleBg
    BY <1>5 DEF BgNothing, ManualEmpty, CompactionFails, CompactionInstalled, BackgroundCallEnds
  <2> QED
    BY <2>1 DEF IdleBg
<1>6. CASE ~BackgroundStep
  BY <1>6 DEF OtherStep, CompactRange, CompactorStep, ManualClaims, ManualWaits,
     ManualReturns, GetStarts, GetEnds, Close, CloseWakes, Closed, vars, bgVars
<1> QED
  BY <1>1, <1>2, <1>3, <1>4, <1>5, <1>6 DEF BackgroundStep

\* While the database is being closed, no manual compaction is claimed or
\* started.
LEMMA CloseNext ==
  ASSUME TypeInv, CloseInv, [Next]_vars
  PROVE  CloseInv'
<1>0. BgInv /\ BgTypes
  BY DEF TypeInv, BgInv
<1>1. CASE UNCHANGED vars
  BY <1>1 DEF vars, bgVars, manualVars, CloseInv
<1>2. CASE CallStep
  BY <1>2, CallFrame, ErrorStays DEF CloseInv, manualVars
<1>3. CASE Close
  <2>1. manual = None
    BY <1>0, <1>3 DEF Close, BgInv, BgTypes
  <2>2. bg.isManual => bgError
    BY <1>0, <1>3, <2>1 DEF Close, BgInv
  <2> QED
    BY <1>3, <2>1, <2>2 DEF Close, CloseInv, bgVars, manualVars
<1>4. CASE OtherStep /\ ~Close
  <2> SUFFICES ASSUME shuttingDown' # "no"
               PROVE  manual' = None /\ (bg'.isManual => bgError')
    BY DEF CloseInv
  <2>1. shuttingDown # "no"
    BY <1>4 DEF OtherStep, BackgroundStep, BgNothing, FlushStarts, FlushBuilt, FlushFails,
       FlushApplied, CompactionStarts, ManualEmpty, CompactionWritten, CompactionFails,
       CompactionInstalled, CompactRange, CompactorStep, ManualClaims, ManualWaits,
       ManualReturns, GetStarts, GetEnds, CloseWakes, Closed, vars
  <2>2. manual = None /\ (bg.isManual => bgError)
    BY <2>1 DEF CloseInv
  <2>3. manual' = None
    BY <1>0, <1>4, <2>1, <2>2 DEF OtherStep, BackgroundStep, BgNothing, FlushStarts, FlushBuilt,
       FlushFails, FlushApplied, CompactionStarts, ManualEmpty, CompactionWritten,
       CompactionFails, CompactionInstalled, ManualEnds, CompactRange, CompactorStep,
       ManualClaims, ManualGoesOn, ManualWaits, ManualReturns, GetStarts, GetEnds, CloseWakes,
       Closed, vars, manualVars
  <2>4. bg'.isManual => bg.isManual
    BY <1>0, <1>4, <2>1, ManualStarts DEF CompactionStarts, BgMayWork
  <2>5. bgError => bgError'
    BY <1>4, ErrorStays
  <2> QED
    BY <2>2, <2>3, <2>4, <2>5
<1> QED
  BY <1>1, <1>2, <1>3, <1>4, NextCases

\* A step that dereferences NULL ends a manual compaction whose owner is gone.
LEMMA FreedStep ==
  ASSUME TypeInv, CloseInv, [Next]_vars, ~crashed, crashed'
  PROVE  bg.isManual /\ bgError
<1>0. BgInv
  BY DEF TypeInv
<1>1. OtherStep
  BY NextCases, CallFrame DEF vars, bgVars
<1>2. bg.isManual /\ manual = None
  BY <1>1 DEF OtherStep, BackgroundStep, BgNothing, FlushStarts, FlushBuilt, FlushFails,
     FlushApplied, CompactionStarts, ManualEmpty, CompactionWritten, CompactionFails,
     CompactionInstalled, ManualEnds, CompactRange, CompactorStep, ManualClaims, ManualWaits,
     ManualReturns, GetStarts, GetEnds, Close, CloseWakes, Closed, vars, bgVars
<1> QED
  BY <1>0, <1>2 DEF BgInv, CloseInv

\* A writer sets no error.
LEMMA QuietCallStep ==
  ASSUME TypeInv, Faults \cap ErrorFaults = {}, QuietInv, CallStep
  PROVE  QuietInv'
<1>0. WriterTypes /\ BgTypes /\ \A x \in Writers : loc[x] \in LocRecords
  BY DEF TypeInv, WriterTypes, BgInv
<1>1. PICK w \in Writers : (\E c \in Calls : Write(w, c)) \/ WriterStep(w)
  BY DEF CallStep
<1>2. UNCHANGED <<shuttingDown, bg, crashed>>
  BY CallFrame
<1>3. UNCHANGED bgError
  BY <1>1 DEF QuietInv, Write, WriterStep, WakeFront, WakeDone, RoomError, RoomDelay,
     DelayOver, RoomWait, RoomWake, RoomSwitch, RoomSwitchFails, RoomNull, BuildBatchGroup,
     AddRecord, AddRecordFails, Sync, SyncFails, InsertInto, Publish, Pop, AwaitImm,
     CompactMemTableReturns, bgVars
<1>4. ~SyncFails(w)
  BY DEF SyncFails, ErrorFaults
<1>5. CASE \E c \in Calls : Write(w, c)
  <2>1. PICK c \in Calls : loc' = [loc EXCEPT ![w] = NewLoc(w, c)]
    BY <1>5 DEF Write
  <2>2. \A x \in Writers : loc'[x].status = "ok" \/ loc'[x] = loc[x]
    BY <1>0, <2>1 DEF WriterTypes, NewLoc
  <2> QED
    BY <1>2, <1>3, <2>2 DEF QuietInv, ManualNotFreed
<1>6. CASE Pop(w)
  <2>1. \A x \in Writers : \/ loc'[x] = loc[x]
                           \/ loc'[x] = [loc[x] EXCEPT !.status = loc[w].status]
    BY <1>6 DEF Pop
  <2>2. \A x \in Writers : loc'[x].status = loc[x].status \/ loc'[x].status = loc[w].status
    BY <1>0, <2>1 DEF LocRecords
  <2> QED
    BY <1>2, <1>3, <2>2 DEF QuietInv, ManualNotFreed
<1>7. CASE WriterStep(w) /\ ~Pop(w)
  <2>1. \/ loc' = loc \/ loc' = [loc EXCEPT ![w].delay = FALSE]
        \/ loc' = [loc EXCEPT ![w].force = FALSE]
        \/ loc' = [loc EXCEPT ![w].status = "error"]
        \/ \E g : loc' = [loc EXCEPT ![w].group = g]
    BY <1>4, <1>7 DEF WriterStep, WakeFront, WakeDone, RoomError, RoomDelay,
       DelayOver, RoomWait, RoomWake, RoomSwitch, RoomSwitchFails, RoomNull, BuildBatchGroup,
       AddRecord, AddRecordFails, Sync, InsertInto, Publish, AwaitImm,
       CompactMemTableReturns, writerVars
  <2>2. \A x \in Writers : loc'[x].status = loc[x].status \/ loc'[x].status = "error"
    <3> USE <1>0 DEF WriterTypes, LocRecords
    <3>1. CASE loc' = [loc EXCEPT ![w].delay = FALSE]
      BY <3>1
    <3>2. CASE loc' = [loc EXCEPT ![w].force = FALSE]
      BY <3>2
    <3>3. CASE loc' = [loc EXCEPT ![w].status = "error"]
      BY <3>3
    <3>4. CASE \E g : loc' = [loc EXCEPT ![w].group = g]
      BY <3>4, SMT
    <3> QED
      BY <2>1, <3>1, <3>2, <3>3, <3>4
  <2> QED
    BY <1>2, <1>3, <2>2 DEF QuietInv, ManualNotFreed
<1> QED
  BY <1>1, <1>5, <1>6, <1>7

\* The background thread sets one only when it is told to stop.
LEMMA QuietOtherStep ==
  ASSUME TypeInv, CloseInv, Faults \cap ErrorFaults = {}, QuietInv, OtherStep
  PROVE  QuietInv'
<1>0. BgTypes /\ bg \in BgRecords /\ UNCHANGED loc
  BY OtherFrame DEF TypeInv, BgInv, BgTypes, writerVars
<1>1. ~crashed'
  <2>1. [Next]_vars
    BY DEF Next, OtherStep, QuietInv, ManualNotFreed
  <2> QED
    BY <2>1, FreedStep DEF QuietInv, ManualNotFreed
<1>2. ASSUME bgError'
      PROVE  shuttingDown' # "no" /\ ~bg'.isManual
  <2>1. CASE bgError
    BY <1>0, <2>1, ManualStarts DEF QuietInv, CompactionStarts, BgMayWork, OtherStep,
       BackgroundStep, BgNothing, FlushStarts, FlushBuilt, FlushFails, FlushApplied,
       ManualEmpty, CompactionWritten, CompactionFails, CompactionInstalled, CompactRange,
       CompactorStep, ManualClaims, ManualWaits, ManualReturns, GetStarts, GetEnds, Close,
       CloseWakes, Closed, vars
  <2>2. CASE ~bgError
    <3>1. FlushFails \/ CompactionFails
      BY <1>2, <2>2 DEF OtherStep, BackgroundStep, BgNothing, FlushStarts, FlushBuilt,
         FlushApplied, CompactionStarts, ManualEmpty, CompactionWritten, CompactionInstalled,
         CompactRange, CompactorStep, ManualClaims, ManualWaits, ManualReturns, GetStarts,
         GetEnds, Close, CloseWakes, Closed, vars, bgVars
    <3>2. shuttingDown # "no" /\ shuttingDown' = shuttingDown
      BY <3>1 DEF FlushFails, CompactionFails, ErrorFaults
    <3>3. ~bg.isManual
      BY <2>2, <3>2 DEF CloseInv
    <3>4. ~CompactionStarts
      BY <3>2 DEF CompactionStarts, BgMayWork
    <3> QED
      BY <1>0, <3>2, <3>3, <3>4, ManualStarts
  <2> QED
    BY <2>1, <2>2
<1> QED
  BY <1>0, <1>1, <1>2 DEF QuietInv, ManualNotFreed
=============================================================================
