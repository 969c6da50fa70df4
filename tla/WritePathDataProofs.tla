------------------------ MODULE WritePathDataProofs -------------------------
(***************************************************************************)
(* What the database holds: everything a reader can see can be recovered,  *)
(* no two entries share a sequence number, a Get sees the database of one  *)
(* moment, and after a background error the database is read-only.         *)
(***************************************************************************)
EXTENDS WritePathProofs

\* Most leaves are first-order reasoning about sets and functions: Zenon tries them
\* first. The leaves that need arithmetic name the SMT solver.
USE Zenon, SMTT(20)

-----------------------------------------------------------------------------
(* Write-ahead logging.                                                    *)

\* The first memtable and its log are empty.
LEMMA LogInit ==
  ASSUME Init
  PROVE  LogInv
BY SMT DEF Init, LogInv

\* A step that changes no data and brings nobody to the insertion.
LEMMA LogKept ==
  ASSUME LogInv, UNCHANGED <<logs, memtable, mem, imm, logNumber>>,
         \A x \in Writers : pc'[x] \in {"sync", "insert"} =>
           pc[x] \in {"sync", "insert"} /\ loc'[x].group = loc[x].group
  PROVE  LogInv'
BY DEF LogInv

\* A writer logs its group before it inserts it, and switches log and memtable
\* together.
LEMMA LogCallStep ==
  ASSUME TypeInv, QueueInv, LogInv, CallStep
  PROVE  LogInv'
<1>0. WriterTypes /\ DataInv /\ LogInv /\ QueueInv
  BY DEF TypeInv
<1>1. PICK w \in Writers : (\E c \in Calls : Write(w, c)) \/ WriterStep(w)
  BY DEF CallStep
<1>a. \A x \in Writers : loc[x] \in LocRecords
  BY <1>0 DEF WriterTypes
<1>2. CASE \E c \in Calls : Write(w, c)
  <2>1. /\ \E p \in {"room", "queued"} : pc' = [pc EXCEPT ![w] = p]
        /\ \A x \in Writers \ {w} : loc'[x] = loc[x]
        /\ UNCHANGED <<logs, memtable, mem, imm, logNumber>>
    BY <1>0, <1>2, SMT DEF Write, dataVars, WriterTypes
  <2> QED
    BY <1>0, <2>1, LogKept DEF WriterTypes
<1>3. CASE \/ WakeFront(w) \/ WakeDone(w) \/ RoomError(w) \/ RoomDelay(w) \/ DelayOver(w)
           \/ RoomWait(w) \/ RoomWake(w) \/ RoomSwitchFails(w) \/ RoomNull(w) \/ SyncFails(w)
           \/ BuildBatchGroup(w) \/ Publish(w) \/ CompactMemTableReturns(w)
  <2>1. /\ \E p \in WriterPcs \ {"sync", "insert"} : pc' = [pc EXCEPT ![w] = p]
        /\ UNCHANGED <<logs, memtable, mem, imm, logNumber>>
    BY <1>3 DEF WakeFront, WakeDone, RoomError, RoomDelay, DelayOver, RoomWait, RoomWake,
       RoomSwitchFails, RoomNull, SyncFails, BuildBatchGroup, Publish,
       CompactMemTableReturns, Return, dataVars, WriterPcs
  <2>2. \A x \in Writers \ {w} : loc'[x] = loc[x]
    BY <1>0, <1>3 DEF WakeFront, WakeDone, RoomError, RoomDelay, DelayOver, RoomWait,
       RoomWake, RoomSwitchFails, RoomNull, SyncFails, BuildBatchGroup, Publish,
       CompactMemTableReturns, WriterTypes
  <2> QED
    BY <1>0, <2>1, <2>2, LogKept DEF WriterTypes
<1>4. CASE RoomSwitch(w)
  <2>1. /\ imm' = mem /\ mem' = mem + 1 /\ pc[w] = "room"
        /\ UNCHANGED <<logNumber, pc>>
    BY <1>4 DEF RoomSwitch, InRoom
  <2>2. /\ logs' = [n \in DOMAIN logs \cup {mem + 1} |-> IF n = mem + 1 THEN {} ELSE logs[n]]
        /\ memtable' = [n \in DOMAIN memtable \cup {mem + 1} |->
                          IF n = mem + 1 THEN {} ELSE memtable[n]]
    BY <1>4 DEF RoomSwitch
  <2>3. \A x \in Writers : pc[x] \notin {"sync", "insert"}
    BY <1>0, <2>1, OnlyLeader DEF LeaderPcs
  <2>4. mem \in Nat /\ logNumber \in Nat /\ mem \in DOMAIN logs /\ mem \in DOMAIN memtable
    BY <1>0 DEF DataInv, DataTypes
  <2>5. mem + 1 # mem /\ mem # 0 /\ mem + 1 >= logNumber
    BY <1>0, <2>4, SMT DEF LogInv, DataInv, DataTypes
  <2>6. memtable'[mem'] = {} /\ memtable'[imm'] = memtable[mem] /\ logs'[imm'] = logs[mem]
        /\ imm' \in DOMAIN logs'
    BY <2>1, <2>2, <2>4, <2>5
  <2> QED
    BY <1>0, <2>1, <2>3, <2>5, <2>6 DEF LogInv
<1>5. CASE AddRecord(w) \/ AddRecordFails(w)
  <2> DEFINE es == loc[w].group.entries
  <2>1. /\ \/ logs' = [logs EXCEPT ![mem] = @ \cup es]
           \/ logs' = logs /\ pc' = [pc EXCEPT ![w] = "relock"]
        /\ \E p \in WriterPcs : pc' = [pc EXCEPT ![w] = p]
        /\ pc[w] = "log" /\ UNCHANGED <<memtable, mem, imm, logNumber>>
    BY <1>5 DEF AddRecord, AddRecordFails, WriterPcs, Insertion
  <2>2. loc' = loc \/ loc' = [loc EXCEPT ![w].status = "error"]
    BY <1>5 DEF AddRecord, AddRecordFails
  <2>3. \A x \in Writers : loc'[x].group = loc[x].group
    BY <1>0, <1>a, <2>2, SMT DEF WriterTypes, LocRecords
  <2>4. \A x \in Writers \ {w} : pc[x] \notin {"sync", "insert"}
    BY <1>0, <2>1, OnlyLeader DEF LeaderPcs
  <2>5. mem \in DOMAIN logs
    BY <1>0 DEF DataInv
  <2>6. DOMAIN logs' = DOMAIN logs /\ \A n \in DOMAIN logs : logs[n] \subseteq logs'[n]
    BY <2>1
  <2>7. pc'[w] \in {"sync", "insert"} => es \subseteq logs'[mem]
    BY <1>0, <2>1, <2>5 DEF WriterTypes
  <2>8. \A x \in Writers : pc'[x] \in {"sync", "insert"} => x = w
    BY <1>0, <2>1, <2>4 DEF WriterTypes
  <2> QED
    BY <1>0, <2>1, <2>3, <2>5, <2>6, <2>7, <2>8 DEF LogInv
<1>6. CASE Sync(w)
  <2>1. /\ pc[w] = "sync" /\ \E p \in WriterPcs : pc' = [pc EXCEPT ![w] = p]
        /\ UNCHANGED <<logs, memtable, mem, imm, logNumber, loc>>
    BY <1>6 DEF Sync, Insertion, WriterPcs
  <2> QED
    BY <1>0, <2>1, LogKept DEF WriterTypes
<1>7. CASE InsertInto(w)
  <2>1. PICK e \in loc[w].group.entries : memtable' = [memtable EXCEPT ![mem] = @ \cup {e}]
    BY <1>7 DEF InsertInto
  <2>2. /\ pc[w] = "insert" /\ \E p \in WriterPcs : pc' = [pc EXCEPT ![w] = p]
        /\ UNCHANGED <<logs, mem, imm, logNumber, loc>>
    BY <1>7 DEF InsertInto, WriterPcs
  <2>3. e \in logs[mem]
    BY <1>0, <2>1, <2>2 DEF LogInv
  <2>4. \A x \in Writers : pc'[x] \in {"sync", "insert"} => pc[x] \in {"sync", "insert"}
    BY <1>0, <2>2 DEF WriterTypes
  <2>5. mem \in DOMAIN memtable /\ (imm # 0 => imm \in DOMAIN memtable)
    BY <1>0 DEF DataInv
  <2>6. memtable'[mem] \subseteq logs[mem] /\ (imm # 0 => memtable'[imm] \subseteq logs[imm])
    BY <1>0, <2>1, <2>3, <2>5 DEF LogInv
  <2> QED
    BY <1>0, <2>2, <2>4, <2>6 DEF LogInv
<1>8. CASE Pop(w)
  <2>1. /\ \E p \in {"immwait", "idle"} : pc' = [pc EXCEPT ![w] = p]
        /\ UNCHANGED <<logs, memtable, mem, imm, logNumber>>
    BY <1>8 DEF Pop, Return, dataVars
  <2>2. pc[w] = "pop"
    BY <1>8 DEF Pop
  <2>3. \A x \in Writers : pc'[x] \notin {"sync", "insert"}
    BY <1>0, <2>1, <2>2, OnlyLeader DEF LeaderPcs, WriterTypes
  <2> QED
    BY <1>0, <2>1, <2>3, LogKept
<1>9. CASE AwaitImm(w)
  BY <1>0, <1>9, LogKept DEF AwaitImm, writerVars, dataVars
<1> QED
  BY <1>1, <1>2, <1>3, <1>4, <1>5, <1>6, <1>7, <1>8, <1>9 DEF WriterStep

\* A flush drops the log of imm_ only with imm_ itself.
LEMMA LogOtherStep ==
  ASSUME TypeInv, LogInv, OtherStep
  PROVE  LogInv'
<1>0. DataInv /\ LogInv /\ UNCHANGED <<pc, loc, mem, memtable>>
  BY OtherFrame DEF TypeInv, writerVars
<1>1. CASE FlushApplied
  <2>1. /\ imm' = 0 /\ logNumber' = mem
        /\ logs' = IF bgError THEN logs
                   ELSE [n \in {m \in DOMAIN logs : m >= mem} |-> logs[n]]
    BY <1>0, <1>1 DEF FlushApplied, DataInv
  <2>2. mem \in Nat /\ mem \in DOMAIN logs /\ mem >= mem
    BY <1>0, SMT DEF DataInv, DataTypes
  <2>3. logs'[mem] = logs[mem]
    BY <2>1, <2>2
  <2> QED
    BY <1>0, <2>1, <2>2, <2>3 DEF LogInv
<1>2. CASE ~FlushApplied
  <2>1. UNCHANGED dataVars
    BY <1>2 DEF OtherStep, BackgroundStep, BgNothing, FlushStarts, FlushBuilt, FlushFails,
       CompactionStarts, ManualEmpty, CompactionWritten, CompactionFails,
       CompactionInstalled, CompactRange, CompactorStep, ManualClaims, ManualWaits,
       ManualReturns, GetStarts, GetEnds, Close, CloseWakes, Closed, vars
  <2> QED
    BY <1>0, <2>1, LogKept DEF dataVars
<1> QED
  BY <1>1, <1>2

\* Every step keeps the memtables covered by their logs.
LEMMA LogNext ==
  ASSUME TypeInv, QueueInv, LogInv, [Next]_vars
  PROVE  LogInv'
<1>1. CASE UNCHANGED vars
  BY <1>1, LogKept DEF vars, writerVars, dataVars
<1> QED
  BY <1>1, NextCases, LogCallStep, LogOtherStep

-----------------------------------------------------------------------------
(* The group in flight.                                                    *)

\* At first no group is being written.
LEMMA GroupInit ==
  ASSUME Init
  PROVE  GroupInv
BY SMT DEF Init, GroupInv

\* A step that leaves LastSequence and the memtables' numbers alone and lets
\* nobody but a writer of such a group go on.
LEMMA GroupKept ==
  ASSUME GroupInv, UNCHANGED <<lastSequence, mem>>, DOMAIN memtable' = DOMAIN memtable,
         \A x \in Writers : pc'[x] \in {"log", "sync", "insert", "relock"} =>
           /\ pc[x] \in {"log", "sync", "insert", "relock"}
           /\ pc'[x] = "relock" \/ pc[x] # "relock"
           /\ loc'[x].group = loc[x].group
  PROVE  GroupInv'
BY DEF GroupInv

\* BuildBatchGroup numbers its group above LastSequence, and the leader has
\* LastSequence to itself until it publishes it.
LEMMA GroupCallStep ==
  ASSUME TypeInv, GroupFacts, QueueInv, GroupInv, CallStep
  PROVE  GroupInv'
<1>0. WriterTypes /\ DataInv /\ GroupInv /\ QueueInv
  BY DEF TypeInv
<1>1. PICK w \in Writers : (\E c \in Calls : Write(w, c)) \/ WriterStep(w)
  BY DEF CallStep
<1>a. \A x \in Writers : loc[x] \in LocRecords
  BY <1>0 DEF WriterTypes
<1>2. CASE \E c \in Calls : Write(w, c)
  <2>1. /\ \E p \in {"room", "queued"} : pc' = [pc EXCEPT ![w] = p]
        /\ \A x \in Writers \ {w} : loc'[x] = loc[x]
        /\ UNCHANGED <<memtable, mem, lastSequence>>
    BY <1>0, <1>2, SMT DEF Write, dataVars, WriterTypes
  <2> QED
    BY <1>0, <2>1, GroupKept DEF WriterTypes
<1>3. CASE \/ WakeFront(w) \/ WakeDone(w) \/ RoomError(w) \/ RoomDelay(w) \/ DelayOver(w)
           \/ RoomWait(w) \/ RoomWake(w) \/ RoomSwitchFails(w) \/ RoomNull(w)
           \/ CompactMemTableReturns(w)
  <2>1. /\ \E p \in WriterPcs \ {"log", "sync", "insert", "relock"} : pc' = [pc EXCEPT ![w] = p]
        /\ UNCHANGED <<memtable, mem, lastSequence>>
    BY <1>3 DEF WakeFront, WakeDone, RoomError, RoomDelay, DelayOver, RoomWait, RoomWake,
       RoomSwitchFails, RoomNull, CompactMemTableReturns, Return, dataVars, WriterPcs
  <2>2. \A x \in Writers \ {w} : loc'[x] = loc[x]
    BY <1>0, <1>3 DEF WakeFront, WakeDone, RoomError, RoomDelay, DelayOver, RoomWait,
       RoomWake, RoomSwitchFails, RoomNull, CompactMemTableReturns, WriterTypes
  <2> QED
    BY <1>0, <2>1, <2>2, GroupKept DEF WriterTypes
<1>4. CASE RoomSwitch(w)
  <2>1. mem' = mem + 1 /\ pc[w] = "room" /\ UNCHANGED <<pc, lastSequence>>
    BY <1>4 DEF RoomSwitch, InRoom
  <2>2. DOMAIN memtable' = DOMAIN memtable \cup {mem + 1}
    BY <1>4 DEF RoomSwitch
  <2>3. \A x \in Writers : pc[x] \notin {"log", "sync", "insert", "relock"}
    BY <1>0, <2>1, OnlyLeader DEF LeaderPcs
  <2>4. mem \in Nat /\ DOMAIN memtable \subseteq Nat
    BY <1>0 DEF DataInv, DataTypes
  <2> QED
    BY <1>0, <2>1, <2>2, <2>3, <2>4, SMTT(20) DEF GroupInv
<1>5. CASE BuildBatchGroup(w)
  <2>1. PICK k \in 1..Len(writers) :
          loc' = [loc EXCEPT ![w].group =
                    [last |-> writers[k], entries |-> GroupEntries(k),
                     lastSeq |-> lastSequence + Cardinality(Cells(k))]]
    BY <1>5 DEF BuildBatchGroup
  <2> DEFINE es == GroupEntries(k)
             n == lastSequence + Cardinality(Cells(k))
  <2>2. (\A e \in es : e.seq > lastSequence) /\ n >= lastSequence
    BY <1>0 DEF GroupFacts, Places
  <2>3. loc' = [loc EXCEPT ![w].group = [last |-> writers[k], entries |-> es, lastSeq |-> n]]
    BY <2>1
  <2> HIDE DEF es, n
  <2>4. /\ loc'[w].group.entries = es /\ loc'[w].group.lastSeq = n
        /\ \A x \in Writers \ {w} : loc'[x] = loc[x]
    BY <1>0, <1>a, <2>3 DEF WriterTypes, LocRecords
  <2>5. pc[w] = "room" /\ pc' = [pc EXCEPT ![w] = "log"] /\ UNCHANGED <<lastSequence, mem, memtable>>
    BY <1>5 DEF BuildBatchGroup, InRoom, dataVars
  <2> QED
    BY <1>0, <2>2, <2>4, <2>5 DEF GroupInv, WriterTypes
<1>6. CASE AddRecord(w) \/ AddRecordFails(w) \/ Sync(w) \/ SyncFails(w) \/ InsertInto(w)
  <2>1. /\ pc[w] \in {"log", "sync", "insert"} /\ UNCHANGED <<lastSequence, mem>>
        /\ \E p \in {"sync", "insert", "relock"} : pc' = [pc EXCEPT ![w] = p]
    BY <1>6 DEF AddRecord, AddRecordFails, Sync, SyncFails, InsertInto, Insertion, dataVars
  <2>2. DOMAIN memtable' = DOMAIN memtable
    BY <1>6 DEF AddRecord, AddRecordFails, Sync, SyncFails, InsertInto, dataVars
  <2>3. \/ loc' = loc \/ loc' = [loc EXCEPT ![w].status = "error"]
        \/ loc' = [loc EXCEPT ![w].status = "syncerror"]
    BY <1>6 DEF AddRecord, AddRecordFails, Sync, SyncFails, InsertInto
  <2>4. \A x \in Writers : loc'[x].group = loc[x].group
    <3> USE <1>0, <1>a DEF WriterTypes, LocRecords
    <3>1. CASE loc' = [loc EXCEPT ![w].status = "error"]
      BY <3>1
    <3>2. CASE loc' = [loc EXCEPT ![w].status = "syncerror"]
      BY <3>2
    <3> QED
      BY <2>3, <3>1, <3>2
  <2> QED
    BY <1>0, <2>1, <2>2, <2>4, GroupKept DEF WriterTypes
<1>7. CASE Publish(w) \/ Pop(w)
  <2>1. /\ \E p \in {"pop", "immwait", "idle"} : pc' = [pc EXCEPT ![w] = p]
        /\ pc[w] \in {"relock", "pop"} /\ UNCHANGED <<mem, memtable>>
    BY <1>7 DEF Publish, Pop, Return, dataVars
  <2>2. \A x \in Writers : pc'[x] \notin {"log", "sync", "insert", "relock"}
    BY <1>0, <2>1, OnlyLeader DEF LeaderPcs, WriterTypes
  <2> QED
    BY <1>0, <2>1, <2>2 DEF GroupInv
<1>8. CASE AwaitImm(w)
  BY <1>0, <1>8, GroupKept DEF AwaitImm, writerVars, dataVars
<1> QED
  BY <1>1, <1>2, <1>3, <1>4, <1>5, <1>6, <1>7, <1>8 DEF WriterStep

\* Every step keeps the group in flight above LastSequence.
LEMMA GroupNext ==
  ASSUME TypeInv, GroupFacts, QueueInv, GroupInv, [Next]_vars
  PROVE  GroupInv'
<1>1. CASE OtherStep
  BY <1>1, OtherFrame, GroupKept DEF writerVars
<1>2. CASE UNCHANGED vars
  BY <1>2, GroupKept DEF vars, writerVars, dataVars
<1> QED
  BY <1>1, <1>2, NextCases, GroupCallStep

-----------------------------------------------------------------------------
(* Sequence numbers.                                                       *)

\* At first nothing is written.
LEMMA SeqInit ==
  ASSUME Init
  PROVE  SeqInv
BY DEF Init, SeqInv, SequencesUnique, Written, Flight

\* A step that adds nothing to what was written and neither starts nor ends a
\* group.
LEMMA SeqKept ==
  ASSUME SeqInv, Written' \subseteq Written, UNCHANGED lastSequence,
         \A x \in Writers : /\ pc'[x] \in Flight <=> pc[x] \in Flight
                            /\ pc[x] \in Flight => loc'[x].group = loc[x].group
  PROVE  SeqInv'
BY DEF SeqInv, SequencesUnique

\* A step that writes entries of the group in flight.
LEMMA SeqGrows ==
  ASSUME TypeInv, QueueInv, SeqInv, UNCHANGED lastSequence,
         NEW w \in Writers, pc[w] \in Flight,
         Written \subseteq Entries,
         Written' \subseteq Written \cup loc[w].group.entries,
         \A x \in Writers : /\ pc'[x] \in Flight <=> pc[x] \in Flight
                            /\ loc'[x].group = loc[x].group
  PROVE  SeqInv'
<1> DEFINE es == loc[w].group.entries
<1>1. \A x \in Writers : pc[x] \in Flight => x = w
  BY OnlyLeader DEF Flight, LeaderPcs
<1>2. \A e \in Written : e.seq <= lastSequence \/ e \in es
  BY <1>1 DEF SeqInv
<1>3. /\ \A e \in es : e.seq > lastSequence
      /\ \A e, f \in es : e.seq = f.seq => e = f
  BY DEF SeqInv
<1>4. lastSequence \in Nat
  BY DEF TypeInv, DataInv, DataTypes
<1>5. es \subseteq Entries
  BY DEF TypeInv, WriterTypes, LocRecords, GroupRecords
<1>6. ASSUME NEW e \in Written', NEW f \in Written', e.seq = f.seq
      PROVE  e = f
  <2>1. e.seq \in Nat /\ f.seq \in Nat
    BY <1>5 DEF Entries
  <2>2. CASE e \in es /\ f \in es
    BY <1>3, <1>6, <2>2
  <2>3. CASE e \notin es \/ f \notin es
    <3>1. e.seq <= lastSequence \/ f.seq <= lastSequence
      BY <1>2, <2>3
    <3>2. e \in Written /\ f \in Written
      BY <1>2, <1>3, <1>4, <1>6, <2>1, <3>1, SMTT(20)
    <3> QED
      BY <1>6, <3>2 DEF SeqInv, SequencesUnique
  <2> QED
    BY <2>2, <2>3
<1>7. SequencesUnique'
  BY <1>6 DEF SequencesUnique
<1>8. \A e \in Written' :
        \/ e.seq <= lastSequence
        \/ \E x \in Writers : pc[x] \in Flight /\ e \in loc[x].group.entries
  BY <1>2
<1> QED
  BY <1>7, <1>8 DEF SeqInv

\* The leader writes only entries of its group, and starts one only when
\* everything written is covered by LastSequence.
LEMMA SeqCallStep ==
  ASSUME TypeInv, GroupFacts, QueueInv, GroupInv, SeqInv, CallStep
  PROVE  SeqInv'
<1>0. WriterTypes /\ DataInv /\ DataTypes /\ SeqInv /\ QueueInv /\ UNCHANGED tables
  BY CallFrame DEF TypeInv, DataInv
<1>1. PICK w \in Writers : (\E c \in Calls : Write(w, c)) \/ WriterStep(w)
  BY DEF CallStep
<1>a. \A x \in Writers : loc[x] \in LocRecords
  BY <1>0 DEF WriterTypes
<1>2. CASE \E c \in Calls : Write(w, c)
  <2>1. /\ pc[w] = "idle" /\ \E p \in {"room", "queued"} : pc' = [pc EXCEPT ![w] = p]
        /\ \A x \in Writers \ {w} : loc'[x] = loc[x]
        /\ UNCHANGED <<logs, memtable, lastSequence>>
    BY <1>0, <1>2, SMT DEF Write, dataVars, WriterTypes
  <2>2. Written' = Written
    BY <1>0, <2>1, SMT DEF Written
  <2> QED
    BY <1>0, <2>1, <2>2, SeqKept DEF WriterTypes, Flight
<1>3. CASE \/ WakeFront(w) \/ WakeDone(w) \/ RoomError(w) \/ RoomDelay(w) \/ DelayOver(w)
           \/ RoomWait(w) \/ RoomWake(w) \/ RoomSwitchFails(w) \/ RoomNull(w)
           \/ CompactMemTableReturns(w) \/ Pop(w)
  <2>1. /\ \E p \in WriterPcs \ Flight : pc' = [pc EXCEPT ![w] = p]
        /\ pc[w] \notin Flight
        /\ UNCHANGED <<logs, memtable, lastSequence>>
    BY <1>3 DEF WakeFront, WakeDone, RoomError, RoomDelay, DelayOver, RoomWait, RoomWake,
       RoomSwitchFails, RoomNull, CompactMemTableReturns, Pop, Return, InRoom, dataVars,
       WriterPcs, Flight
  <2>2. \A x \in Writers : pc[x] \in Flight => loc'[x].group = loc[x].group
    <3>1. CASE Pop(w)
      BY <1>0, <3>1, OnlyLeader DEF Pop, Flight, LeaderPcs
    <3>2. CASE ~Pop(w)
      BY <1>0, <1>3, <2>1, <3>2 DEF WakeFront, WakeDone, RoomError, RoomDelay, DelayOver,
         RoomWait, RoomWake, RoomSwitchFails, RoomNull, CompactMemTableReturns, WriterTypes
    <3> QED
      BY <3>1, <3>2
  <2>3. Written' = Written
    BY <1>0, <2>1, SMT DEF Written
  <2> QED
    BY <1>0, <2>1, <2>2, <2>3, SeqKept DEF WriterTypes
<1>4. CASE RoomSwitch(w)
  <2>1. pc[w] = "room" /\ UNCHANGED <<pc, lastSequence>>
    BY <1>4 DEF RoomSwitch, InRoom
  <2>2. /\ logs' = [n \in DOMAIN logs \cup {mem + 1} |-> IF n = mem + 1 THEN {} ELSE logs[n]]
        /\ memtable' = [n \in DOMAIN memtable \cup {mem + 1} |->
                          IF n = mem + 1 THEN {} ELSE memtable[n]]
    BY <1>4 DEF RoomSwitch
  <2>3. \A x \in Writers : pc[x] \notin Flight
    BY <1>0, <2>1, OnlyLeader DEF LeaderPcs, Flight
  <2>4. /\ \A n \in DOMAIN logs' : logs'[n] = {} \/ (n \in DOMAIN logs /\ logs'[n] = logs[n])
        /\ \A n \in DOMAIN memtable' :
             memtable'[n] = {} \/ (n \in DOMAIN memtable /\ memtable'[n] = memtable[n])
    BY <2>2
  <2>5. Written' \subseteq Written
    BY <1>0, <2>4, SMT DEF Written
  <2> QED
    BY <1>0, <2>1, <2>3, <2>5, SeqKept
<1>5. CASE BuildBatchGroup(w)
  <2>1. PICK k \in 1..Len(writers) :
          loc' = [loc EXCEPT ![w].group =
                    [last |-> writers[k], entries |-> GroupEntries(k),
                     lastSeq |-> lastSequence + Cardinality(Cells(k))]]
    BY <1>5 DEF BuildBatchGroup
  <2> DEFINE es == GroupEntries(k)
             n == lastSequence + Cardinality(Cells(k))
  <2>2. /\ \A e \in es : e.seq > lastSequence /\ e.seq <= n
        /\ \A e, f \in es : e.seq = f.seq => e = f
    BY <1>0 DEF GroupFacts, Places
  <2>3. loc' = [loc EXCEPT ![w].group = [last |-> writers[k], entries |-> es, lastSeq |-> n]]
    BY <2>1
  <2> HIDE DEF es, n
  <2>4. loc'[w].group.entries = es /\ loc'[w].group.lastSeq = n
    BY <1>0, <1>a, <2>3 DEF WriterTypes, LocRecords
  <2>5. /\ pc[w] = "room" /\ pc' = [pc EXCEPT ![w] = "log"]
        /\ UNCHANGED <<lastSequence, logs, memtable>>
    BY <1>5 DEF BuildBatchGroup, InRoom, dataVars
  <2>6. \A x \in Writers : pc[x] \notin Flight
    BY <1>0, <2>5, OnlyLeader DEF LeaderPcs, Flight
  <2>7. \A x \in Writers : pc'[x] \in Flight => x = w
    BY <1>0, <2>5, <2>6 DEF WriterTypes
  <2>8. Written' = Written
    BY <1>0, <2>5, SMT DEF Written
  <2>9. \A e \in Written : e.seq <= lastSequence
    BY <1>0, <2>6 DEF SeqInv
  <2> QED
    BY <1>0, <2>2, <2>4, <2>5, <2>7, <2>8, <2>9 DEF SeqInv, SequencesUnique
<1>6. CASE AddRecord(w) \/ AddRecordFails(w) \/ Sync(w) \/ SyncFails(w) \/ InsertInto(w)
  <2> DEFINE es == loc[w].group.entries
  <2>1. /\ pc[w] \in Flight /\ UNCHANGED lastSequence
        /\ \E p \in Flight : pc' = [pc EXCEPT ![w] = p]
    BY <1>6 DEF AddRecord, AddRecordFails, Sync, SyncFails, InsertInto, Insertion, dataVars,
       Flight
  <2>2. \/ loc' = loc \/ loc' = [loc EXCEPT ![w].status = "error"]
        \/ loc' = [loc EXCEPT ![w].status = "syncerror"]
    BY <1>6 DEF AddRecord, AddRecordFails, Sync, SyncFails, InsertInto
  <2>3. \A x \in Writers : loc'[x].group = loc[x].group
    <3> USE <1>0, <1>a DEF WriterTypes, LocRecords
    <3>1. CASE loc' = [loc EXCEPT ![w].status = "error"]
      BY <3>1
    <3>2. CASE loc' = [loc EXCEPT ![w].status = "syncerror"]
      BY <3>2
    <3> QED
      BY <2>2, <3>1, <3>2
  <2>4. /\ logs' = logs \/ logs' = [logs EXCEPT ![mem] = @ \cup es]
        /\ memtable' = memtable \/ \E e \in es : memtable' = [memtable EXCEPT ![mem] = @ \cup {e}]
    BY <1>6 DEF AddRecord, AddRecordFails, Sync, SyncFails, InsertInto, dataVars
  <2>5. /\ DOMAIN logs' = DOMAIN logs /\ \A n \in DOMAIN logs : logs'[n] \subseteq logs[n] \cup es
        /\ DOMAIN memtable' = DOMAIN memtable
        /\ \A n \in DOMAIN memtable : memtable'[n] \subseteq memtable[n] \cup es
    BY <2>4
  <2>6. Written' \subseteq Written \cup es
    BY <1>0, <2>5, InWritten, WrittenGrows, SMT
  <2>7. \A x \in Writers : pc'[x] \in Flight <=> pc[x] \in Flight
    BY <1>0, <2>1 DEF WriterTypes
  <2>8. Written \subseteq Entries
    BY <1>0, WrittenTyped
  <2> QED
    BY <1>0, <2>1, <2>3, <2>6, <2>7, <2>8, SeqGrows
<1>7. CASE Publish(w)
  <2>1. /\ pc[w] = "relock" /\ pc' = [pc EXCEPT ![w] = "pop"]
        /\ lastSequence' = loc[w].group.lastSeq /\ UNCHANGED <<logs, memtable, loc>>
    BY <1>7 DEF Publish, NewLastSequence
  <2>2. \A x \in Writers : pc[x] \in Flight => x = w
    BY <1>0, <2>1, OnlyLeader DEF LeaderPcs, Flight
  <2>3. \A x \in Writers : pc'[x] \notin Flight
    BY <1>0, <2>1, <2>2 DEF WriterTypes, Flight
  <2>4. Written' = Written
    BY <1>0, <2>1, SMT DEF Written
  <2>5. lastSequence \in Nat /\ lastSequence' \in Nat /\ Written \subseteq Entries
    BY <1>0, <1>a, <2>1, WrittenTyped DEF DataTypes, LocRecords, GroupRecords
  <2>6. ASSUME NEW e \in Written PROVE e.seq <= lastSequence'
    <3>1. e.seq <= lastSequence \/ e \in loc[w].group.entries
      BY <1>0, <2>2 DEF SeqInv
    <3>2. e \in loc[w].group.entries => e.seq <= lastSequence'
      BY <1>0, <2>1 DEF SeqInv, Flight
    <3>3. lastSequence' >= lastSequence
      BY <2>1 DEF GroupInv
    <3>4. e.seq \in Nat
      BY <2>5 DEF Entries
    <3> QED
      BY <2>5, <3>1, <3>2, <3>3, <3>4, SMTT(20)
  <2> QED
    BY <1>0, <2>3, <2>4, <2>6 DEF SeqInv, SequencesUnique
<1>8. CASE AwaitImm(w)
  <2>1. UNCHANGED <<pc, loc, logs, memtable, lastSequence>>
    BY <1>8 DEF AwaitImm, writerVars, dataVars
  <2>2. Written' = Written
    BY <1>0, <2>1, SMT DEF Written
  <2> QED
    BY <1>0, <2>1, <2>2, SeqKept
<1> QED
  BY <1>1, <1>2, <1>3, <1>4, <1>5, <1>6, <1>7, <1>8 DEF WriterStep

\* A flush moves entries to a table and drops a log; nothing else writes.
LEMMA SeqOtherStep ==
  ASSUME TypeInv, SeqInv, OtherStep
  PROVE  SeqInv'
<1>0. DataInv /\ SeqInv /\ UNCHANGED <<pc, loc, mem, memtable, lastSequence>>
  BY OtherFrame DEF TypeInv, writerVars
<1>1. CASE FlushApplied
  <2>1. /\ tables' = tables \cup memtable[imm]
        /\ logs' = IF bgError THEN logs
                   ELSE [n \in {m \in DOMAIN logs : m >= bg.log} |-> logs[n]]
    BY <1>1 DEF FlushApplied
  <2>2. imm \in DOMAIN memtable
    BY <1>0, <1>1 DEF FlushApplied, DataInv
  <2>3. \A n \in DOMAIN logs' : n \in DOMAIN logs /\ logs'[n] = logs[n]
    BY <2>1
  <2>4. Written' \subseteq Written \cup {}
    BY <1>0, <2>1, <2>2, <2>3, InWritten, WrittenGrows
  <2> QED
    BY <1>0, <2>4, SeqKept
<1>2. CASE ~FlushApplied
  <2>1. UNCHANGED dataVars
    BY <1>2 DEF OtherStep, BackgroundStep, BgNothing, FlushStarts, FlushBuilt, FlushFails,
       CompactionStarts, ManualEmpty, CompactionWritten, CompactionFails,
       CompactionInstalled, CompactRange, CompactorStep, ManualClaims, ManualWaits,
       ManualReturns, GetStarts, GetEnds, Close, CloseWakes, Closed, vars
  <2>2. Written' = Written
    BY <2>1, SMT DEF Written, dataVars
  <2> QED
    BY <1>0, <2>2, SeqKept
<1> QED
  BY <1>1, <1>2

\* Every step keeps the numbers apart.
LEMMA SeqNext ==
  ASSUME TypeInv, GroupFacts, QueueInv, GroupInv, SeqInv, [Next]_vars
  PROVE  SeqInv'
<1>1. CASE UNCHANGED vars
  <2>1. Written' = Written /\ UNCHANGED <<pc, loc, lastSequence>>
    BY <1>1, SMT DEF Written, vars, writerVars, dataVars
  <2> QED
    BY <2>1, SeqKept
<1> QED
  BY <1>1, NextCases, SeqCallStep, SeqOtherStep

-----------------------------------------------------------------------------
(* Reading while writers, flushes and compactions run.                     *)

\* At first nobody reads.
LEMMA ReadInit ==
  ASSUME Init
  PROVE  ReadInv
BY DEF Init, ReadInv

\* A step after which every memtable shows the same entries up to LastSequence.
LEMMA ReadKept ==
  ASSUME DataTypes, DataTypes', ReadInv, UNCHANGED reader, lastSequence <= lastSequence',
         DOMAIN memtable \subseteq DOMAIN memtable',
         \A n \in DOMAIN memtable : memtable[n] \subseteq memtable'[n]
           /\ \A e \in memtable'[n] \ memtable[n] : e.seq > lastSequence
  PROVE  ReadInv'
<1>1. ASSUME NEW r \in Readers, reader[r] # None
      PROVE  View(r)' = View(r)
  <2> DEFINE n == reader[r].mem
             i == reader[r].imm
             s == reader[r].snapshot
  <2>1. /\ n \in DOMAIN memtable /\ (i # 0 => i \in DOMAIN memtable)
        /\ s <= lastSequence /\ s \in Nat /\ lastSequence \in Nat
    BY <1>1 DEF ReadInv, ReaderRecords, DataTypes
  <2>2. ASSUME NEW k \in DOMAIN memtable, NEW e \in memtable'[k], e.seq <= s
        PROVE  e \in memtable[k]
    <3>1. e.seq \in Nat
      BY DEF DataTypes, Entries
    <3> QED
      BY <2>1, <2>2, <3>1, SMT
  <2>3. \A e : e \in memtable'[n] /\ e.seq <= s <=> e \in memtable[n] /\ e.seq <= s
    BY <2>1, <2>2
  <2>4. i # 0 => \A e : e \in memtable'[i] /\ e.seq <= s <=> e \in memtable[i] /\ e.seq <= s
    BY <2>1, <2>2
  <2> HIDE DEF n, i, s
  <2>5. {e \in reader[r].tables \cup memtable'[n] \cup (IF i = 0 THEN {} ELSE memtable'[i]) : e.seq <= s}
        = {e \in reader[r].tables \cup memtable[n] \cup (IF i = 0 THEN {} ELSE memtable[i]) : e.seq <= s}
    BY <2>3, <2>4
  <2> QED
    BY <2>5 DEF View, n, i, s
<1>2. \A r \in Readers : reader[r] # None => reader[r].snapshot <= lastSequence'
  BY SMT DEF ReadInv, ReaderRecords, DataTypes
<1> QED
  BY <1>1, <1>2 DEF ReadInv

\* What a writer inserts is newer than any snapshot a reader holds.
LEMMA ReadCallStep ==
  ASSUME TypeInv, TypeInv', QueueInv, GroupInv, ReadInv, CallStep
  PROVE  ReadInv'
<1>0. WriterTypes /\ DataInv /\ GroupInv /\ ReadInv /\ DataTypes' /\ DataTypes /\ UNCHANGED reader
  BY CallFrame DEF TypeInv, DataInv
<1>1. PICK w \in Writers : (\E c \in Calls : Write(w, c)) \/ WriterStep(w)
  BY DEF CallStep
<1>2. CASE RoomSwitch(w)
  <2>1. /\ UNCHANGED lastSequence
        /\ memtable' = [n \in DOMAIN memtable \cup {mem + 1} |->
                          IF n = mem + 1 THEN {} ELSE memtable[n]]
    BY <1>2 DEF RoomSwitch
  <2>2. mem + 1 \notin DOMAIN memtable /\ lastSequence <= lastSequence
    BY <1>0, SMT DEF GroupInv, DataTypes
  <2> QED
    BY <1>0, <2>1, <2>2, ReadKept
<1>3. CASE InsertInto(w)
  <2>1. PICK e \in loc[w].group.entries : memtable' = [memtable EXCEPT ![mem] = @ \cup {e}]
    BY <1>3 DEF InsertInto
  <2>2. pc[w] = "insert" /\ UNCHANGED lastSequence
    BY <1>3 DEF InsertInto
  <2>3. e.seq > lastSequence /\ lastSequence <= lastSequence /\ mem \in DOMAIN memtable
    BY <1>0, <2>2, SMTT(30) DEF GroupInv, DataTypes, DataInv
  <2> QED
    BY <1>0, <2>1, <2>2, <2>3, ReadKept
<1>4. CASE Publish(w)
  <2>1. lastSequence' = loc[w].group.lastSeq /\ pc[w] = "relock" /\ UNCHANGED memtable
    BY <1>4 DEF Publish, NewLastSequence
  <2>2. lastSequence <= lastSequence'
    BY <1>0, <2>1 DEF GroupInv, DataTypes
  <2> QED
    BY <1>0, <2>1, <2>2, ReadKept
<1>5. CASE (\E c \in Calls : Write(w, c)) \/ ~(RoomSwitch(w) \/ InsertInto(w) \/ Publish(w))
  <2>1. UNCHANGED <<lastSequence, memtable>>
    BY <1>1, <1>5 DEF Write, WriterStep, WakeFront, WakeDone, RoomError, RoomDelay,
       DelayOver, RoomWait, RoomWake, RoomSwitchFails, RoomNull, BuildBatchGroup, AddRecord,
       AddRecordFails, Sync, SyncFails, Pop, AwaitImm, CompactMemTableReturns, dataVars
  <2>2. lastSequence <= lastSequence
    BY <1>0, SMT DEF DataTypes
  <2> QED
    BY <1>0, <2>1, <2>2, ReadKept
<1> QED
  BY <1>1, <1>2, <1>3, <1>4, <1>5

\* A Get captures what is visible; flushes and compactions leave it alone.
LEMMA ReadOtherStep ==
  ASSUME TypeInv, TypeInv', ReadInv, OtherStep
  PROVE  ReadInv'
<1>0. /\ DataInv /\ ReadInv /\ DataTypes' /\ DataTypes
      /\ UNCHANGED <<mem, memtable, lastSequence>>
  BY OtherFrame DEF TypeInv, DataInv
<1>1. lastSequence <= lastSequence
  BY <1>0, SMT DEF DataTypes
<1>2. CASE \E r \in Readers : GetStarts(r)
  <2>1. PICK r \in Readers : GetStarts(r)
    BY <1>2
  <2> DEFINE rec == [snapshot |-> lastSequence, mem |-> mem, imm |-> imm, tables |-> tables,
                     current |-> TRUE, expected |-> Visible]
  <2>2. reader' = [reader EXCEPT ![r] = rec]
    BY <2>1 DEF GetStarts
  <2>3. rec \in ReaderRecords
    <3>1. memtable[mem] \subseteq Entries /\ (imm # 0 => memtable[imm] \subseteq Entries)
      BY <1>0 DEF DataInv, DataTypes
    <3>2. Visible \in SUBSET Entries
      BY <1>0, <3>1 DEF Visible, Store, DataTypes
    <3> QED
      BY <1>0, <3>2 DEF ReaderRecords, DataTypes
  <2>4. ASSUME reader'[r] = rec PROVE View(r)' = Visible
    BY <1>0, <2>4, SMTT(20) DEF View, Visible, Store
  <2>5. \A x \in Readers \ {r} : reader'[x] = reader[x] /\ View(x)' = View(x)
    BY <1>0, <2>2 DEF ReadInv, View
  <2>6. reader'[r] = rec
    BY <1>0, <2>2 DEF ReadInv
  <2>7. /\ rec.snapshot <= lastSequence /\ rec.mem \in DOMAIN memtable
        /\ rec.imm # 0 => rec.imm \in DOMAIN memtable
        /\ rec.expected = Visible
    BY <1>0, <1>1 DEF DataInv
  <2>8. View(r)' = rec.expected
    BY <2>4, <2>6, <2>7
  <2> HIDE DEF rec
  <2>9. reader' \in [Readers -> ReaderRecords \cup {None}]
    BY <1>0, <2>2, <2>3 DEF ReadInv
  <2> QED
    BY <1>0, <2>3, <2>5, <2>6, <2>7, <2>8, <2>9 DEF ReadInv
<1>3. CASE \E r \in Readers : GetEnds(r)
  <2>1. PICK r \in Readers : reader' = [reader EXCEPT ![r] = None]
    BY <1>3 DEF GetEnds
  <2> QED
    BY <1>0, <2>1 DEF ReadInv, View
<1>4. CASE NewVersion
  <2>1. \A r \in Readers : reader'[r] = IF reader[r] = None THEN None
                                        ELSE [reader[r] EXCEPT !.current = FALSE]
    BY <1>4 DEF NewVersion
  <2>2. ASSUME NEW r \in Readers, reader'[r] # None
        PROVE  /\ reader[r] # None /\ reader'[r] \in ReaderRecords
               /\ reader'[r].snapshot = reader[r].snapshot
               /\ reader'[r].mem = reader[r].mem
               /\ reader'[r].imm = reader[r].imm
               /\ reader'[r].tables = reader[r].tables
               /\ reader'[r].expected = reader[r].expected
    <3>1. reader[r] # None /\ reader[r] \in ReaderRecords
      BY <1>0, <2>1, <2>2 DEF ReadInv
    <3>2. reader'[r] = [reader[r] EXCEPT !.current = FALSE]
      BY <2>1, <3>1
    <3> QED
      BY <3>1, <3>2 DEF ReaderRecords
  <2>3. \A r \in Readers : reader'[r] # None => View(r)' = View(r)
    BY <1>0, <2>2 DEF View
  <2>4. reader' \in [Readers -> ReaderRecords \cup {None}]
    BY <1>4, <2>2 DEF NewVersion
  <2> QED
    BY <1>0, <2>2, <2>3, <2>4 DEF ReadInv
<1>5. CASE UNCHANGED reader
  BY <1>0, <1>1, <1>5, ReadKept
<1> QED
  BY <1>2, <1>3, <1>4, <1>5 DEF OtherStep, BackgroundStep, BgNothing, FlushStarts,
     FlushBuilt, FlushFails, FlushApplied, CompactionStarts, ManualEmpty, CompactionWritten,
     CompactionFails, CompactionInstalled, CompactRange, CompactorStep, ManualClaims,
     ManualWaits, ManualReturns, Close, CloseWakes, Closed, vars

\* Every step keeps the view of every reader.
LEMMA ReadNext ==
  ASSUME TypeInv, TypeInv', QueueInv, GroupInv, ReadInv, [Next]_vars
  PROVE  ReadInv'
<1>1. CASE UNCHANGED vars
  <2>1. lastSequence <= lastSequence
    BY SMT DEF TypeInv, DataInv, DataTypes
  <2> QED
    BY <1>1, <2>1, ReadKept DEF vars, dataVars, TypeInv, DataInv
<1> QED
  BY <1>1, NextCases, ReadCallStep, ReadOtherStep

-----------------------------------------------------------------------------
(* After a background error.                                               *)

\* No step of a writer unsets bg_error_ or, once the group in flight is over,
\* starts another or changes what readers see.
LEMMA ErrorCallStep ==
  ASSUME TypeInv, CallStep, bgError
  PROVE  bgError' /\ (~InFlight => ~InFlight' /\ Visible' = Visible)
<1>1. PICK w \in Writers : (\E c \in Calls : Write(w, c)) \/ WriterStep(w)
  BY DEF CallStep
<1>2. pc \in [Writers -> WriterPcs]
  BY DEF TypeInv, WriterTypes
<1>3. CASE pc[w] \in {"log", "sync", "insert", "relock"}
  <2>1. InFlight
    BY <1>3 DEF InFlight
  <2>2. bgError'
    BY <1>1, <1>3 DEF Write, WriterStep, WakeFront, WakeDone, RoomError, RoomDelay,
       DelayOver, RoomWait, RoomWake, RoomSwitch, RoomSwitchFails, RoomNull,
       BuildBatchGroup, AddRecord, AddRecordFails, Sync, SyncFails, InsertInto, Publish,
       RecordBackgroundError, Pop, AwaitImm, CompactMemTableReturns, InRoom, bgVars
  <2> QED
    BY <2>1, <2>2
<1>4. CASE pc[w] \notin {"log", "sync", "insert", "relock"}
  <2>1. UNCHANGED <<lastSequence, memtable, mem, imm, tables, bgError>>
    BY <1>1, <1>4 DEF PastDelay, Write, WriterStep, WakeFront, WakeDone, RoomError, RoomDelay,
       DelayOver, RoomWait, RoomWake, RoomSwitch, RoomSwitchFails, RoomNull,
       BuildBatchGroup, AddRecord, AddRecordFails, Sync, SyncFails, InsertInto, Publish,
       Pop, AwaitImm, CompactMemTableReturns, InRoom, bgVars, dataVars
  <2>2. \/ UNCHANGED pc
        \/ \E p \in WriterPcs \ {"log", "sync", "insert", "relock"} :
             pc' = [pc EXCEPT ![w] = p]
    BY <1>1, <1>4 DEF PastDelay, Write, WriterStep, WakeFront, WakeDone, RoomError, RoomDelay,
       DelayOver, RoomWait, RoomWake, RoomSwitch, RoomSwitchFails, RoomNull,
       BuildBatchGroup, AddRecord, AddRecordFails, Sync, SyncFails, InsertInto, Publish,
       Pop, Return, AwaitImm, CompactMemTableReturns, InRoom, WriterPcs, writerVars
  <2>3. ~InFlight => ~InFlight'
    BY <1>2, <2>2 DEF InFlight
  <2>4. Visible' = Visible
    BY <2>1 DEF Visible, Store
  <2> QED
    BY <2>1, <2>3, <2>4
<1> QED
  BY <1>3, <1>4

\* Nor does any other step: a flush that completes only moves entries.
LEMMA ErrorOtherStep ==
  ASSUME TypeInv, OtherStep, bgError
  PROVE  bgError' /\ (~InFlight => ~InFlight' /\ Visible' = Visible)
<1>1. UNCHANGED <<pc, mem, memtable, lastSequence>>
  BY OtherFrame DEF writerVars
<1>2. bgError'
  BY DEF OtherStep, BackgroundStep, BgNothing, FlushStarts,
     FlushBuilt, FlushFails, FlushApplied, CompactionStarts, ManualEmpty, CompactionWritten,
     CompactionFails, CompactionInstalled, CompactRange, CompactorStep, ManualClaims,
     ManualWaits, ManualReturns, GetStarts, GetEnds, Close, CloseWakes, Closed, bgVars, vars
<1>3. ~InFlight => ~InFlight'
  BY <1>1 DEF InFlight
<1>4. CASE FlushApplied
  <2>1. imm' = 0 /\ tables' = tables \cup memtable[imm]
    BY <1>4 DEF FlushApplied
  <2>2. imm # 0
    BY <1>4 DEF FlushApplied, TypeInv, DataInv
  <2>3. Store' = Store
    BY <1>1, <2>1, <2>2 DEF Store
  <2> QED
    BY <1>1, <1>2, <1>3, <2>3 DEF Visible
<1>5. CASE ~FlushApplied
  <2>1. UNCHANGED dataVars
    BY <1>5 DEF OtherStep, BackgroundStep, BgNothing, FlushStarts, FlushBuilt, FlushFails,
       CompactionStarts, ManualEmpty, CompactionWritten, CompactionFails,
       CompactionInstalled, CompactRange, CompactorStep, ManualClaims, ManualWaits,
       ManualReturns, GetStarts, GetEnds, Close, CloseWakes, Closed, vars
  <2>2. Visible' = Visible
    BY <2>1 DEF Visible, Store, dataVars
  <2> QED
    BY <1>2, <1>3, <2>2
<1> QED
  BY <1>4, <1>5
=============================================================================
