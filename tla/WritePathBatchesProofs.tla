----------------------- MODULE WritePathBatchesProofs -----------------------
(***************************************************************************)
(* DBImpl::Write implements AtomicBatches: what readers see grows by whole *)
(* batches in the order of the calls, and a call returns OK exactly when   *)
(* its batch is among them.  Every step keeps BatchInv and is a step of    *)
(* AtomicBatches or leaves its variables alone.                            *)
(***************************************************************************)
EXTENDS WritePathProofs

\* Most leaves are first-order reasoning about sets and functions: Zenon tries them
\* first. The leaves that need arithmetic name the SMT solver.
USE Zenon, SMTT(20)

-----------------------------------------------------------------------------
(* Up to BuildBatchGroup.                                                  *)

\* At first there is nothing to see.
LEMMA BatchInit ==
  ASSUME Init
  PROVE  BatchInv
<1>1. Store = {} /\ Visible = {}
  BY DEF Init, Store, Visible
<1> QED
  BY <1>1, SMT DEF Init, BatchInv, Ordered, Complete, Hidden, Older, Settled, Places, Flight,
     NoCall

\* A step that shows readers nothing new, in which nobody returns from Write and
\* no group is built, inserted or published.
LEMMA BatchKept ==
  ASSUME BatchInv, UNCHANGED <<writers, call, done, failed, ncalls, lastSequence>>,
         Store' = Store, (\E x \in Writers : pc[x] = "relock") => memtable'[mem'] = memtable[mem],
         \A x \in Writers :
           /\ loc'[x].group = loc[x].group /\ loc'[x].status = loc[x].status
           /\ \/ pc'[x] = pc[x]
              \/ Waiting(x) /\ pc'[x] \in {"room", "delay", "bgwait"}
              \/ pc[x] = "immwait" /\ pc'[x] = "idle"
  PROVE  BatchInv' /\ Visible' = Visible /\ InWrite' = InWrite
<1>1. Places' = Places /\ \A l \in Writers, i \in Places : In(l, i)' <=> In(l, i)
  BY DEF Places, In
<1>2. Visible' = Visible
  BY DEF Visible
<1>3. \A x \in Writers : /\ Waiting(x)' => Waiting(x)
                         /\ pc'[x] \in Flight \cup {"pop"} <=> pc[x] \in Flight \cup {"pop"}
                         /\ pc'[x] \in Flight \cup {"pop"} => pc'[x] = pc[x]
                         /\ pc'[x] = "queued" => pc[x] = "queued"
                         /\ Active(x)' <=> Active(x)
  BY DEF Waiting, Flight, Active
<1>4. Ordered'
  BY <1>1, <1>3, SMT DEF BatchInv, Ordered, Waiting, Flight
<1>5. Complete'
  BY <1>1, <1>3, SMT DEF BatchInv, Complete, Flight
<1>6. Hidden'
  BY <1>3, SMT DEF BatchInv, Hidden, Flight
<1>7. Older'
  BY <1>1, <1>2, <1>3, SMT DEF BatchInv, Older
<1>8. Settled'
  <2>1. \A c, s : Outcome(c, s)' <=> Outcome(c, s)
    BY <1>2 DEF Outcome
  <2> QED
    BY <1>1, <1>3, <2>1, SMT DEF BatchInv, Settled
<1>9. InWrite' = InWrite
  BY <1>3, SMT DEF InWrite, Active
<1> QED
  BY <1>2, <1>4, <1>5, <1>6, <1>7, <1>8, <1>9 DEF BatchInv

\* The steps of MakeRoomForWrite that go on, and those of TEST_CompactMemTable.
LEMMA BatchQuiet ==
  ASSUME TypeInv, QueueInv, BatchInv, NEW w \in Writers,
         \/ WakeFront(w) \/ RoomDelay(w) \/ DelayOver(w) \/ RoomWait(w) \/ RoomWake(w)
         \/ RoomSwitch(w) \/ AwaitImm(w) \/ CompactMemTableReturns(w)
  PROVE  BatchInv' /\ Visible' = Visible /\ InWrite' = InWrite /\ UNCHANGED <<acked, failed>>
<1>0. WriterTypes /\ DataInv /\ DataTypes /\ \A x \in Writers : loc[x] \in LocRecords
  BY DEF TypeInv, DataInv, WriterTypes
<1>1. UNCHANGED <<writers, call, done, ncalls, acked, failed, lastSequence, tables>>
  BY DEF WakeFront, RoomDelay, DelayOver, RoomWait, RoomWake, RoomSwitch, AwaitImm,
     CompactMemTableReturns, writerVars, dataVars, histVars
<1>2. \/ loc' = loc \/ loc' = [loc EXCEPT ![w].delay = FALSE]
      \/ loc' = [loc EXCEPT ![w].force = FALSE]
  BY DEF WakeFront, RoomDelay, DelayOver, RoomWait, RoomWake, RoomSwitch, AwaitImm,
     CompactMemTableReturns, writerVars
<1>3. \A x \in Writers : loc'[x].group = loc[x].group /\ loc'[x].status = loc[x].status
  <2> USE <1>0 DEF WriterTypes, LocRecords
  <2>1. CASE loc' = [loc EXCEPT ![w].delay = FALSE]
    BY <2>1
  <2>2. CASE loc' = [loc EXCEPT ![w].force = FALSE]
    BY <2>2
  <2> QED
    BY <1>2, <2>1, <2>2
<1>4. \/ UNCHANGED pc
      \/ /\ Waiting(w) /\ \E p \in {"room", "delay", "bgwait"} : pc' = [pc EXCEPT ![w] = p]
      \/ pc[w] = "immwait" /\ pc' = [pc EXCEPT ![w] = "idle"]
  BY DEF WakeFront, RoomDelay, DelayOver, RoomWait, RoomWake, RoomSwitch, AwaitImm,
     CompactMemTableReturns, writerVars, InRoom, Waiting
<1>5. \A x \in Writers : \/ pc'[x] = pc[x]
                         \/ Waiting(x) /\ pc'[x] \in {"room", "delay", "bgwait"}
                         \/ pc[x] = "immwait" /\ pc'[x] = "idle"
  BY <1>0, <1>4 DEF WriterTypes
<1>6. Store' = Store /\ ((\E x \in Writers : pc[x] = "relock") => memtable'[mem'] = memtable[mem])
  <2>1. CASE RoomSwitch(w)
    <3>1. /\ imm = 0 /\ imm' = mem /\ mem' = mem + 1 /\ pc[w] = "room"
          /\ memtable' = [n \in DOMAIN memtable \cup {mem + 1} |->
                            IF n = mem + 1 THEN {} ELSE memtable[n]]
      BY <2>1 DEF RoomSwitch, InRoom, MustWait
    <3>2. mem \in Nat \ {0} /\ mem \in DOMAIN memtable
      BY <1>0 DEF DataInv, DataTypes
    <3>3. memtable'[mem'] = {} /\ memtable'[imm'] = memtable[mem] /\ imm' # 0
      BY <3>1, <3>2, SMT
    <3>4. \A x \in Writers : pc[x] # "relock"
      BY <3>1, OnlyLeader DEF LeaderPcs
    <3> QED
      BY <1>1, <3>1, <3>3, <3>4 DEF Store
  <2>2. CASE ~RoomSwitch(w)
    <3>1. UNCHANGED <<memtable, mem, imm>>
      BY <2>2 DEF WakeFront, RoomDelay, DelayOver, RoomWait, RoomWake, AwaitImm,
         CompactMemTableReturns, dataVars
    <3> QED
      BY <1>1, <3>1 DEF Store
  <2> QED
    BY <2>1, <2>2
<1> QED
  BY <1>1, <1>3, <1>5, <1>6, BatchKept

\* A flush moves what readers see from imm_ to a table.
LEMMA BatchOther ==
  ASSUME TypeInv, BatchInv, OtherStep
  PROVE  BatchInv' /\ Visible' = Visible /\ InWrite' = InWrite /\ UNCHANGED <<acked, failed>>
<1>0. /\ DataInv
      /\ UNCHANGED <<writers, pc, call, loc, done, ncalls, acked, failed, mem, memtable,
                     lastSequence>>
  BY OtherFrame DEF TypeInv, writerVars, histVars
<1>1. Store' = Store
  <2>1. CASE FlushApplied
    <3>1. tables' = tables \cup memtable[imm] /\ imm # 0 /\ imm' = 0
      BY <1>0, <2>1 DEF FlushApplied, DataInv
    <3> QED
      BY <1>0, <3>1 DEF Store
  <2>2. CASE ~FlushApplied
    <3>1. UNCHANGED dataVars
      BY <2>2 DEF OtherStep, BackgroundStep, BgNothing, FlushStarts, FlushBuilt, FlushFails,
         CompactionStarts, ManualEmpty, CompactionWritten, CompactionFails,
         CompactionInstalled, CompactRange, CompactorStep, ManualClaims, ManualWaits,
         ManualReturns, GetStarts, GetEnds, Close, CloseWakes, Closed, vars
    <3> QED
      BY <3>1 DEF Store, dataVars
  <2> QED
    BY <2>1, <2>2
<1> QED
  BY <1>0, <1>1, BatchKept

\* A new call is the last of the queue, and has seen nothing of itself.
LEMMA BatchWrite ==
  ASSUME TypeInv, QueueInv, SyncInv, BatchInv, NEW w \in Writers, NEW c \in Calls, Write(w, c)
  PROVE  BatchInv' /\ Batches!Invoke
<1>0. /\ WriterTypes /\ DataInv /\ Ids /\ Ordered /\ Complete /\ Hidden /\ Older /\ Settled
      /\ ncalls \in Nat
  BY DEF TypeInv, SyncInv, BatchInv, WriterTypes
<1>1. /\ pc[w] = "idle" /\ ncalls' = ncalls + 1 /\ (c.null => c.count = 0)
      /\ call' = [call EXCEPT ![w] = [id |-> ncalls + 1, count |-> c.count,
                                      sync |-> c.sync, null |-> c.null]]
      /\ loc' = [loc EXCEPT ![w] = NewLoc(w, c)]
      /\ UNCHANGED <<acked, failed, lastSequence, tables, memtable, mem, imm>>
  BY CallsAssumption DEF Write, dataVars
<1>2. Store' = Store /\ Visible' = Visible
  BY <1>1 DEF Store, Visible
<1>3. /\ call'[w].id = ncalls + 1 /\ ~done'[w] /\ pc'[w] \in {"room", "queued"}
      /\ \A x \in Writers \ {w} : /\ pc'[x] = pc[x] /\ call'[x] = call[x]
                                  /\ loc'[x] = loc[x] /\ done'[x] = done[x]
  BY <1>0, WriteQueue
<1>4. /\ loc'[w].group.last = w /\ loc'[w].status = "ok"
      /\ call'[w].null => call'[w].count = 0
  BY <1>0, <1>1 DEF WriterTypes, NewLoc, NoGroup
<1>5. PICK n \in Places' :
        writers'[n] = w /\ \A i \in Places' : i = n \/ (i \in Places /\ i < n)
  BY <1>0, WriteQueue
<1>6. /\ \A i \in Places : writers'[i] = writers[i] /\ call'[writers'[i]] = call[writers[i]]
      /\ Places' \subseteq Int /\ n \in Int
  BY <1>0, WriteQueue, SMT DEF Places
<1>7. \A l \in Writers : pc'[l] \in Flight \cup {"pop"} =>
        l # w /\ \A i \in Places' : In(l, i)' <=> i \in Places /\ In(l, i)
  BY <1>0, WriteQueue DEF LeaderPcs, Flight
<1>8. /\ \A x \in Writers : Active(x) => call[x].id \in Nat /\ call[x].id < ncalls + 1
      /\ \A d \in acked \cup failed : d.id \in Nat /\ d.id < ncalls + 1
      /\ \A e \in Visible : e.op \in Nat /\ e.op < ncalls + 1
      /\ \A i \in Places : call[writers[i]].id < ncalls + 1
  <2>1. \A x \in Writers : Active(x) => call[x].id \in Nat /\ call[x].id < ncalls + 1
    BY <1>0, SMTT(20) DEF WriterTypes, CallRecords, Ids
  <2>2. \A d \in acked \cup failed : d.id \in Nat /\ d.id < ncalls + 1
    BY <1>0, SMT DEF WriterTypes, CallRecords, Ids, Ordered
  <2>3. \A e \in Visible : e.op \in Nat /\ e.op < ncalls + 1
    BY <1>0, StoreWritten, SMT DEF Ids, Entries
  <2> QED
    BY <1>0, <2>1, <2>2, <2>3, QueueActive
<1>9. Ordered'
  <2>1. \A d \in failed : d.id <= ncalls + 1
    BY <1>0, <1>8, SMT
  <2>2. ASSUME NEW i \in Places', NEW j \in Places', i < j
        PROVE  call'[writers'[i]].id < call'[writers'[j]].id
    <3>1. i \in Places
      <4>1. i \in Int /\ n \in Int /\ (j = n \/ j < n) /\ j \in Int
        BY <1>5, <1>6
      <4>2. i # n
        BY <2>2, <4>1, SMT
      <4> QED
        BY <1>5, <4>2
    <3>2. CASE j = n
      <4>1. call'[writers'[i]].id < ncalls + 1
        BY <1>6, <1>8, <3>1
      <4>2. call'[writers'[j]].id = ncalls + 1
        BY <1>3, <1>5, <3>2
      <4> QED
        BY <4>1, <4>2
    <3>3. CASE j \in Places
      BY <1>0, <1>6, <2>2, <3>1, <3>3 DEF Ordered
    <3> QED
      BY <1>5, <3>2, <3>3
  <2>3. \A x \in Writers : call'[x].null => call'[x].count = 0
    BY <1>0, <1>3, <1>4, SMT DEF Ordered
  <2>4. \A x \in Writers :
          pc'[x] \in {"room", "delay", "bgwait"} \/ (pc'[x] = "queued" /\ ~done'[x])
            => loc'[x].group.last = x /\ loc'[x].status = "ok"
    BY <1>0, <1>3, <1>4, SMT DEF Ordered
  <2>5. \A x \in Writers : pc'[x] \in {"log", "sync", "insert"} => loc'[x].status = "ok"
    BY <1>0, <1>3, <1>4 DEF Ordered
  <2> QED
    BY <1>1, <2>1, <2>2, <2>3, <2>4, <2>5 DEF Ordered
<1>10. Complete'
  BY <1>0, <1>3, <1>6, <1>7, SMTT(20) DEF Complete
<1>11. Hidden'
  BY <1>0, <1>1, <1>2, <1>3, SMT DEF Hidden
<1>12. Older'
  <2> SUFFICES ASSUME NEW e \in Visible, NEW i \in Places'
               PROVE  \/ e.op < call'[writers'[i]].id
                      \/ \E l \in Writers : pc'[l] = "pop" /\ In(l, i)'
    BY <1>2 DEF Older
  <2>1. CASE i = n
    BY <1>3, <1>5, <1>8, <2>1
  <2>2. CASE i \in Places
    <3>1. \A l \in Writers : pc[l] = "pop" /\ In(l, i) => pc'[l] = "pop" /\ In(l, i)'
      BY <1>1, <1>3, <1>7, <2>2
    <3> QED
      BY <1>0, <1>6, <2>2, <3>1 DEF Older
  <2> QED
    BY <1>5, <2>1, <2>2
<1>13. Settled'
  <2>1. \A d, s : Outcome(d, s)' <=> Outcome(d, s)
    BY <1>2 DEF Outcome
  <2>2. \A l \in Writers, i \in Places' :
          pc'[l] = "pop" /\ In(l, i)' => Outcome(call'[writers'[i]], loc'[l].status)
    BY <1>0, <1>3, <1>6, <1>7 DEF Settled
  <2>3. \A x \in Writers : pc'[x] = "queued" /\ done'[x] => Outcome(call'[x], loc'[x].status)
    BY <1>0, <1>3 DEF Settled
  <2> QED
    BY <1>2, <2>2, <2>3 DEF Settled, Outcome
<1>14. Batches!Invoke
  <2>1. \A x \in Writers : Active(x)' <=> x = w \/ Active(x)
    BY <1>3 DEF Active
  <2>2. ~Active(w)
    BY <1>1 DEF Active
  <2>3. InWrite = {call[x] : x \in {y \in Writers : Active(y)}}
    BY DEF InWrite, Active
  <2>4. InWrite' = {call'[x] : x \in {y \in Writers : Active(y)'}}
    BY DEF InWrite, Active
  <2>5. InWrite' = InWrite \cup {call'[w]}
    BY <1>3, <2>1, <2>2, <2>3, <2>4
  <2>6. \A d \in InWrite \cup acked \cup failed : d.id < ncalls + 1 /\ d.id \in Nat
    BY <1>8, <2>3
  <2>7. call'[w] \notin InWrite
    BY <1>0, <1>3, <2>6, SMT
  <2> QED
    BY <1>1, <1>2, <1>3, <2>5, <2>6, <2>7 DEF Batches!Invoke
<1> QED
  BY <1>9, <1>10, <1>11, <1>12, <1>13, <1>14 DEF BatchInv

\* Until the leader is at the end, readers see nothing of the queue.
LEMMA QueueUnseen ==
  ASSUME TypeInv, QueueInv, BatchInv, NEW w \in Writers, pc[w] \in LeaderPcs \ {"pop"}
  PROVE  \A i \in Places : /\ \A e \in Visible : e.op < call[writers[i]].id
                           /\ Of(call[writers[i]], Visible) = {}
<1>0. WriterTypes /\ DataInv
  BY DEF TypeInv
<1>1. \A l \in Writers : pc[l] # "pop"
  BY OnlyLeader DEF LeaderPcs
<1>2. \A i \in Places, e \in Visible : e.op < call[writers[i]].id
  BY <1>1 DEF BatchInv, Older
<1>3. \A i \in Places : call[writers[i]].id \in Nat
  BY <1>0, QueueActive DEF WriterTypes, CallRecords
<1>4. \A e \in Visible : e.op \in Nat
  BY <1>0, StoreWritten DEF Entries
<1> QED
  BY <1>2, <1>3, <1>4, SMT DEF Of

\* MakeRoomForWrite fails, or the batch is NULL: nothing is written.
LEMMA BatchRoomEnds ==
  ASSUME TypeInv, GroupFacts, QueueInv, BatchInv, NEW w \in Writers,
         RoomError(w) \/ RoomSwitchFails(w) \/ RoomNull(w)
  PROVE  BatchInv' /\ Visible' = Visible /\ InWrite' = InWrite /\ UNCHANGED <<acked, failed>>
<1>0. /\ WriterTypes /\ QueueInv /\ Ordered /\ Hidden /\ Older /\ Settled
      /\ \A x \in Writers : loc[x] \in LocRecords
  BY DEF TypeInv, BatchInv, WriterTypes
<1>1. /\ pc[w] = "room" /\ pc' = [pc EXCEPT ![w] = "pop"]
      /\ loc' = [loc EXCEPT ![w].status = "error"] \/ (loc' = loc /\ call[w].null)
      /\ UNCHANGED <<writers, call, done, ncalls, acked, failed, lastSequence, tables, memtable,
                     mem, imm>>
  BY DEF RoomError, RoomSwitchFails, RoomNull, InRoom, dataVars, histVars
<1>2. Store' = Store /\ Visible' = Visible
  BY <1>1 DEF Store, Visible
<1>3. /\ pc'[w] = "pop" /\ loc'[w].group = loc[w].group
      /\ loc'[w].status = "error" \/ (loc'[w].status = loc[w].status /\ call[w].null)
      /\ \A x \in Writers \ {w} : loc'[x] = loc[x] /\ pc'[x] = pc[x] /\ pc[x] \notin LeaderPcs
  <2>1. pc'[w] = "pop" /\ \A x \in Writers \ {w} : pc'[x] = pc[x] /\ pc[x] \notin LeaderPcs
    BY <1>0, <1>1, OnlyLeader DEF WriterTypes, LeaderPcs
  <2>2. CASE loc' = [loc EXCEPT ![w].status = "error"]
    BY <1>0, <2>1, <2>2 DEF WriterTypes, LocRecords
  <2>3. CASE loc' = loc /\ call[w].null
    BY <2>1, <2>3
  <2> QED
    BY <1>1, <2>2, <2>3
<1>4. Places' = Places /\ \A l \in Writers, i \in Places : In(l, i)' <=> In(l, i)
  BY <1>1, <1>3, SMT DEF Places, In
<1>5. loc[w].status = "ok" /\ \A i \in Places : In(w, i) => writers[i] = w
  <2>1. loc[w].group.last = w /\ loc[w].status = "ok"
    BY <1>0, <1>1 DEF Ordered
  <2>2. Len(writers) \in Nat /\ Len(writers) > 0 /\ writers[1] = w
    BY <1>0, <1>1, SMTT(20) DEF QueueInv, LeaderPcs, WriterTypes
  <2>3. \A k \in Places : writers[k] = w => k = 1
    BY <1>0, <2>2, SMT DEF QueueInv, Places
  <2> QED
    BY <2>1, <2>2, <2>3, SMT DEF In, Places
<1>6. \A i \in Places : Of(call[writers[i]], Visible) = {}
  BY <1>1, QueueUnseen DEF LeaderPcs
<1>7. Ordered'
  BY <1>0, <1>1, <1>3, <1>4, SMTT(20) DEF Ordered
<1>8. Complete'
  BY <1>3, SMT DEF Complete, Flight, LeaderPcs
<1>9. Hidden'
  BY <1>0, <1>1, <1>2, <1>3, SMT DEF Hidden, LeaderPcs
<1>10. Older'
  BY <1>0, <1>1, <1>2, <1>3, <1>4 DEF Older
<1>11. Settled'
  <2>1. Cardinality({}) = 0
    BY DEF GroupFacts
  <2>2. \A i \in Places : In(w, i) => Outcome(call[writers[i]], loc'[w].status)
    <3> SUFFICES ASSUME NEW i \in Places, In(w, i) PROVE Outcome(call[w], loc'[w].status)
      BY <1>5
    <3>1. Of(call[w], Visible) = {}
      BY <1>5, <1>6
    <3>2. loc'[w].status = "error" \/ call[w].count = 0
      BY <1>0, <1>3 DEF Ordered
    <3> QED
      BY <2>1, <3>1, <3>2 DEF Outcome
  <2>3. \A x \in Writers : pc'[x] = "queued" /\ done'[x] => Outcome(call[x], loc'[x].status)
    BY <1>0, <1>1, <1>3 DEF Settled
  <2> QED
    BY <1>1, <1>2, <1>3, <1>4, <2>2, <2>3 DEF Settled, Outcome, LeaderPcs
<1>12. InWrite' = InWrite
  BY <1>1, <1>3, SMT DEF InWrite
<1> QED
  BY <1>1, <1>2, <1>7, <1>8, <1>9, <1>10, <1>11, <1>12 DEF BatchInv

\* BuildBatchGroup takes whole batches, and numbers them in the order of the queue.
LEMMA BatchBuild ==
  ASSUME TypeInv, GroupFacts, QueueInv, BatchInv, NEW w \in Writers, BuildBatchGroup(w)
  PROVE  BatchInv' /\ Visible' = Visible /\ InWrite' = InWrite /\ UNCHANGED <<acked, failed>>
<1>0. /\ WriterTypes /\ DataTypes /\ QueueInv /\ Ordered /\ Hidden /\ Older /\ Settled
      /\ \A x \in Writers : loc[x] \in LocRecords
  BY DEF TypeInv, DataInv, BatchInv, WriterTypes
<1>1. PICK k \in 1..Len(writers) :
        loc' = [loc EXCEPT ![w].group =
                  [last |-> writers[k], entries |-> GroupEntries(k),
                   lastSeq |-> lastSequence + Cardinality(Cells(k))]]
  BY DEF BuildBatchGroup
<1> DEFINE es == GroupEntries(k)
           n == lastSequence + Cardinality(Cells(k))
<1>2. /\ \A i \in 1..k : Cardinality(Of(call[writers[i]], es)) = call[writers[i]].count
      /\ \A e, f \in es : e.op < f.op => e.seq < f.seq
  BY <1>0 DEF Ordered, GroupFacts, Places
<1>3. loc' = [loc EXCEPT ![w].group = [last |-> writers[k], entries |-> es, lastSeq |-> n]]
  BY <1>1
<1> HIDE DEF es, n
<1>4. /\ loc'[w].group.entries = es /\ loc'[w].group.last = writers[k]
      /\ loc'[w].status = loc[w].status
      /\ \A x \in Writers \ {w} : loc'[x] = loc[x]
  BY <1>0, <1>3 DEF WriterTypes, LocRecords
<1>5. /\ pc[w] = "room" /\ pc' = [pc EXCEPT ![w] = "log"]
      /\ UNCHANGED <<writers, call, done, ncalls, acked, failed, lastSequence, tables, memtable,
                     mem, imm>>
  BY DEF BuildBatchGroup, InRoom, dataVars, histVars
<1>6. Store' = Store /\ Visible' = Visible
  BY <1>5 DEF Store, Visible
<1>7. /\ pc'[w] = "log"
      /\ \A x \in Writers \ {w} : pc'[x] = pc[x] /\ pc[x] \notin LeaderPcs
  BY <1>0, <1>5, OnlyLeader DEF WriterTypes, LeaderPcs
<1>8. /\ Places' = Places /\ k \in Places
      /\ \A i \in Places : In(w, i)' => i \in 1..k
  <2>1. Places' = Places /\ k \in Places /\ \A i \in Places : i \in Nat /\ (i <= k => i \in 1..k)
    BY <1>0, <1>5, SMT DEF Places, WriterTypes
  <2>2. \A i \in Places : In(w, i)' <=> \E j \in Places : i <= j /\ writers[j] = writers[k]
    BY <1>4, <1>5, <2>1 DEF In
  <2> QED
    BY <1>0, <2>1, <2>2, SMT DEF QueueInv
<1>9. Ordered'
  BY <1>0, <1>4, <1>5, <1>7, <1>8, SMTT(20) DEF Ordered
<1>10. Complete'
  BY <1>2, <1>4, <1>5, <1>7, <1>8, SMT DEF Complete, Flight, LeaderPcs
<1>11. Hidden'
  BY <1>0, <1>5, <1>6, <1>7 DEF Hidden, LeaderPcs
<1>12. Older'
  BY <1>5, <1>6, <1>8, QueueUnseen DEF Older, LeaderPcs
<1>13. Settled'
  <2>1. \A x \in Writers : /\ pc'[x] # "pop"
                           /\ pc'[x] = "queued" => x # w /\ pc[x] = "queued"
    BY <1>7 DEF LeaderPcs
  <2>2. \A x \in Writers : pc'[x] = "queued" /\ done[x] => Outcome(call[x], loc'[x].status)
    BY <1>0, <1>4, <2>1 DEF Settled
  <2> QED
    BY <1>5, <1>6, <2>1, <2>2 DEF Settled, Outcome
<1>14. InWrite' = InWrite
  BY <1>5, <1>7 DEF InWrite
<1> QED
  BY <1>5, <1>6, <1>9, <1>10, <1>11, <1>12, <1>13, <1>14 DEF BatchInv

-----------------------------------------------------------------------------
(* From the log to the return.                                             *)

\* The log and Sync change nothing for readers; a group with nothing to insert
\* is inserted.
LEMMA BatchLog ==
  ASSUME TypeInv, QueueInv, BatchInv, NEW w \in Writers,
         AddRecord(w) \/ AddRecordFails(w) \/ Sync(w) \/ SyncFails(w)
  PROVE  BatchInv' /\ Visible' = Visible /\ InWrite' = InWrite /\ UNCHANGED <<acked, failed>>
<1>0. /\ WriterTypes /\ QueueInv /\ Ordered /\ Complete /\ Hidden /\ Older /\ Settled
      /\ \A x \in Writers : loc[x] \in LocRecords
  BY DEF TypeInv, BatchInv, WriterTypes
<1>1. UNCHANGED <<writers, call, done, ncalls, acked, failed, lastSequence, tables, memtable,
                  mem, imm>>
  BY DEF AddRecord, AddRecordFails, Sync, SyncFails, dataVars, histVars
<1>2. /\ pc[w] \in {"log", "sync"}
      /\ \/ /\ loc' = loc
            /\ \/ \E p \in {"sync", "insert"} : pc' = [pc EXCEPT ![w] = p]
               \/ loc[w].group.entries = {} /\ pc' = [pc EXCEPT ![w] = "relock"]
         \/ /\ \E s \in {"error", "syncerror"} : loc' = [loc EXCEPT ![w].status = s]
            /\ pc' = [pc EXCEPT ![w] = "relock"]
  BY DEF AddRecord, AddRecordFails, Sync, SyncFails, Insertion, dataVars
<1>3. Store' = Store /\ Visible' = Visible
  BY <1>1 DEF Store, Visible
<1>4. \A x \in Writers \ {w} : pc'[x] = pc[x] /\ pc[x] \notin LeaderPcs
  BY <1>0, <1>2, OnlyLeader DEF WriterTypes, LeaderPcs
<1>5. /\ \A x \in Writers \ {w} : loc'[x] = loc[x]
      /\ loc'[w].group = loc[w].group
      /\ \/ loc'[w].status = loc[w].status /\ pc'[w] \in {"sync", "insert"}
         \/ pc'[w] = "relock" /\ (loc'[w].status = "ok" => loc[w].group.entries = {})
  <2>1. CASE loc' = loc
    BY <1>0, <1>2, <2>1, SMT DEF WriterTypes, LocRecords
  <2>2. ASSUME NEW s \in {"error", "syncerror"}, loc' = [loc EXCEPT ![w].status = s],
               pc' = [pc EXCEPT ![w] = "relock"]
        PROVE  /\ \A x \in Writers \ {w} : loc'[x] = loc[x]
               /\ loc'[w].group = loc[w].group /\ pc'[w] = "relock" /\ loc'[w].status # "ok"
    BY <1>0, <2>2 DEF WriterTypes, LocRecords
  <2> QED
    BY <1>2, <2>1, <2>2
<1>6. Places' = Places /\ \A l \in Writers, i \in Places : In(l, i)' <=> In(l, i)
  BY <1>1, <1>5 DEF Places, In
<1>7. Ordered'
  BY <1>0, <1>1, <1>2, <1>4, <1>5, <1>6, SMTT(20) DEF Ordered
<1>8. Complete'
  BY <1>0, <1>1, <1>2, <1>4, <1>5, <1>6, SMTT(20) DEF Complete, Flight, LeaderPcs
<1>9. Hidden'
  <2>1. \A e \in Store : e.seq <= lastSequence
    BY <1>0, <1>2, <1>4 DEF Hidden, LeaderPcs
  <2> QED
    BY <1>1, <1>3, <1>4, <1>5, <2>1 DEF Hidden, LeaderPcs
<1>10. Older'
  BY <1>1, <1>2, <1>3, <1>6, QueueUnseen DEF Older, LeaderPcs
<1>11. Settled'
  <2>1. \A x \in Writers : /\ pc'[x] # "pop"
                           /\ pc'[x] = "queued" => x # w /\ pc[x] = "queued"
    BY <1>4, <1>5 DEF LeaderPcs
  <2>2. \A x \in Writers : pc'[x] = "queued" /\ done[x] => Outcome(call[x], loc'[x].status)
    BY <1>0, <1>5, <2>1 DEF Settled
  <2> QED
    BY <1>1, <1>3, <2>1, <2>2 DEF Settled, Outcome
<1>12. InWrite' = InWrite
  BY <1>1, <1>2, <1>4, <1>5 DEF InWrite
<1> QED
  BY <1>1, <1>3, <1>7, <1>8, <1>9, <1>10, <1>11, <1>12 DEF BatchInv

\* Readers do not see what is being inserted: it is newer than LastSequence.
LEMMA BatchInsert ==
  ASSUME TypeInv, QueueInv, GroupInv, BatchInv, NEW w \in Writers, InsertInto(w)
  PROVE  BatchInv' /\ Visible' = Visible /\ InWrite' = InWrite /\ UNCHANGED <<acked, failed>>
<1>0. /\ WriterTypes /\ DataInv /\ Ordered /\ Complete /\ Hidden /\ Older /\ Settled
  BY DEF TypeInv, BatchInv
<1>1. PICK e \in loc[w].group.entries :
        /\ memtable' = [memtable EXCEPT ![mem] = @ \cup {e}]
        /\ pc' = [pc EXCEPT ![w] = IF loc[w].group.entries \ (memtable[mem] \cup {e}) = {}
                                   THEN "relock" ELSE "insert"]
  BY DEF InsertInto
<1>2. /\ pc[w] = "insert"
      /\ UNCHANGED <<writers, call, loc, done, ncalls, acked, failed, lastSequence, tables, mem,
                     imm>>
  BY DEF InsertInto, histVars
<1>3. /\ pc'[w] \in {"insert", "relock"}
      /\ pc'[w] = "relock" => loc[w].group.entries \subseteq memtable[mem] \cup {e}
      /\ \A x \in Writers \ {w} : pc'[x] = pc[x] /\ pc[x] \notin LeaderPcs
  BY <1>0, <1>1, <1>2, OnlyLeader DEF WriterTypes, LeaderPcs
<1>4. /\ memtable'[mem] = memtable[mem] \cup {e}
      /\ \A n \in DOMAIN memtable \ {mem} : memtable'[n] = memtable[n]
      /\ mem \in DOMAIN memtable /\ (imm # 0 => imm \in DOMAIN memtable)
  BY <1>0, <1>1 DEF DataInv
<1>5. Store' = Store \cup {e}
  <2>1. CASE imm = 0 \/ imm = mem
    BY <1>2, <1>4, <2>1 DEF Store
  <2>2. CASE imm # 0 /\ imm # mem
    BY <1>2, <1>4, <2>2 DEF Store
  <2> QED
    BY <2>1, <2>2
<1>6. ~(e.seq <= lastSequence)
  <2>1. e.seq > lastSequence
    BY <1>2 DEF GroupInv
  <2>2. lastSequence \in Nat /\ e.seq \in Nat
    BY <1>0, SMT DEF DataInv, DataTypes, WriterTypes, LocRecords, GroupRecords, Entries
  <2> QED
    BY <2>1, <2>2, SMT
<1>7. Visible' = Visible
  BY <1>2, <1>5, <1>6 DEF Visible
<1>8. Places' = Places /\ \A l \in Writers, i \in Places : In(l, i)' <=> In(l, i)
  BY <1>2 DEF Places, In
<1>9. Ordered'
  BY <1>0, <1>2, <1>3, <1>8, SMT DEF Ordered
<1>10. Complete'
  BY <1>0, <1>2, <1>3, <1>8 DEF Complete, Flight, LeaderPcs
<1>11. Hidden'
  <2>1. loc[w].status = "ok"
    BY <1>0, <1>2 DEF Ordered
  <2>2. \A f \in Store : f.seq <= lastSequence \/ f \in loc[w].group.entries
    BY <1>0, <1>2, <1>3 DEF Hidden, LeaderPcs
  <2> QED
    BY <1>2, <1>3, <1>4, <1>5, <2>1, <2>2 DEF Hidden, LeaderPcs
<1>12. Older'
  BY <1>2, <1>7, <1>8, QueueUnseen DEF Older, LeaderPcs
<1>13. Settled'
  BY <1>0, <1>2, <1>3, <1>7 DEF Settled, Outcome, LeaderPcs
<1>14. InWrite' = InWrite
  BY <1>2, <1>3 DEF InWrite
<1> QED
  BY <1>2, <1>7, <1>9, <1>10, <1>11, <1>12, <1>13, <1>14 DEF BatchInv

\* AtomicBatches counts as this module does.
LEMMA SameCardinality == \A S : Batches!Cardinality(S) = Cardinality(S)
BY DEF Cardinality, Batches!Cardinality, IsFiniteSet, Batches!IsFiniteSet

\* SetLastSequence shows readers the whole group, or nothing if it failed.
LEMMA BatchPublish ==
  ASSUME TypeInv, QueueInv, GroupInv, SeqInv, SyncInv, BatchInv, NEW w \in Writers, Publish(w)
  PROVE  /\ BatchInv' /\ InWrite' = InWrite /\ UNCHANGED <<acked, failed>>
         /\ Visible' = Visible \/ Batches!Commit
<1>0. /\ WriterTypes /\ DataInv /\ DataTypes /\ Ids /\ Ordered /\ Complete /\ Hidden /\ Older
      /\ Settled
  BY DEF TypeInv, DataInv, SyncInv, BatchInv
<1> DEFINE es == loc[w].group.entries
           c(i) == call[writers[i]]
<1>1. /\ pc[w] = "relock" /\ pc' = [pc EXCEPT ![w] = "pop"]
      /\ lastSequence' = loc[w].group.lastSeq
      /\ UNCHANGED <<writers, call, loc, done, ncalls, acked, failed, tables, memtable, mem, imm>>
  BY DEF Publish, NewLastSequence, histVars
<1>2. /\ pc'[w] = "pop"
      /\ \A x \in Writers \ {w} : pc'[x] = pc[x] /\ pc[x] \notin LeaderPcs
  BY <1>0, <1>1, OnlyLeader DEF WriterTypes, LeaderPcs
<1>3. /\ Store' = Store /\ Store \subseteq Entries
      /\ lastSequence \in Nat /\ lastSequence' \in Nat /\ lastSequence <= lastSequence'
  BY <1>0, <1>1, StoreWritten DEF Store, DataTypes, WriterTypes, LocRecords, GroupRecords,
     GroupInv
<1>4. /\ \A e \in es : e.seq > lastSequence /\ e.seq <= lastSequence' /\ e \in Entries
      /\ loc[w].status = "ok" => es \subseteq Store
  BY <1>0, <1>1 DEF SeqInv, Flight, WriterTypes, LocRecords, GroupRecords, Hidden, Store
<1>5. \A e \in Store : e.seq <= lastSequence \/ (loc[w].status = "ok" /\ e \in es)
  BY <1>0, <1>1, <1>2 DEF Hidden, LeaderPcs
<1>6. Visible' = IF loc[w].status = "ok" THEN Visible \cup es ELSE Visible
  <2>1. \A e \in Store : e.seq \in Nat
    BY <1>3 DEF Entries
  <2>2. Visible' = {e \in Store : e.seq <= lastSequence'}
    BY <1>3 DEF Visible
  <2>3. \A e \in Store : e.seq <= lastSequence'
    BY <1>3, <1>4, <1>5, <2>1, SMT
  <2> QED
    BY <1>4, <1>5, <2>2, <2>3 DEF Visible
<1>7. Places' = Places /\ \A l \in Writers, i \in Places : In(l, i)' <=> In(l, i)
  BY <1>1 DEF Places, In
<1>8. \A i \in Places : /\ \A e \in Visible : e.op < c(i).id
                        /\ Of(c(i), Visible) = {}
                        /\ c(i) \in CallRecords /\ Active(writers[i])
  BY <1>0, <1>1, QueueUnseen, QueueActive DEF LeaderPcs, WriterTypes
<1>9. \A i \in Places : In(w, i) => Cardinality(Of(c(i), es)) = c(i).count
  BY <1>0, <1>1 DEF Complete, Flight
<1>10. \A e \in es : \E i \in Places : In(w, i) /\ e.op = c(i).id
  BY <1>0, <1>1 DEF Ids, Flight
<1>11. Ordered'
  BY <1>0, <1>1, <1>2, <1>7, SMT DEF Ordered
<1>12. Complete'
  BY <1>2 DEF Complete, Flight, LeaderPcs
<1>13. Hidden'
  <2>1. \A e \in Store : e.seq <= lastSequence'
    BY <1>3, <1>4, <1>5, SMT DEF Entries
  <2> QED
    BY <1>2, <1>3, <2>1 DEF Hidden, LeaderPcs
<1>14. Older'
  <2> SUFFICES ASSUME NEW e \in Visible', NEW i \in Places, ~In(w, i)
               PROVE  e.op < c(i).id
    BY <1>1, <1>2, <1>7 DEF Older
  <2>1. CASE e \in Visible
    BY <1>8, <2>1
  <2>2. CASE e \in es
    <3>1. PICK j \in Places : In(w, j) /\ e.op = c(j).id
      BY <1>10, <2>2
    <3>2. j < i
      <4>1. PICK k \in Places : j <= k /\ writers[k] = loc[w].group.last
        BY <3>1 DEF In
      <4>2. ~(i <= k)
        BY <4>1 DEF In
      <4> QED
        BY <4>1, <4>2, SMT DEF Places
    <3> QED
      BY <1>0, <3>1, <3>2 DEF Ordered
  <2> QED
    BY <1>6, <2>1, <2>2
<1>15. Settled'
  <2>1. ASSUME NEW i \in Places, In(w, i) PROVE Outcome(c(i), loc[w].status)'
    <3>1. loc[w].status = "ok" => Of(c(i), Visible') = Of(c(i), es)
      BY <1>6, <1>8 DEF Of
    <3>2. Outcome(c(i), loc[w].status)' <=>
            IF loc[w].status = "ok" THEN Cardinality(Of(c(i), Visible')) = c(i).count
            ELSE Of(c(i), Visible') = {}
      BY <1>1 DEF Outcome, Of
    <3> QED
      BY <1>6, <1>8, <1>9, <2>1, <3>1, <3>2
  <2>2. ASSUME NEW x \in Writers, pc[x] = "queued", done[x]
        PROVE  Outcome(call[x], loc[x].status)'
    <3>1. Of(call[x], Visible') = Of(call[x], Visible)
      <4>1. \A e \in es : e.op # call[x].id
        <5> SUFFICES ASSUME NEW i \in Places, c(i).id = call[x].id PROVE FALSE
          BY <1>10
        <5>1. writers[i] \in Writers /\ Active(x)
          BY <1>0, <2>2, QueueActive DEF Active
        <5>2. writers[i] = x
          BY <1>0, <1>8, <5>1 DEF Ids
        <5> QED
          BY <1>0, <2>2, <5>2, QueueActive
      <4> QED
        BY <1>6, <4>1 DEF Of
    <3>2. Outcome(call[x], loc[x].status)
      BY <1>0, <2>2 DEF Settled
    <3> QED
      BY <1>1, <3>1, <3>2 DEF Outcome, Of
  <2> QED
    BY <1>1, <1>2, <1>7, <2>1, <2>2 DEF Settled, LeaderPcs
<1>16. InWrite' = InWrite
  BY <1>1, <1>2 DEF InWrite
<1>17. CASE loc[w].status = "ok" /\ es # {}
  <2>1. Visible' \ Visible = es /\ Visible \subseteq Visible' /\ Visible' # Visible
    BY <1>3, <1>4, <1>6, <1>17, SMTT(20) DEF Visible, Entries
  <2>2. \A e \in es : \E d \in InWrite : d.id = e.op /\ Cardinality(Of(d, es)) = d.count
    <3> SUFFICES ASSUME NEW e \in es
                 PROVE  \E d \in InWrite : d.id = e.op /\ Cardinality(Of(d, es)) = d.count
      OBVIOUS
    <3>1. PICK i \in Places : In(w, i) /\ e.op = c(i).id
      BY <1>10
    <3>2. c(i) \in InWrite
      BY <1>0, <1>8, QueueActive DEF InWrite, Active
    <3> QED
      BY <1>9, <3>1, <3>2
  <2>3. \A e \in es, f \in Visible : f.seq < e.seq /\ f.op < e.op
    BY <1>3, <1>4, <1>8, <1>10, SMTT(20) DEF Visible, Entries
  <2>4. \A e, f \in es : e.op < f.op => e.seq < f.seq
    BY <1>0, <1>1 DEF Complete, Flight
  <2>5. Batches!Commit
    <3> HIDE DEF es
    <3>1. \A d : Batches!EntriesOf(d, Visible' \ Visible) = Of(d, es)
      BY <2>1 DEF Batches!EntriesOf, Of
    <3>2. \A e \in Visible' \ Visible : \E d \in InWrite :
            d.id = e.op /\ Batches!Cardinality(Batches!EntriesOf(d, Visible' \ Visible)) = d.count
      BY <2>1, <2>2, <3>1, SameCardinality
    <3>3. \A e \in Visible' \ Visible, f \in Visible : f.seq < e.seq /\ f.op < e.op
      BY <2>1, <2>3
    <3>4. \A e, f \in Visible' \ Visible : e.op < f.op => e.seq < f.seq
      BY <2>1, <2>4
    <3> QED
      BY Zenon, <1>1, <1>16, <2>1, <3>2, <3>3, <3>4 DEF Batches!Commit
  <2> QED
    BY <1>1, <1>11, <1>12, <1>13, <1>14, <1>15, <1>16, <2>5 DEF BatchInv
<1>18. CASE ~(loc[w].status = "ok" /\ es # {})
  <2>1. Visible' = Visible
    BY <1>6, <1>18
  <2> QED
    BY <1>1, <1>11, <1>12, <1>13, <1>14, <1>15, <1>16, <2>1 DEF BatchInv
<1> QED
  BY <1>17, <1>18

\* A call that returns with what its group came to is a return of AtomicBatches.
LEMMA BatchReturns ==
  ASSUME WriterTypes, Ids, NEW w \in Writers, Active(w), Return(w, loc[w].status = "ok"),
         UNCHANGED call, Visible' = Visible, Outcome(call[w], loc[w].status)
  PROVE  Batches!ReturnOK \/ Batches!ReturnError
<1>1. /\ ~Active(w)' /\ \A x \in Writers \ {w} : Active(x)' <=> Active(x)
  BY DEF WriterTypes, Return, Active
<1>2. InWrite = {call[x] : x \in {y \in Writers : Active(y)}}
  BY DEF InWrite, Active
<1>3. InWrite' = {call[x] : x \in {y \in Writers : Active(y)'}}
  BY DEF InWrite, Active
<1>4. \A x \in Writers : Active(x) /\ call[x] = call[w] => x = w
  BY DEF Ids
<1>5. call[w] \in InWrite /\ InWrite' = InWrite \ {call[w]}
  BY <1>1, <1>2, <1>3, <1>4
<1>6. Of(call[w], Visible) = Batches!EntriesOf(call[w], Visible)
  BY DEF Of, Batches!EntriesOf
<1>7. CASE loc[w].status = "ok"
  <2>1. Batches!Cardinality(Batches!EntriesOf(call[w], Visible)) = call[w].count
    BY <1>6, <1>7, SameCardinality DEF Outcome
  <2>2. acked' = acked \cup {call[w]} /\ failed' = failed
    BY <1>7 DEF Return
  <2> QED
    BY <1>5, <2>1, <2>2 DEF Batches!ReturnOK
<1>8. CASE loc[w].status # "ok"
  <2>1. Batches!EntriesOf(call[w], Visible) = {}
    BY <1>6, <1>8 DEF Outcome
  <2>2. failed' = failed \cup {call[w]} /\ acked' = acked
    BY <1>8 DEF Return
  <2> QED
    BY <1>5, <2>1, <2>2 DEF Batches!ReturnError
<1> QED
  BY <1>7, <1>8

\* A writer that was told its outcome returns it.
LEMMA BatchWakeDone ==
  ASSUME TypeInv, QueueInv, SyncInv, BatchInv, NEW w \in Writers, WakeDone(w)
  PROVE  BatchInv' /\ (Batches!ReturnOK \/ Batches!ReturnError)
<1>0. /\ WriterTypes /\ Ids /\ Ordered /\ Complete /\ Hidden /\ Older /\ Settled
  BY DEF TypeInv, SyncInv, BatchInv
<1>1. /\ pc[w] = "queued" /\ done[w] /\ Return(w, loc[w].status = "ok")
      /\ UNCHANGED <<writers, call, loc, done, ncalls, lastSequence, tables, memtable, mem, imm>>
  BY DEF WakeDone, dataVars
<1>2. Store' = Store /\ Visible' = Visible
  BY <1>1 DEF Store, Visible
<1>3. /\ pc'[w] \in {"idle", "immwait"} /\ Active(w)
      /\ \A x \in Writers \ {w} : pc'[x] = pc[x]
      /\ \A c \in failed' : c \in failed \/ c = call[w]
  BY <1>0, <1>1 DEF WriterTypes, Active, Return
<1>4. Places' = Places /\ \A l \in Writers, i \in Places : In(l, i)' <=> In(l, i)
  BY <1>1 DEF Places, In
<1>5. \A x \in Writers : /\ pc'[x] \in LeaderPcs \cup {"queued"} => pc'[x] = pc[x]
                         /\ pc[x] \in LeaderPcs => pc'[x] = pc[x]
  BY <1>1, <1>3 DEF LeaderPcs
<1>6. Ordered'
  BY <1>0, <1>1, <1>3, <1>4, <1>5, SMTT(20) DEF Ordered, Ids, LeaderPcs
<1>7. Complete'
  BY <1>0, <1>1, <1>4, <1>5 DEF Complete, Flight, LeaderPcs
<1>8. Hidden'
  BY <1>0, <1>1, <1>2, <1>5 DEF Hidden, LeaderPcs
<1>9. Older'
  BY <1>0, <1>1, <1>2, <1>4, <1>5 DEF Older, LeaderPcs
<1>10. Settled'
  <2>1. \A l \in Writers, i \in Places' :
          pc'[l] = "pop" /\ In(l, i)' => Outcome(call'[writers'[i]], loc'[l].status)
    BY <1>0, <1>1, <1>4, <1>5 DEF Settled, LeaderPcs
  <2>2. \A x \in Writers :
          pc'[x] = "queued" /\ done'[x] => Outcome(call'[x], loc'[x].status)
    BY <1>0, <1>1, <1>5 DEF Settled, LeaderPcs
  <2> QED
    BY <1>2, <2>1, <2>2 DEF Settled, Outcome
<1>11. Outcome(call[w], loc[w].status)
  BY <1>0, <1>1 DEF Settled
<1> QED
  BY <1>0, <1>1, <1>2, <1>3, <1>6, <1>7, <1>8, <1>9, <1>10, <1>11, BatchReturns DEF BatchInv

\* The leader returns, and tells its group what came of it.
LEMMA BatchPop ==
  ASSUME TypeInv, QueueInv, SyncInv, BatchInv, NEW w \in Writers, Pop(w)
  PROVE  BatchInv' /\ (Batches!ReturnOK \/ Batches!ReturnError)
<1>0. /\ WriterTypes /\ QueueInv /\ Ids /\ Ordered /\ Hidden /\ Older /\ Settled
      /\ \A x \in Writers : loc[x] \in LocRecords
  BY DEF TypeInv, SyncInv, BatchInv, WriterTypes
<1>1. PICK k \in Places :
        /\ done' = [x \in Writers |-> done[x] \/ x \in {writers[i] : i \in 1..k} \ {w}]
        /\ loc' = [x \in Writers |-> IF x \in {writers[i] : i \in 1..k} \ {w}
                                     THEN [loc[x] EXCEPT !.status = loc[w].status]
                                     ELSE loc[x]]
        /\ k \in Nat /\ 1 \in Places /\ 1 <= k /\ writers[1] = w
        /\ \A i \in 1..k : i \in Places /\ i <= k
        /\ \A i \in Places : In(w, i) <=> i <= k
        /\ \A i \in Places' : i + k \in Places /\ ~(i + k <= k) /\ writers'[i] = writers[i + k]
  BY <1>0, PopQueue
<1>2. /\ pc[w] = "pop" /\ Return(w, loc[w].status = "ok")
      /\ UNCHANGED <<call, ncalls, lastSequence, tables, memtable, mem, imm>>
  BY DEF Pop, dataVars
<1>3. Store' = Store /\ Visible' = Visible
  BY <1>2 DEF Store, Visible
<1>4. /\ pc'[w] \in {"idle", "immwait"} /\ Active(w)
      /\ \A x \in Writers \ {w} : pc'[x] = pc[x] /\ pc[x] \notin LeaderPcs
      /\ \A c \in failed' : c \in failed \/ c = call[w]
  BY <1>0, <1>2, OnlyLeader DEF WriterTypes, Active, LeaderPcs, Return
<1>5. \A x \in Writers : pc'[x] \notin LeaderPcs
  BY <1>4 DEF LeaderPcs
<1>6. Ordered'
  <2>1. \A c \in failed' : c.id <= ncalls
    BY <1>0, <1>4 DEF Ordered, Ids
  <2>2. \A i, j \in Places' : i < j => i + k < j + k /\ i + k \in Places /\ j + k \in Places
    BY <1>1, SMT DEF Places
  <2>3. \A i, j \in Places' : i < j => call[writers'[i]].id < call[writers'[j]].id
    BY <1>0, <1>1, <2>2 DEF Ordered
  <2>4. \A x \in Writers : pc'[x] = "queued" /\ ~done'[x] =>
          loc'[x].group.last = x /\ loc'[x].status = "ok"
    <3> SUFFICES ASSUME NEW x \in Writers, pc'[x] = "queued", ~done'[x]
                 PROVE  loc'[x].group.last = x /\ loc'[x].status = "ok"
      OBVIOUS
    <3>1. x # w /\ pc[x] = "queued" /\ ~done[x] /\ loc'[x] = loc[x]
      BY <1>1, <1>4
    <3> QED
      BY <1>0, <3>1 DEF Ordered
  <2> QED
    BY <1>0, <1>2, <1>5, <2>1, <2>3, <2>4 DEF Ordered, LeaderPcs
<1>7. Complete'
  BY <1>5 DEF Complete, Flight, LeaderPcs
<1>8. Hidden'
  BY <1>0, <1>2, <1>3, <1>4, <1>5 DEF Hidden, LeaderPcs
<1>9. Older'
  <2> SUFFICES ASSUME NEW e \in Visible, NEW i \in Places' PROVE e.op < call[writers'[i]].id
    BY <1>2, <1>3 DEF Older
  <2>1. i + k \in Places /\ ~In(w, i + k) /\ writers'[i] = writers[i + k]
    BY <1>1
  <2>2. \A l \in Writers : pc[l] = "pop" => l = w
    BY <1>4 DEF LeaderPcs
  <2> QED
    BY <1>0, <2>1, <2>2 DEF Older
<1>10. \A i \in Places : i <= k => Outcome(call[writers[i]], loc[w].status)
  BY <1>0, <1>1, <1>2 DEF Settled
<1>11. Settled'
  <2>1. ASSUME NEW x \in Writers, pc'[x] = "queued", done'[x]
        PROVE  Outcome(call[x], loc'[x].status)
    <3>1. x # w /\ pc[x] = "queued"
      BY <1>4, <2>1
    <3>2. CASE \E i \in 1..k : x = writers[i]
      <4>1. PICK i \in 1..k : x = writers[i]
        BY <3>2
      <4>2. loc'[x] = [loc[x] EXCEPT !.status = loc[w].status]
        BY <1>1, <3>1, <4>1
      <4>3. loc'[x].status = loc[w].status
        BY <1>0, <4>2 DEF LocRecords
      <4> QED
        BY <1>1, <1>10, <4>1, <4>3
    <3>3. CASE ~\E i \in 1..k : x = writers[i]
      <4>1. done[x] /\ loc'[x] = loc[x]
        BY <1>1, <2>1, <3>3
      <4> QED
        BY <1>0, <3>1, <4>1 DEF Settled
    <3> QED
      BY <3>2, <3>3
  <2> QED
    BY <1>2, <1>3, <1>5, <2>1 DEF Settled, Outcome, LeaderPcs
<1>12. Outcome(call[w], loc[w].status)
  BY <1>1, <1>10
<1> QED
  BY <1>0, <1>2, <1>3, <1>4, <1>6, <1>7, <1>8, <1>9, <1>11, <1>12, BatchReturns DEF BatchInv

\* Every step keeps the invariant and is a step of AtomicBatches.
LEMMA BatchStep ==
  ASSUME TypeInv, GroupFacts, QueueInv, GroupInv, SeqInv, SyncInv, BatchInv, [Next]_vars
  PROVE  BatchInv' /\ [Batches!BatchNext]_(Batches!batchVars)
<1> DEFINE Stutters == Visible' = Visible /\ InWrite' = InWrite /\ UNCHANGED <<acked, failed>>
<1>1. Stutters => UNCHANGED Batches!batchVars
  BY DEF Batches!batchVars
<1>2. Batches!Invoke \/ Batches!Commit \/ Batches!ReturnOK \/ Batches!ReturnError
        => Batches!BatchNext
  BY DEF Batches!BatchNext
<1>3. CASE UNCHANGED vars
  <2>1. UNCHANGED <<writers, pc, call, loc, done, failed, acked, ncalls, lastSequence, tables,
                    memtable, mem, imm>>
    BY <1>3 DEF vars, writerVars, dataVars, histVars
  <2>2. Store' = Store /\ memtable'[mem'] = memtable[mem]
    BY <2>1 DEF Store
  <2>3. BatchInv' /\ Stutters
    BY <2>1, <2>2, BatchKept
  <2> QED
    BY <1>1, <2>3
<1>4. CASE CallStep
  <2>1. PICK w \in Writers : (\E c \in Calls : Write(w, c)) \/ WriterStep(w)
    BY <1>4 DEF CallStep
  <2>2. CASE \E c \in Calls : Write(w, c)
    BY <1>2, <2>2, BatchWrite
  <2>3. CASE WriterStep(w)
    <3>1. CASE Publish(w)
      BY <1>1, <1>2, <3>1, BatchPublish
    <3>2. CASE WakeDone(w) \/ Pop(w)
      BY <1>2, <3>2, BatchWakeDone, BatchPop
    <3>3. CASE \/ WakeFront(w) \/ RoomDelay(w) \/ DelayOver(w) \/ RoomWait(w) \/ RoomWake(w)
               \/ RoomSwitch(w) \/ AwaitImm(w) \/ CompactMemTableReturns(w)
      BY <1>1, <3>3, BatchQuiet
    <3>4. CASE \/ RoomError(w) \/ RoomSwitchFails(w) \/ RoomNull(w) \/ BuildBatchGroup(w)
               \/ AddRecord(w) \/ AddRecordFails(w) \/ Sync(w) \/ SyncFails(w)
               \/ InsertInto(w)
      BY <1>1, <3>4, BatchRoomEnds, BatchBuild, BatchLog, BatchInsert
    <3> QED
      BY <2>3, <3>1, <3>2, <3>3, <3>4 DEF WriterStep
  <2> QED
    BY <2>1, <2>2, <2>3
<1>5. CASE OtherStep
  BY <1>1, <1>5, BatchOther
<1> QED
  BY <1>3, <1>4, <1>5, NextCases
=============================================================================
