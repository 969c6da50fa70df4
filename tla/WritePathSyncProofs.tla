------------------------ MODULE WritePathSyncProofs -------------------------
(***************************************************************************)
(* A call with options.sync that returned OK has its entries on stable     *)
(* storage, whoever wrote them for it.                                     *)
(***************************************************************************)
EXTENDS WritePathProofs

\* Most leaves are first-order reasoning about sets and functions: Zenon tries them
\* first. The leaves that need arithmetic name the SMT solver.
USE Zenon, SMTT(20)

\* At first nothing is written or called.
LEMMA SyncInit ==
  ASSUME Init
  PROVE  SyncInv
<1>1. Written = {}
  <2>1. \A e : e \notin Written
    BY InWritten DEF Init
  <2> QED
    BY <2>1
<1> QED
  BY <1>1, SMT DEF Init, SyncInv, Ids, Unwritten, Joined, Ready, SyncedAcked, Active, Places, Flight

\* A step that writes nothing, lets nobody return and leaves the groups alone.
LEMMA SyncKept ==
  ASSUME SyncInv, UNCHANGED <<writers, call, ncalls, acked>>,
         Written' \subseteq Written, synced \subseteq synced', tables \subseteq tables',
         \A x \in Writers :
           /\ Active(x)' => Active(x)
           /\ loc'[x].group = loc[x].group
           /\ pc'[x] \in Flight => pc[x] \in Flight
           /\ pc[x] \in {"sync", "insert", "relock", "pop"} =>
                pc'[x] \in {"sync", "insert", "relock", "pop"}
           /\ pc'[x] \in {"log", "sync", "insert"} => pc'[x] = pc[x]
           /\ pc'[x] = "sync" => logs[mem] \subseteq logs'[mem']
           /\ pc'[x] \in {"insert", "relock", "pop"} /\ loc'[x].status = "ok" =>
                \/ pc[x] \in {"insert", "relock", "pop"} /\ loc[x].status = "ok"
                \/ \A i \in Places : Durable(call[writers[i]])
           /\ pc'[x] = "queued" /\ done'[x] /\ loc'[x].status = "ok" =>
                pc[x] = "queued" /\ done[x] /\ loc[x].status = "ok"
  PROVE  SyncInv'
<1>1. Places' = Places /\ \A l \in Writers, i \in Places : In(l, i)' <=> In(l, i)
  BY DEF Places, In
<1>2. Ids'
  BY <1>1, SMT DEF SyncInv, Ids
<1>3. Unwritten'
  BY <1>1 DEF SyncInv, Unwritten, Fresh
<1>4. Joined'
  BY <1>1, SMT DEF SyncInv, Joined
<1>5. \A c : Durable(c) => (c.sync => \A e \in Written' : e.op = c.id => e \in synced' \cup tables')
  BY DEF Durable
<1>6. Ready'
  <2>1. \A l \in Writers, i \in Places :
          In(l, i) /\ pc'[l] \in {"insert", "relock", "pop"} /\ loc'[l].status = "ok"
            => Durable(call[writers[i]])
    BY DEF SyncInv, Ready
  <2>2. \A x \in Writers : pc'[x] = "queued" /\ done'[x] /\ loc'[x].status = "ok"
            => Durable(call[x])
    BY DEF SyncInv, Ready
  <2>3. \A c \in acked : Durable(c)
    BY DEF SyncInv, Ready, SyncedAcked, Durable
  <2>4. SyncedAcked'
    BY <1>5, <2>3 DEF SyncedAcked
  <2> QED
    BY <1>1, <1>5, <2>1, <2>2, <2>4 DEF Ready, Durable
<1> QED
  BY <1>2, <1>3, <1>4, <1>6 DEF SyncInv

\* While the leader makes room, nothing of the queue is written.
LEMMA RoomFresh ==
  ASSUME TypeInv, QueueInv, SyncInv, NEW w \in Writers, pc[w] \in {"room", "log"}
  PROVE  \A i \in Places : Fresh(writers[i]) /\ Durable(call[writers[i]])
<1>1. \A l \in Writers : pc[l] \notin {"sync", "insert", "relock", "pop"}
  BY OnlyLeader DEF LeaderPcs
<1> QED
  BY <1>1 DEF SyncInv, Unwritten, Fresh, Durable

\* A new call has a number that nothing written has.
LEMMA SyncWrite ==
  ASSUME TypeInv, QueueInv, SyncInv, NEW w \in Writers, NEW c \in Calls, Write(w, c)
  PROVE  SyncInv'
<1>0. /\ WriterTypes /\ DataTypes /\ QueueInv /\ Ids /\ Unwritten /\ Joined /\ Ready
      /\ ncalls \in Nat
  BY DEF TypeInv, DataInv, SyncInv, WriterTypes
<1>1. /\ pc[w] = "idle" /\ ncalls' = ncalls + 1
      /\ UNCHANGED <<acked, synced, tables, logs, memtable, mem>>
  BY DEF Write, dataVars
<1>2. Written' = Written
  BY <1>1, SMT DEF Written
<1>3. /\ call'[w].id = ncalls + 1 /\ ~done'[w] /\ pc'[w] \in {"room", "queued"}
      /\ \A x \in Writers \ {w} : /\ pc'[x] = pc[x] /\ call'[x] = call[x]
                                  /\ loc'[x] = loc[x] /\ done'[x] = done[x]
  BY <1>0, WriteQueue
<1>4. /\ \A i \in Places' : i \in Places \/ writers'[i] = w
      /\ \A i \in Places : i \in Places' /\ writers'[i] = writers[i] /\ writers[i] # w
  BY <1>0, WriteQueue
<1>5. \A i \in Places : call'[writers'[i]] = call[writers[i]]
  BY <1>0, WriteQueue
<1>6. \A l \in Writers : pc'[l] \in LeaderPcs \ {"room"} =>
        l # w /\ \A i \in Places' : In(l, i)' <=> i \in Places /\ In(l, i)
  BY <1>0, WriteQueue
<1>7. Ids'
  <2>1. \A x \in Writers : Active(x)' => x = w \/ Active(x)
    BY <1>3 DEF Active
  <2>2. \A x \in Writers : Active(x) => call[x].id <= ncalls /\ call[x].id \in Nat
    BY <1>0 DEF Ids, WriterTypes, CallRecords
  <2>3. \A e \in Written : e.op <= ncalls /\ e.op \in Nat
    BY <1>0, WrittenTyped DEF Ids, Entries
  <2>4. \A d \in acked : d.id <= ncalls /\ d.id \in Nat
    BY <1>0 DEF Ids, WriterTypes, CallRecords
  <2>5. \A l \in Writers : pc'[l] \in Flight => \A e \in loc'[l].group.entries :
          \E i \in Places' : In(l, i)' /\ e.op = call'[writers'[i]].id
    BY <1>0, <1>3, <1>4, <1>5, <1>6, SMTT(20) DEF Ids, Flight, LeaderPcs
  <2>6. \A x, y \in Writers : Active(x)' /\ Active(y)' /\ call'[x].id = call'[y].id => x = y
    BY <1>0, <1>3, <2>1, <2>2, SMTT(20) DEF Ids
  <2>7. \A d \in acked, x \in Writers : Active(x)' => d.id # call'[x].id
    BY <1>0, <1>3, <2>1, <2>4, SMTT(20) DEF Ids
  <2>8. \A x \in Writers : Active(x)' => call'[x].id <= ncalls + 1
    BY <1>0, <1>3, <2>1, <2>2, SMTT(20)
  <2>9. /\ \A e \in Written : e.op <= ncalls + 1
        /\ \A d \in acked : d.id <= ncalls + 1
    BY <1>0, <2>3, <2>4, SMT
  <2> QED
    BY <1>1, <1>2, <2>5, <2>6, <2>7, <2>8, <2>9 DEF Ids
<1>8. Unwritten'
  <2>1. \A e \in Written : e.op # ncalls + 1
    BY <1>0, WrittenTyped, SMT DEF Ids, Entries
  <2>2. Fresh(w)'
    BY <1>2, <1>3, <2>1 DEF Fresh
  <2>3. ASSUME NEW i \in Places
        PROVE  \/ Fresh(writers[i])'
               \/ \E l \in Writers : pc'[l] \in {"sync", "insert", "relock", "pop"} /\ In(l, i)'
    <3>1. CASE Fresh(writers[i])
      BY <1>2, <1>4, <1>5, <3>1 DEF Fresh
    <3>2. CASE \E l \in Writers : pc[l] \in {"sync", "insert", "relock", "pop"} /\ In(l, i)
      BY <1>1, <1>3, <1>4, <1>6, <3>2 DEF LeaderPcs
    <3> QED
      BY <1>0, <3>1, <3>2 DEF Unwritten
  <2> QED
    BY <1>4, <2>2, <2>3 DEF Unwritten, Fresh
<1>a. ASSUME NEW l \in Writers, NEW i \in Places', In(l, i)', pc'[l] \in LeaderPcs \ {"room"}
      PROVE  /\ l # w /\ i \in Places /\ In(l, i)
             /\ writers'[i] = writers[i] /\ call'[writers'[i]] = call[writers[i]]
             /\ pc'[l] = pc[l] /\ loc'[l] = loc[l] /\ call'[l] = call[l]
  <2>1. l # w /\ i \in Places /\ In(l, i)
    BY <1>6, <1>a
  <2> QED
    BY <1>3, <1>4, <1>5, <2>1
<1>9. Joined'
  <2> SUFFICES ASSUME NEW l \in Writers, NEW i \in Places', In(l, i)',
                      pc'[l] \in {"log", "sync", "insert"}
               PROVE  /\ pc'[l] \in {"log", "sync"} => (call'[writers'[i]].sync => call'[l].sync)
                      /\ pc'[l] = "sync" =>
                           \A e \in Written : e.op = call'[writers'[i]].id => e \in logs[mem]
                      /\ pc'[l] = "insert" /\ call'[writers'[i]].sync =>
                           loc'[l].group.entries \subseteq synced
    BY <1>1, <1>2 DEF Joined
  <2>1. /\ i \in Places /\ In(l, i) /\ call'[writers'[i]] = call[writers[i]]
        /\ pc'[l] = pc[l] /\ loc'[l] = loc[l] /\ call'[l] = call[l]
    BY <1>a DEF LeaderPcs
  <2> QED
    BY <1>0, <2>1 DEF Joined
<1>10. Ready'
  <2>1. SyncedAcked'
    BY <1>0, <1>1, <1>2 DEF Ready, SyncedAcked
  <2>2. \A x \in Writers : pc'[x] = "queued" /\ done'[x] /\ loc'[x].status = "ok" => Durable(call[x])'
    BY <1>0, <1>1, <1>2, <1>3, SMT DEF Ready, Durable
  <2>3. ASSUME NEW l \in Writers, NEW i \in Places', In(l, i)',
               pc'[l] \in {"insert", "relock", "pop"}, loc'[l].status = "ok"
        PROVE  Durable(call[writers[i]])'
    <3>1. /\ i \in Places /\ In(l, i) /\ call'[writers'[i]] = call[writers[i]]
          /\ pc'[l] = pc[l] /\ loc'[l] = loc[l]
      BY <1>a, <2>3 DEF LeaderPcs
    <3>2. Durable(call[writers[i]])
      BY <1>0, <2>3, <3>1 DEF Ready
    <3> QED
      BY <1>1, <1>2, <3>1, <3>2 DEF Durable
  <2> QED
    BY <2>1, <2>2, <2>3 DEF Ready
<1> QED
  BY <1>7, <1>8, <1>9, <1>10 DEF SyncInv

\* Steps that write nothing and end no call: those of MakeRoomForWrite, a failed
\* sync, the publication of LastSequence and the wait for imm_.
LEMMA SyncQuiet ==
  ASSUME TypeInv, QueueInv, SyncInv, NEW w \in Writers,
         \/ WakeFront(w) \/ RoomError(w) \/ RoomDelay(w) \/ DelayOver(w) \/ RoomWait(w)
         \/ RoomWake(w) \/ RoomSwitch(w) \/ RoomSwitchFails(w) \/ RoomNull(w) \/ SyncFails(w)
         \/ Publish(w) \/ AwaitImm(w) \/ CompactMemTableReturns(w)
  PROVE  SyncInv'
<1>0. WriterTypes /\ QueueInv /\ \A x \in Writers : loc[x] \in LocRecords
  BY DEF TypeInv, WriterTypes
<1>1. UNCHANGED <<writers, call, ncalls, acked, done, synced, tables>>
  BY DEF WakeFront, RoomError, RoomDelay, DelayOver, RoomWait, RoomWake, RoomSwitch,
     RoomSwitchFails, RoomNull, SyncFails, Publish, AwaitImm, CompactMemTableReturns,
     writerVars, dataVars, histVars
<1>2. CASE RoomSwitch(w)
  <2>1. /\ logs' = [n \in DOMAIN logs \cup {mem + 1} |-> IF n = mem + 1 THEN {} ELSE logs[n]]
        /\ memtable' = [n \in DOMAIN memtable \cup {mem + 1} |->
                          IF n = mem + 1 THEN {} ELSE memtable[n]]
        /\ loc' = [loc EXCEPT ![w].force = FALSE] /\ pc[w] = "room" /\ UNCHANGED pc
    BY <1>2 DEF RoomSwitch, InRoom
  <2>2. Written' \subseteq Written \cup {}
    BY <1>1, <2>1, InWritten, WrittenGrows
  <2>3. \A x \in Writers : loc'[x].group = loc[x].group /\ loc'[x].status = loc[x].status
    BY <1>0, <2>1 DEF WriterTypes, LocRecords
  <2>4. \A x \in Writers : pc[x] # "sync"
    BY <1>0, <2>1, OnlyLeader DEF LeaderPcs
  <2> QED
    BY <1>1, <2>1, <2>2, <2>3, <2>4, SyncKept DEF Active
<1>3. CASE ~RoomSwitch(w)
  <2>1. UNCHANGED <<logs, memtable, mem>>
    BY <1>3 DEF WakeFront, RoomError, RoomDelay, DelayOver, RoomWait, RoomWake,
       RoomSwitchFails, RoomNull, SyncFails, Publish, AwaitImm, CompactMemTableReturns, dataVars
  <2>2. Written' = Written
    BY <1>1, <2>1, SMT DEF Written
  <2>3. \/ loc' = loc \/ loc' = [loc EXCEPT ![w].delay = FALSE]
        \/ loc' = [loc EXCEPT ![w].status = "error"]
        \/ loc' = [loc EXCEPT ![w].status = "syncerror"]
    BY <1>3 DEF WakeFront, RoomError, RoomDelay, DelayOver, RoomWait, RoomWake,
       RoomSwitchFails, RoomNull, SyncFails, Publish, AwaitImm, CompactMemTableReturns,
       writerVars
  <2>4. \A x \in Writers : /\ loc'[x].group = loc[x].group
                           /\ loc'[x].status = "ok" => loc[x].status = "ok"
    <3> USE <1>0 DEF WriterTypes, LocRecords
    <3>1. CASE loc' = [loc EXCEPT ![w].delay = FALSE]
      BY <3>1
    <3>2. CASE loc' = [loc EXCEPT ![w].status = "error"]
      BY <3>2
    <3>3. CASE loc' = [loc EXCEPT ![w].status = "syncerror"]
      BY <3>3
    <3> QED
      BY <2>3, <3>1, <3>2, <3>3
  <2>5. \/ UNCHANGED pc
        \/ /\ pc[w] \in {"queued", "room", "delay", "bgwait"}
           /\ \E p \in {"room", "delay", "bgwait"} : pc' = [pc EXCEPT ![w] = p]
        \/ pc[w] \in {"room", "relock"} /\ pc' = [pc EXCEPT ![w] = "pop"]
        \/ /\ pc[w] = "sync" /\ pc' = [pc EXCEPT ![w] = "relock"]
           /\ loc' = [loc EXCEPT ![w].status = "syncerror"]
        \/ pc[w] = "immwait" /\ pc' = [pc EXCEPT ![w] = "idle"]
    BY <1>3 DEF WakeFront, RoomError, RoomDelay, DelayOver, RoomWait, RoomWake,
       RoomSwitchFails, RoomNull, SyncFails, Publish, AwaitImm, CompactMemTableReturns,
       writerVars, InRoom
  <2>6. pc[w] = "room" => \A i \in Places : Durable(call[writers[i]])
    BY RoomFresh
  <2>7. pc[w] = "sync" => loc'[w].status # "ok"
    BY <1>0, <1>3, SMT DEF WakeFront, RoomError, RoomDelay, DelayOver, RoomWait, RoomWake,
       RoomSwitchFails, RoomNull, SyncFails, Publish, AwaitImm, CompactMemTableReturns,
       InRoom, WriterTypes, LocRecords
  <2>8. \A x \in Writers \ {w} : pc'[x] = pc[x]
    BY <1>0, <2>5 DEF WriterTypes
  <2>9. \/ pc'[w] = pc[w]
        \/ pc[w] \in {"queued", "room", "delay", "bgwait"} /\ pc'[w] \in {"room", "delay", "bgwait"}
        \/ pc[w] \in {"room", "relock"} /\ pc'[w] = "pop"
        \/ pc[w] = "sync" /\ pc'[w] = "relock"
        \/ pc[w] = "immwait" /\ pc'[w] = "idle"
    BY <1>0, <2>5 DEF WriterTypes
  <2>10. ASSUME NEW x \in Writers
         PROVE  /\ Active(x)' => Active(x)
                /\ pc'[x] \in Flight => pc[x] \in Flight
                /\ pc[x] \in {"sync", "insert", "relock", "pop"} =>
                     pc'[x] \in {"sync", "insert", "relock", "pop"}
                /\ pc'[x] \in {"log", "sync", "insert"} => pc'[x] = pc[x]
                /\ pc'[x] = "queued" => pc[x] = "queued"
    BY <2>8, <2>9 DEF Active, Flight
  <2>11. ASSUME NEW x \in Writers, pc'[x] \in {"insert", "relock", "pop"}, loc'[x].status = "ok"
         PROVE  \/ pc[x] \in {"insert", "relock", "pop"} /\ loc[x].status = "ok"
                \/ \A i \in Places : Durable(call[writers[i]])
    <3>1. CASE x = w
      BY <2>4, <2>6, <2>7, <2>9, <2>11, <3>1
    <3>2. CASE x # w
      BY <2>4, <2>8, <2>11, <3>2
    <3> QED
      BY <3>1, <3>2
  <2> QED
    BY <1>1, <2>1, <2>2, <2>4, <2>10, <2>11, SyncKept
<1> QED
  BY <1>2, <1>3

\* A group takes a sync write only if its leader syncs, and only entries of its
\* members.
LEMMA SyncBuild ==
  ASSUME TypeInv, QueueInv, SyncInv, NEW w \in Writers, BuildBatchGroup(w)
  PROVE  SyncInv'
<1>0. /\ WriterTypes /\ QueueInv /\ Ids /\ Unwritten /\ Joined /\ Ready
      /\ \A x \in Writers : loc[x] \in LocRecords
  BY DEF TypeInv, SyncInv, WriterTypes
<1>1. PICK k \in 1..Len(writers) :
        /\ Groups(k)
        /\ loc' = [loc EXCEPT ![w].group =
                     [last |-> writers[k], entries |-> GroupEntries(k),
                      lastSeq |-> lastSequence + Cardinality(Cells(k))]]
  BY DEF BuildBatchGroup
<1> DEFINE es == GroupEntries(k)
           n == lastSequence + Cardinality(Cells(k))
<1>2. \A e \in es : \E i \in 1..k : e.op = call[writers[i]].id
  BY SMT DEF GroupEntries, Cells
<1>3. loc' = [loc EXCEPT ![w].group = [last |-> writers[k], entries |-> es, lastSeq |-> n]]
  BY <1>1
<1> HIDE DEF es, n
<1>4. /\ loc'[w].group.entries = es /\ loc'[w].group.last = writers[k]
      /\ \A x \in Writers \ {w} : loc'[x] = loc[x]
  BY <1>0, <1>3 DEF WriterTypes, LocRecords
<1>5. /\ pc[w] = "room" /\ pc' = [pc EXCEPT ![w] = "log"]
      /\ UNCHANGED <<logs, memtable, mem, tables, synced, writers, call, done, ncalls, acked>>
  BY DEF BuildBatchGroup, InRoom, dataVars, histVars
<1>6. Written' = Written
  BY <1>5, SMT DEF Written
<1>7. \A x \in Writers \ {w} : pc'[x] = pc[x] /\ pc[x] \notin LeaderPcs
  BY <1>0, <1>5, OnlyLeader DEF WriterTypes, LeaderPcs
<1>8. pc'[w] = "log"
  BY <1>0, <1>5 DEF WriterTypes
<1>9. Places' = Places /\ k \in Places /\ k \in Nat /\ Places \subseteq Nat
  BY <1>0, <1>5, SMT DEF Places, WriterTypes
<1>10. \A i \in Places : In(w, i)' <=> i <= k
  <2>1. \A i \in Places : In(w, i)' <=> \E j \in Places : i <= j /\ writers[j] = writers[k]
    BY <1>4, <1>5, <1>9 DEF In
  <2>2. \A i, j \in Places : writers[i] = writers[j] => i = j
    BY <1>0 DEF QueueInv
  <2>3. \A i, j \in Places : i <= j /\ j = k => i <= k
    OBVIOUS
  <2>4. k <= k
    BY <1>9, SMT
  <2> QED
    BY <1>9, <2>1, <2>2, <2>3, <2>4
<1>11. Ids'
  <2>1. \A x \in Writers : Active(x)' <=> Active(x)
    BY <1>5, <1>7, <1>8 DEF Active
  <2>2. \A i \in 1..k : i \in Places /\ i <= k
    BY <1>9, SMT DEF Places
  <2>3. \A l \in Writers : pc'[l] \in Flight => \A e \in loc'[l].group.entries :
          \E i \in Places' : In(l, i)' /\ e.op = call'[writers'[i]].id
    BY <1>2, <1>4, <1>5, <1>7, <1>9, <1>10, <2>2, SMTT(20) DEF Flight, LeaderPcs
  <2> QED
    BY <1>0, <1>5, <1>6, <2>1, <2>3 DEF Ids
<1>12. \A i \in Places : Fresh(writers[i])
  BY <1>5, RoomFresh
<1>13. Unwritten'
  BY <1>5, <1>6, <1>9, <1>12 DEF Unwritten, Fresh
<1>14. Joined'
  <2>1. Len(writers) > 0 /\ writers[1] = w /\ Head(writers) = w
    BY <1>0, <1>5, SMTT(20) DEF QueueInv, LeaderPcs, WriterTypes
  <2>2. \A i \in Places : i <= k /\ call[writers[i]].sync => call[w].sync
    <3>1. \A i \in 2..k : call[writers[i]].sync => call[w].sync
      BY <1>1, <2>1 DEF Groups, Joins
    <3> QED
      BY <1>9, <2>1, <3>1, SMT DEF Places
  <2> QED
    BY <1>5, <1>7, <1>8, <1>9, <1>10, <2>2, SMTT(20) DEF Joined, LeaderPcs
<1>15. Ready'
  <2>1. SyncedAcked'
    BY <1>0, <1>5, <1>6 DEF Ready, SyncedAcked
  <2>2. \A x \in Writers : pc'[x] = "queued" /\ done'[x] /\ loc'[x].status = "ok" => Durable(call[x])'
    BY <1>0, <1>4, <1>5, <1>6, <1>7, <1>8, SMTT(20) DEF Ready, Durable
  <2>3. \A l \in Writers : pc'[l] \notin {"insert", "relock", "pop"}
    BY <1>7, <1>8 DEF LeaderPcs
  <2> QED
    BY <2>1, <2>2, <2>3 DEF Ready
<1> QED
  BY <1>11, <1>13, <1>14, <1>15 DEF SyncInv

\* The log and the memtable get entries of the group only, and the memtable
\* none of a sync write before the log is synced.
LEMMA SyncGrows ==
  ASSUME TypeInv, QueueInv, SyncInv, NEW w \in Writers,
         AddRecord(w) \/ AddRecordFails(w) \/ InsertInto(w)
  PROVE  SyncInv'
<1>0. /\ WriterTypes /\ DataInv /\ DataTypes /\ QueueInv /\ Ids /\ Unwritten /\ Joined /\ Ready
      /\ \A x \in Writers : loc[x] \in LocRecords
  BY DEF TypeInv, DataInv, SyncInv, WriterTypes
<1> DEFINE es == loc[w].group.entries
<1>1. /\ UNCHANGED <<mem, tables, synced, writers, call, done, ncalls, acked>>
      /\ pc[w] \in {"log", "insert"}
      /\ \E p \in {"sync", "insert", "relock"} : pc' = [pc EXCEPT ![w] = p]
      /\ loc' = loc \/ loc' = [loc EXCEPT ![w].status = "error"]
      /\ logs' = logs \/ logs' = [logs EXCEPT ![mem] = @ \cup es]
      /\ memtable' = memtable \/ \E e \in es : memtable' = [memtable EXCEPT ![mem] = @ \cup {e}]
  BY DEF AddRecord, AddRecordFails, InsertInto, Insertion, histVars
<1>2. Written' \subseteq Written \cup es
  <2>1. /\ DOMAIN logs' = DOMAIN logs /\ \A n \in DOMAIN logs : logs'[n] \subseteq logs[n] \cup es
        /\ DOMAIN memtable' = DOMAIN memtable
        /\ \A n \in DOMAIN memtable : memtable'[n] \subseteq memtable[n] \cup es
    BY <1>1, SMT
  <2> QED
    BY <1>1, <2>1, InWritten, WrittenGrows, SMTT(20)
<1>3. \A x \in Writers : loc'[x].group = loc[x].group /\ (loc'[x].status = "ok" => loc[x].status = "ok")
  BY <1>0, <1>1, SMT DEF WriterTypes, LocRecords
<1>4. /\ pc'[w] \in {"sync", "insert", "relock"}
      /\ \A x \in Writers \ {w} : pc'[x] = pc[x] /\ pc[x] \notin LeaderPcs
  BY <1>0, <1>1, OnlyLeader DEF WriterTypes, LeaderPcs
<1>5. Places' = Places /\ \A l \in Writers, i \in Places : In(l, i)' <=> In(l, i)
  BY <1>1, <1>3 DEF In, Places
<1>6. \A e \in es : \E i \in Places : In(w, i) /\ e.op = call[writers[i]].id
  BY <1>0, <1>1 DEF Ids, Flight
<1>7. \A i \in Places : writers[i] \in Writers /\ Active(writers[i])
  BY <1>0, QueueActive
<1> HIDE DEF es
<1>8. Ids'
  <2>1. \A x \in Writers : Active(x)' <=> Active(x)
    BY <1>1, <1>4 DEF Active
  <2>2. \A e \in es : e.op <= ncalls
    BY <1>0, <1>6, <1>7 DEF Ids
  <2>3. \A l \in Writers : pc'[l] \in Flight => pc[l] \in Flight
    BY <1>1, <1>4 DEF Flight
  <2> QED
    BY <1>0, <1>1, <1>2, <1>3, <1>5, <2>1, <2>2, <2>3, SMTT(20) DEF Ids
<1>9. ASSUME NEW i \in Places, ~In(w, i)
      PROVE  \A e \in es : e.op # call[writers[i]].id
  <2> SUFFICES ASSUME NEW e \in es, e.op = call[writers[i]].id PROVE FALSE
    OBVIOUS
  <2>1. PICK j \in Places : In(w, j) /\ e.op = call[writers[j]].id
    BY <1>6
  <2>2. writers[i] = writers[j]
    BY <1>0, <1>7, <2>1 DEF Ids
  <2>3. i = j
    BY <1>0, <2>2 DEF QueueInv
  <2> QED
    BY <1>9, <2>1, <2>3
<1>10. Unwritten'
  <2> SUFFICES ASSUME NEW i \in Places
               PROVE  Fresh(writers[i])' \/ (pc'[w] \in {"sync", "insert", "relock", "pop"} /\ In(w, i)')
    BY <1>5 DEF Unwritten
  <2>1. CASE In(w, i)
    BY <1>4, <1>5, <2>1
  <2>2. CASE ~In(w, i)
    <3>1. Fresh(writers[i])
      BY <1>0, <1>4, <2>2 DEF Unwritten, LeaderPcs
    <3> QED
      BY <1>1, <1>2, <1>9, <2>2, <3>1 DEF Fresh
  <2> QED
    BY <2>1, <2>2
<1>a. ASSUME NEW c, Durable(c), \A e \in es : e.op # c.id
      PROVE  c.sync => \A e \in Written' : e.op = c.id => e \in synced \cup tables
  BY <1>2, <1>a DEF Durable
<1>b. \A x \in Writers : pc'[x] = "queued" /\ done[x] /\ loc'[x].status = "ok" =>
        (call[x].sync => \A e \in Written' : e.op = call[x].id => e \in synced \cup tables)
  <2> SUFFICES ASSUME NEW x \in Writers, pc'[x] = "queued", done[x], loc'[x].status = "ok"
               PROVE  Durable(call[x]) /\ \A e \in es : e.op # call[x].id
    BY <1>a
  <2>1. pc[x] = "queued" /\ loc[x].status = "ok" /\ Active(x)
    BY <1>3, <1>4 DEF Active
  <2>2. Durable(call[x])
    BY <1>0, <2>1 DEF Ready
  <2>3. \A i \in Places : writers[i] # x
    BY <1>0, <2>1, QueueActive
  <2>4. \A e \in es : e.op # call[x].id
    BY <1>0, <1>6, <1>7, <2>1, <2>3, SMTT(20) DEF Ids
  <2> QED
    BY <2>2, <2>4
<1>c. SyncedAcked'
  <2>1. \A c \in acked : Durable(c) /\ \A e \in es : e.op # c.id
    BY <1>0, <1>6, <1>7, SMT DEF Ready, SyncedAcked, Durable, Ids
  <2> QED
    BY <1>1, <1>a, <2>1 DEF SyncedAcked
<1>11. CASE AddRecord(w)
  <2>1. pc[w] = "log" /\ pc'[w] = (IF call[w].sync THEN "sync" ELSE Insertion(w))
    BY <1>0, <1>11 DEF AddRecord, WriterTypes
  <2>2. Insertion(w) \in {"insert", "relock"}
    BY DEF Insertion
  <2>3. \A i \in Places : In(w, i) /\ call[writers[i]].sync => call[w].sync
    BY <1>0, <2>1 DEF Joined
  <2>4. \A i \in Places : \A e \in Written' : e.op = call[writers[i]].id => e \in es
    BY <1>2, <2>1, RoomFresh DEF Fresh
  <2>5. es \subseteq logs'[mem]
    BY <1>0, <1>11 DEF AddRecord, DataInv, es
  <2>6. Joined'
    BY <1>1, <1>3, <1>4, <1>5, <2>1, <2>2, <2>3, <2>4, <2>5, SMTT(20) DEF Joined, LeaderPcs
  <2>7. \A i \in Places : In(w, i) /\ pc'[w] \in {"insert", "relock", "pop"} =>
          ~call[writers[i]].sync
    BY <2>1, <2>3
  <2>8. Ready'
    BY <1>1, <1>4, <1>5, <1>a, <1>b, <1>c, <2>7, SMTT(20) DEF Ready, Durable, LeaderPcs
  <2> QED
    BY <1>8, <1>10, <2>6, <2>8 DEF SyncInv
<1>12. CASE AddRecordFails(w)
  <2>1. pc'[w] = "relock" /\ loc'[w].status = "error"
    BY <1>0, <1>12 DEF AddRecordFails, WriterTypes, LocRecords
  <2>2. Joined'
    BY <1>4, <1>5, <2>1 DEF Joined, LeaderPcs
  <2>3. Ready'
    BY <1>1, <1>4, <1>5, <1>a, <1>b, <1>c, <2>1, SMTT(20) DEF Ready, Durable, LeaderPcs
  <2> QED
    BY <1>8, <1>10, <2>2, <2>3 DEF SyncInv
<1>13. CASE InsertInto(w)
  <2>1. pc[w] = "insert" /\ pc'[w] \in {"insert", "relock"} /\ loc' = loc
    BY <1>0, <1>13 DEF InsertInto, WriterTypes
  <2>2. \A i \in Places : In(w, i) /\ call[writers[i]].sync => es \subseteq synced
    BY <1>0, <2>1 DEF Joined, es
  <2>3. Joined'
    BY <1>1, <1>4, <1>5, <2>1, <2>2, SMTT(20) DEF Joined, LeaderPcs, es
  <2>4. \A i \in Places : In(w, i) /\ loc[w].status = "ok" => Durable(call[writers[i]])
    BY <1>0, <2>1 DEF Ready
  <2>5. \A i \in Places : In(w, i) /\ loc[w].status = "ok" /\ call[writers[i]].sync =>
          \A e \in Written' : e.op = call[writers[i]].id => e \in synced \cup tables
    BY <1>2, <2>2, <2>4 DEF Durable
  <2>6. Ready'
    BY <1>1, <1>4, <1>5, <1>a, <1>b, <1>c, <2>1, <2>5, SMTT(20) DEF Ready, Durable, LeaderPcs
  <2> QED
    BY <1>8, <1>10, <2>3, <2>6 DEF SyncInv
<1> QED
  BY <1>11, <1>12, <1>13

\* The sync makes durable whatever the group of its leader has in the log.
LEMMA SyncSync ==
  ASSUME TypeInv, QueueInv, LogInv, SyncInv, NEW w \in Writers, Sync(w)
  PROVE  SyncInv'
<1>0. WriterTypes /\ QueueInv /\ LogInv /\ Ids /\ Unwritten /\ Joined /\ Ready
  BY DEF TypeInv, SyncInv
<1>1. /\ pc[w] = "sync" /\ synced' = synced \cup logs[mem]
      /\ \E p \in {"insert", "relock"} : pc' = [pc EXCEPT ![w] = p]
      /\ UNCHANGED <<writers, call, loc, done, ncalls, acked, logs, memtable, mem, tables>>
  BY DEF Sync, Insertion, histVars
<1>2. Written' = Written
  BY <1>1 DEF Written
<1>3. /\ pc'[w] \in {"insert", "relock"}
      /\ \A x \in Writers \ {w} : pc'[x] = pc[x] /\ pc[x] \notin LeaderPcs
  BY <1>0, <1>1, OnlyLeader DEF WriterTypes, LeaderPcs
<1>4. Places' = Places /\ \A l \in Writers, i \in Places : In(l, i)' <=> In(l, i)
  BY <1>1 DEF Places, In
<1>5. Ids'
  <2>1. \A x \in Writers : (Active(x)' <=> Active(x)) /\ (pc'[x] \in Flight => pc[x] \in Flight)
    BY <1>1, <1>3 DEF Active, Flight
  <2> QED
    BY <1>0, <1>1, <1>2, <1>4, <2>1, SMT DEF Ids
<1>6. Unwritten'
  BY <1>0, <1>1, <1>2, <1>3, <1>4, SMTT(20) DEF Unwritten, Fresh, LeaderPcs
<1>7. Joined'
  <2>1. loc[w].group.entries \subseteq synced'
    BY <1>0, <1>1 DEF LogInv
  <2> QED
    BY <1>1, <1>3, <1>4, <2>1, SMT DEF Joined, LeaderPcs
<1>8. Ready'
  <2>1. \A i \in Places : In(w, i) => \A e \in Written : e.op = call[writers[i]].id => e \in synced'
    BY <1>0, <1>1 DEF Joined
  <2>2. \A c : Durable(c) => (c.sync => \A e \in Written : e.op = c.id => e \in synced' \cup tables)
    BY <1>1 DEF Durable
  <2>3. SyncedAcked'
    BY <1>0, <1>1, <1>2 DEF Ready, SyncedAcked
  <2>4. \A x \in Writers : pc'[x] = "queued" /\ done[x] /\ loc[x].status = "ok" => Durable(call[x])
    BY <1>0, <1>3 DEF Ready
  <2> QED
    BY <1>1, <1>2, <1>3, <1>4, <2>1, <2>2, <2>3, <2>4, SMTT(20) DEF Ready, Durable, LeaderPcs
<1> QED
  BY <1>5, <1>6, <1>7, <1>8 DEF SyncInv

\* A writer that a leader served returns what it was promised.
LEMMA SyncWakeDone ==
  ASSUME TypeInv, QueueInv, SyncInv, NEW w \in Writers, WakeDone(w)
  PROVE  SyncInv'
<1>0. WriterTypes /\ QueueInv /\ Ids /\ Unwritten /\ Joined /\ Ready
  BY DEF TypeInv, SyncInv
<1>1. /\ pc[w] = "queued" /\ done[w]
      /\ \E p \in {"idle", "immwait"} : pc' = [pc EXCEPT ![w] = p]
      /\ acked' = IF loc[w].status = "ok" THEN acked \cup {call[w]} ELSE acked
      /\ UNCHANGED <<writers, call, loc, done, ncalls, logs, memtable, mem, tables, synced>>
  BY DEF WakeDone, Return, dataVars
<1>2. Written' = Written
  BY <1>1, SMT DEF Written
<1>3. /\ pc'[w] \in {"idle", "immwait"} /\ Active(w)
      /\ \A x \in Writers \ {w} : pc'[x] = pc[x]
  BY <1>0, <1>1 DEF WriterTypes, Active
<1>4. Places' = Places /\ \A l \in Writers, i \in Places : In(l, i)' <=> In(l, i)
  BY <1>1 DEF Places, In
<1>5. \A x \in Writers : /\ Active(x)' => x # w /\ Active(x)
                         /\ pc'[x] \in LeaderPcs \cup {"queued"} => pc'[x] = pc[x]
                         /\ pc[x] \in LeaderPcs => pc'[x] = pc[x]
  BY <1>1, <1>3 DEF Active, LeaderPcs
<1>6. Ids'
  <2>1. \A c \in acked' : c \in acked \/ c = call[w]
    BY <1>1
  <2>2. \A c \in acked' : c.id <= ncalls
    BY <1>0, <1>3, <2>1 DEF Ids
  <2>3. \A c \in acked', x \in Writers : Active(x)' => c.id # call[x].id
    BY <1>0, <1>3, <1>5, <2>1 DEF Ids
  <2>4. \A l \in Writers : pc'[l] \in Flight => pc[l] \in Flight
    BY <1>5 DEF Flight, LeaderPcs
  <2>5. \A x, y \in Writers : Active(x)' /\ Active(y)' /\ call[x].id = call[y].id => x = y
    BY <1>0, <1>5 DEF Ids
  <2>6. \A x \in Writers : Active(x)' => call[x].id <= ncalls
    BY <1>0, <1>5 DEF Ids
  <2>7. \A l \in Writers : pc'[l] \in Flight => \A e \in loc[l].group.entries :
          \E i \in Places : In(l, i)' /\ e.op = call[writers[i]].id
    BY <1>0, <1>4, <2>4 DEF Ids
  <2>8. \A e \in Written : e.op <= ncalls
    BY <1>0 DEF Ids
  <2> QED
    BY <1>1, <1>2, <1>4, <2>2, <2>3, <2>5, <2>6, <2>7, <2>8, SMTT(20) DEF Ids
<1>7. Unwritten'
  BY <1>0, <1>1, <1>2, <1>4, <1>5 DEF Unwritten, Fresh, LeaderPcs
<1>8. Joined'
  BY <1>0, <1>1, <1>2, <1>4, <1>5, SMTT(20) DEF Joined, LeaderPcs
<1>9. Ready'
  <2>1. \A c \in acked' : Durable(c)
    BY <1>0, <1>1 DEF Ready, SyncedAcked, Durable
  <2>2. SyncedAcked'
    BY <1>1, <1>2, <2>1 DEF SyncedAcked, Durable
  <2> QED
    BY <1>0, <1>1, <1>2, <1>4, <1>5, <2>2, SMTT(20) DEF Ready, Durable, LeaderPcs
<1> QED
  BY <1>6, <1>7, <1>8, <1>9 DEF SyncInv

\* The leader passes its status to the writers of its group and to no other.
LEMMA SyncPop ==
  ASSUME TypeInv, QueueInv, SyncInv, NEW w \in Writers, Pop(w)
  PROVE  SyncInv'
<1>0. /\ WriterTypes /\ QueueInv /\ Ids /\ Unwritten /\ Joined /\ Ready
      /\ \A x \in Writers : loc[x] \in LocRecords
  BY DEF TypeInv, SyncInv, WriterTypes
<1>1. PICK k \in Places :
        /\ done' = [x \in Writers |-> done[x] \/ x \in {writers[i] : i \in 1..k} \ {w}]
        /\ loc' = [x \in Writers |-> IF x \in {writers[i] : i \in 1..k} \ {w}
                                     THEN [loc[x] EXCEPT !.status = loc[w].status]
                                     ELSE loc[x]]
        /\ k \in Nat /\ 1 \in Places /\ 1 <= k /\ writers[1] = w
        /\ \A i \in 1..k : i \in Places /\ i <= k
        /\ \A i \in Places : In(w, i) <=> i <= k
        /\ \A i \in Places' : i + k \in Places /\ ~(i + k <= k) /\ writers'[i] = writers[i + k]
  BY <1>0, PopQueue
<1>2. /\ pc[w] = "pop"
      /\ \E p \in {"idle", "immwait"} : pc' = [pc EXCEPT ![w] = p]
      /\ acked' = IF loc[w].status = "ok" THEN acked \cup {call[w]} ELSE acked
      /\ UNCHANGED <<call, ncalls, logs, memtable, mem, tables, synced>>
  BY DEF Pop, Return, dataVars
<1>3. Written' = Written
  BY <1>2, SMT DEF Written
<1>4. /\ pc'[w] \in {"idle", "immwait"} /\ Active(w)
      /\ \A x \in Writers \ {w} : pc'[x] = pc[x] /\ pc[x] \notin LeaderPcs
  BY <1>0, <1>2, OnlyLeader DEF WriterTypes, Active, LeaderPcs
<1>5. \A x \in Writers : /\ Active(x)' => x # w /\ Active(x)
                         /\ pc'[x] \notin LeaderPcs
  BY <1>4 DEF Active, LeaderPcs
<1>6. k \in Nat /\ 1 \in Places /\ 1 <= k /\ writers[1] = w
  BY <1>1
<1>7. \A i \in Places : In(w, i) <=> i <= k
  BY <1>1
<1>8. \A i \in Places' : i + k \in Places /\ ~(i + k <= k) /\ writers'[i] = writers[i + k]
  BY <1>1
<1>9. Ids'
  <2>1. \A c \in acked' : c \in acked \/ c = call[w]
    BY <1>2
  <2>2. \A c \in acked' : c.id <= ncalls
    BY <1>0, <1>4, <2>1 DEF Ids
  <2>3. \A c \in acked', x \in Writers : Active(x)' => c.id # call[x].id
    BY <1>0, <1>4, <1>5, <2>1, SMTT(20) DEF Ids
  <2>4. \A l \in Writers : pc'[l] \notin Flight
    BY <1>5 DEF Flight, LeaderPcs
  <2> QED
    BY <1>0, <1>2, <1>3, <1>5, <2>2, <2>3, <2>4 DEF Ids
<1>10. Unwritten'
  <2> SUFFICES ASSUME NEW i \in Places' PROVE Fresh(writers[i])'
    BY DEF Unwritten
  <2>1. Fresh(writers[i + k])
    BY <1>0, <1>4, <1>7, <1>8 DEF Unwritten, LeaderPcs
  <2> QED
    BY <1>2, <1>3, <1>8, <2>1 DEF Fresh
<1>11. Joined'
  BY <1>5 DEF Joined, LeaderPcs
<1>12. \A i \in Places : i <= k /\ loc[w].status = "ok" => Durable(call[writers[i]])
  BY <1>0, <1>2, <1>7 DEF Ready
<1>13. Ready'
  <2>1. \A c \in acked' : Durable(c)
    <3>1. \A c \in acked : Durable(c)
      BY <1>0 DEF Ready, SyncedAcked, Durable
    <3>2. loc[w].status = "ok" => Durable(call[w])
      BY <1>6, <1>12
    <3> QED
      BY <1>2, <3>1, <3>2
  <2>2. SyncedAcked'
    BY <1>2, <1>3, <2>1 DEF SyncedAcked, Durable
  <2>3. ASSUME NEW x \in Writers, pc'[x] = "queued", done'[x], loc'[x].status = "ok"
        PROVE  Durable(call[x])
    <3>1. x # w /\ pc[x] = "queued"
      BY <1>4, <2>3
    <3>2. CASE \E i \in 1..k : x = writers[i]
      <4>1. PICK i \in 1..k : x = writers[i]
        BY <3>2
      <4>2. loc'[x] = [loc[x] EXCEPT !.status = loc[w].status]
        BY <1>1, <3>1, <4>1
      <4>3. loc[w].status = "ok"
        BY <1>0, <2>3, <4>2 DEF LocRecords
      <4>4. i \in Places /\ i <= k
        BY <1>1
      <4> QED
        BY <1>12, <4>1, <4>3, <4>4
    <3>3. CASE ~\E i \in 1..k : x = writers[i]
      <4>1. done[x] /\ loc'[x] = loc[x]
        BY <1>1, <2>3, <3>3
      <4> QED
        BY <1>0, <2>3, <3>1, <4>1 DEF Ready
    <3> QED
      BY <3>2, <3>3
  <2>4. \A l \in Writers : pc'[l] \notin {"insert", "relock", "pop"}
    BY <1>5 DEF LeaderPcs
  <2> QED
    BY <1>2, <1>3, <2>2, <2>3, <2>4 DEF Ready, Durable
<1> QED
  BY <1>9, <1>10, <1>11, <1>13 DEF SyncInv

\* A flush only moves entries to a table, which is durable.
LEMMA SyncOther ==
  ASSUME TypeInv, SyncInv, OtherStep
  PROVE  SyncInv'
<1>0. /\ DataInv
      /\ UNCHANGED <<writers, pc, call, loc, done, ncalls, acked, mem, memtable, synced>>
  BY OtherFrame DEF TypeInv, writerVars, histVars
<1>1. CASE FlushApplied
  <2>1. /\ tables' = tables \cup memtable[imm] /\ bg.log = mem /\ imm \in DOMAIN memtable
        /\ logs' = IF bgError THEN logs
                   ELSE [n \in {m \in DOMAIN logs : m >= bg.log} |-> logs[n]]
    BY <1>0, <1>1 DEF FlushApplied, DataInv
  <2>2. \A n \in DOMAIN logs' : n \in DOMAIN logs /\ logs'[n] = logs[n]
    BY <2>1
  <2>3. Written' \subseteq Written \cup {}
    BY <1>0, <2>1, <2>2, InWritten, WrittenGrows
  <2>4. mem \in Nat /\ mem \in DOMAIN logs /\ mem >= mem
    BY <1>0, SMT DEF DataInv, DataTypes
  <2>5. logs'[mem'] = logs[mem]
    BY <1>0, <2>1, <2>4
  <2> QED
    BY <1>0, <2>1, <2>3, <2>5, SyncKept DEF Active
<1>2. CASE ~FlushApplied
  <2>1. UNCHANGED dataVars
    BY <1>2 DEF OtherStep, BackgroundStep, BgNothing, FlushStarts, FlushBuilt, FlushFails,
       CompactionStarts, ManualEmpty, CompactionWritten, CompactionFails,
       CompactionInstalled, CompactRange, CompactorStep, ManualClaims, ManualWaits,
       ManualReturns, GetStarts, GetEnds, Close, CloseWakes, Closed, vars
  <2>2. Written' = Written /\ UNCHANGED <<logs, mem, tables>>
    BY <2>1, SMT DEF Written, dataVars
  <2> QED
    BY <1>0, <2>2, SyncKept DEF Active
<1> QED
  BY <1>1, <1>2

\* Every step keeps the promise.
LEMMA SyncNext ==
  ASSUME TypeInv, QueueInv, LogInv, SyncInv, [Next]_vars
  PROVE  SyncInv'
<1>1. CASE UNCHANGED vars
  <2>1. /\ Written' = Written
        /\ UNCHANGED <<writers, pc, call, loc, done, ncalls, acked, logs, mem, tables, synced>>
    BY <1>1, SMT DEF Written, vars, writerVars, dataVars, histVars
  <2> QED
    BY <2>1, SyncKept DEF Active
<1>2. CASE CallStep
  <2>1. PICK w \in Writers : (\E c \in Calls : Write(w, c)) \/ WriterStep(w)
    BY <1>2 DEF CallStep
  <2>2. CASE \E c \in Calls : Write(w, c)
    BY <2>2, SyncWrite
  <2>3. CASE WriterStep(w)
    BY <2>3, SyncQuiet, SyncBuild, SyncGrows, SyncSync, SyncWakeDone, SyncPop DEF WriterStep
  <2> QED
    BY <2>1, <2>2, <2>3
<1> QED
  BY <1>1, <1>2, NextCases, SyncOther
=============================================================================
