------------------------------ MODULE UtilProofs -----------------------------
(***************************************************************************)
(* Proofs about util/: the arena, for every block size and request; the    *)
(* Bloom filter, for every hash function and number of bits per key; and   *)
(* PosixEnv, for any number of processes, threads and slots.               *)
(***************************************************************************)
EXTENDS Arena, Bloom, PosixEnv, FiniteSetTheorems, SequenceTheorems, TLAPS

\* The order in which the provers are tried.
USE SMTT(20), Zenon

-----------------------------------------------------------------------------
(* The arena.                                                              *)

\* What an object handed out is.
Regions == [block : Nat \ {0}, from : Nat, to : Nat, call : {"any", "aligned"}]

\* The inductive invariant: alloc_ptr_ and alloc_bytes_remaining_ span the rest of the current block,
\* which no object reaches.
ArenaInv ==
  /\ blocks \in Seq(Nat) /\ remaining \in Nat /\ regions \subseteq Regions
  /\ offset \in Nat
  /\ current \in 0..Len(blocks)
  /\ IF current = 0 THEN remaining = 0 ELSE offset + remaining = blocks[current]
  /\ \A r \in regions : /\ r.from < r.to /\ r.block \in 1..Len(blocks) /\ r.to <= blocks[r.block]
                        /\ r.block = current => r.to <= offset
                        /\ r.call = "aligned" => r.from % align = 0
  /\ \A r, s \in regions : r # s => Apart(r, s)

\* The next aligned offset is aligned.
LEMMA SlopAligns ==
  ASSUME offset \in Nat
  PROVE  Slop \in Nat /\ (offset + Slop) % align = 0
  BY DEF Slop, align

\* Carving from the current block keeps the invariant.
LEMMA CarveKeeps ==
  ASSUME ArenaInv, NEW slop \in Nat, NEW bytes \in Nat \ {0}, NEW call \in {"any", "aligned"},
         call = "aligned" => (offset + slop) % align = 0,
         slop + bytes <= remaining,
         HandOut(current, offset + slop, bytes, call), Carve(slop, bytes),
         UNCHANGED blocks
  PROVE  ArenaInv'
<1> DEFINE new == [block |-> current, from |-> offset + slop, to |-> offset + slop + bytes,
                   call |-> call]
<1>1. /\ regions' = regions \cup {new}
      /\ current' = current /\ offset' = offset + slop + bytes
      /\ remaining' = remaining - (slop + bytes) /\ blocks' = blocks
  BY DEF HandOut, Carve, ArenaInv
<1>2. /\ current \in 1..Len(blocks) /\ offset + remaining = blocks[current]
      /\ offset \in Nat /\ remaining \in Nat /\ blocks \in Seq(Nat)
  BY DEF ArenaInv
<1>3. new \in Regions
  BY <1>2 DEF Regions
<1>4. \A r \in regions' : /\ r.from < r.to /\ r.block \in 1..Len(blocks') /\ r.to <= blocks'[r.block]
                          /\ r.block = current' => r.to <= offset'
                          /\ r.call = "aligned" => r.from % align = 0
  BY <1>1, <1>2 DEF ArenaInv, Regions
<1>5. \A r \in regions : Apart(r, new) /\ Apart(new, r)
  BY <1>2 DEF ArenaInv, Regions, Apart
<1>6. \A r, s \in regions' : r # s => Apart(r, s)
  BY <1>1, <1>5 DEF ArenaInv
<1>7. regions' \subseteq Regions
  BY <1>1, <1>3 DEF ArenaInv
<1>8. /\ offset' \in Nat /\ remaining' \in Nat
      /\ current' # 0 /\ current' \in 0..Len(blocks') /\ offset' + remaining' = blocks'[current']
  BY <1>1, <1>2
<1>9. QED
  BY <1>1, <1>2, <1>4, <1>6, <1>7, <1>8 DEF ArenaInv

\* A block more, with an object at its start, keeps the invariant.
LEMMA FallbackKeeps ==
  ASSUME ArenaInv, ArenaBlock \in Nat, NEW bytes \in Nat \ {0}, NEW call \in {"any", "aligned"},
         AllocateFallback(bytes, call)
  PROVE  ArenaInv'
<1> DEFINE n == Len(blocks) + 1
           new == [block |-> n, from |-> 0, to |-> bytes, call |-> call]
<1>1. blocks \in Seq(Nat) /\ Len(blocks) \in Nat /\ remaining \in Nat /\ offset \in Nat
  BY DEF ArenaInv
<1>2. regions' = regions \cup {new}
  BY <1>1 DEF AllocateFallback, HandOut
<1>3. PICK size \in Nat : /\ blocks' = Append(blocks, size) /\ bytes <= size
                         /\ \/ UNCHANGED <<current, offset, remaining>>
                            \/ current' = n /\ offset' = bytes /\ remaining' = size - bytes
  <2>1. CASE bytes > ArenaBlock \div 4
    BY <2>1 DEF AllocateFallback, AllocateNewBlock
  <2>2. CASE ~(bytes > ArenaBlock \div 4)
    BY <2>2 DEF AllocateFallback, AllocateNewBlock
  <2>3. QED
    BY <2>1, <2>2
<1>4. /\ blocks' \in Seq(Nat) /\ Len(blocks') = n /\ blocks'[n] = size
      /\ \A i \in 1..Len(blocks) : blocks'[i] = blocks[i]
  BY <1>1, <1>3
<1>5. new \in Regions
  BY <1>1 DEF Regions
<1>6. \A r \in regions : Apart(r, new) /\ Apart(new, r)
  BY <1>1 DEF ArenaInv, Regions, Apart
<1>7. \A r, s \in regions' : r # s => Apart(r, s)
  BY <1>2, <1>6 DEF ArenaInv
<1>8. /\ remaining' \in Nat /\ offset' \in Nat /\ current' \in 0..Len(blocks')
      /\ IF current' = 0 THEN remaining' = 0 ELSE offset' + remaining' = blocks'[current']
  <2>1. CASE UNCHANGED <<current, offset, remaining>>
    BY <2>1, <1>1, <1>4 DEF ArenaInv
  <2>2. CASE current' = n /\ offset' = bytes /\ remaining' = size - bytes
    BY <2>2, <1>1, <1>3, <1>4
  <2>3. QED
    BY <2>1, <2>2, <1>3
<1>9. \A r \in regions' : /\ r.from < r.to /\ r.block \in 1..Len(blocks') /\ r.to <= blocks'[r.block]
                          /\ r.block = current' => r.to <= offset'
                          /\ r.call = "aligned" => r.from % align = 0
  <2>1. CASE UNCHANGED <<current, offset, remaining>>
    BY <2>1, <1>1, <1>2, <1>3, <1>4 DEF ArenaInv, Regions, align
  <2>2. CASE current' = n /\ offset' = bytes
    BY <2>2, <1>1, <1>2, <1>3, <1>4 DEF ArenaInv, Regions, align
  <2>3. QED
    BY <2>1, <2>2, <1>3
<1>10. regions' \subseteq Regions
  BY <1>2, <1>5 DEF ArenaInv
<1>11. QED
  BY <1>4, <1>7, <1>8, <1>9, <1>10 DEF ArenaInv

\* Objects of an arena never overlap, lie in one block and are aligned where they asked for it, for any
\* block size and any sequence of requests.
THEOREM ArenaSafe ==
  ASSUME ArenaBlock \in Nat, AllocSizes \subseteq Nat \ {0}
  PROVE  ArenaSpec => []ObjectsApart
<1>1. ArenaInit => ArenaInv
  BY DEF ArenaInit, ArenaInv
<1>2. ArenaInv /\ [ArenaNext]_arenaVars => ArenaInv'
  <2> SUFFICES ASSUME ArenaInv, [ArenaNext]_arenaVars PROVE ArenaInv'
    OBVIOUS
  <2>1. CASE UNCHANGED arenaVars
    BY <2>1 DEF ArenaInv, arenaVars
  <2>2. ASSUME NEW bytes \in AllocSizes, NEW slop \in Nat, NEW call \in {"any", "aligned"},
               call = "aligned" => (offset + slop) % align = 0,
               AllocateFrom(slop, bytes, call)
        PROVE  ArenaInv'
    <3>1. CASE slop + bytes <= remaining
      BY <2>2, <3>1, CarveKeeps DEF AllocateFrom
    <3>2. CASE ~(slop + bytes <= remaining)
      BY <2>2, <3>2, FallbackKeeps DEF AllocateFrom
    <3>3. QED
      BY <3>1, <3>2
  <2>3. ASSUME NEW bytes \in AllocSizes, Allocate(bytes)
        PROVE  ArenaInv'
    BY <2>2, <2>3 DEF Allocate
  <2>4. ASSUME NEW bytes \in AllocSizes, AllocateAligned(bytes)
        PROVE  ArenaInv'
    BY <2>2, <2>4, SlopAligns DEF AllocateAligned, ArenaInv
  <2>5. QED
    BY <2>1, <2>3, <2>4 DEF ArenaNext
<1>3. ArenaInv => ObjectsApart
  BY DEF ArenaInv, ObjectsApart
<1>4. QED
  BY <1>1, <1>2, <1>3, PTL DEF ArenaSpec

-----------------------------------------------------------------------------
(* The Bloom filter.                                                       *)

\* A filter never denies a key it was made for: whatever the hash, the number of keys and the bits
\* per key, CreateFilter and KeyMayMatch probe the same bits.
THEOREM NoFalseNegatives ==
  ASSUME NEW keys \in SUBSET BloomKeys, NEW key \in keys, NEW n \in Nat, NEW bits_per_key \in Nat
  PROVE  KeyMayMatch(key, CreateFilter(keys, n, bits_per_key))
<1> DEFINE f == CreateFilter(keys, n, bits_per_key)
           bits == NumBits(n, bits_per_key)
           k == NumProbes(bits_per_key)
<1>1. f = [bits |-> bits, k |-> k, ones |-> {BitPos(x, j, bits) : x \in keys, j \in 0..(k - 1)}]
  BY DEF CreateFilter
<1>2. \A j \in 0..(f.k - 1) : BitPos(key, j, f.bits) \in f.ones
  BY <1>1
<1>3. bits > 0
  BY DEF NumBits
<1>4. f.bits > 0
  BY <1>1, <1>3
<1>5. QED
  BY <1>2, <1>4 DEF KeyMayMatch

-----------------------------------------------------------------------------
(* The LOCK file *)

\* The places of a thread that PosixLockTable has let in.
InTable == {"inserted", "held", "failed", "removing", "unlocked"}

LockPlaces == InTable \cup {"idle", "opened", "refused", "closing"}

\* The inductive invariant: a process is in its table exactly while one of its threads is between
\* Insert and Remove; one process at most has the fcntl lock; and until a close has taken the lock
\* away, a thread has the file only while its process has the lock.
LockInv ==
  /\ lockAt \in [Procs -> [LockThreads -> LockPlaces]]
  /\ \A p \in Procs, t \in LockThreads : lockAt[p][t] \in InTable => p \in locked
  /\ \A p \in Procs : p \in locked => \E t \in LockThreads : lockAt[p][t] \in InTable
  /\ \A p \in Procs, t, u \in LockThreads : lockAt[p][t] \in InTable /\ lockAt[p][u] \in InTable => t = u
  /\ owner \subseteq Procs /\ dropped \in BOOLEAN /\ \A p, q \in owner : p = q
  /\ dropped \/ \A p \in Procs, t \in LockThreads : lockAt[p][t] = "held" => p \in owner

\* A close that leaves the table alone: it takes the lock away from the process, and dropped tells if
\* a thread had the file.
LEMMA CloseKeeps ==
  ASSUME LockInv, NEW p \in Procs, NEW t \in LockThreads, NEW to \in LockPlaces \ {"held"},
         lockAt' = [lockAt EXCEPT ![p][t] = to], lockAt[p][t] \in InTable <=> to \in InTable,
         locked' = locked, Close(p)
  PROVE  LockInv'
<1>1. owner' \subseteq Procs /\ \A q, r \in owner' : q = r
  BY DEF LockInv, Close
<1>2. dropped' \in BOOLEAN
  BY Zenon DEF LockInv, Close
<1>3. ASSUME ~dropped', NEW q \in Procs, NEW u \in LockThreads, lockAt'[q][u] = "held"
      PROVE  q \in owner'
  <2>1. ~dropped
    BY <1>3, Zenon DEF Close
  <2>2. lockAt[q][u] = "held"
    BY <1>3 DEF LockInv
  <2>3. q \in owner
    BY <2>1, <2>2 DEF LockInv
  <2>4. q # p
    BY <1>3, <2>3, Zenon DEF Close
  <2> QED
    BY <2>3, <2>4 DEF Close
<1>4. lockAt' \in [Procs -> [LockThreads -> LockPlaces]]
  BY DEF LockInv
<1>5. \A q \in Procs, u \in LockThreads : lockAt'[q][u] \in InTable <=> lockAt[q][u] \in InTable
  BY DEF LockInv
<1> QED
  BY <1>1, <1>2, <1>3, <1>4, <1>5 DEF LockInv

\* Every step of LockFile, UnlockFile and of a process that ends keeps the invariant.
LEMMA LockStep ==
  ASSUME LockInv, LockNext
  PROVE  LockInv'
<1> USE DEF LockInv, LockPlaces, InTable, GoLock
<1>1. ASSUME NEW p \in Procs, NEW t \in LockThreads, OpenLock(p, t)
      PROVE  LockInv'
  BY <1>1 DEF OpenLock
<1>2. ASSUME NEW p \in Procs, NEW t \in LockThreads, InsertLock(p, t)
      PROVE  LockInv'
  BY <1>2 DEF InsertLock
<1>3. ASSUME NEW p \in Procs, NEW t \in LockThreads, CloseRefused(p, t)
      PROVE  LockInv'
  <2>1. GoLock(p, t, "refused", "idle") /\ Close(p) /\ locked' = locked
    BY <1>3 DEF CloseRefused
  <2> QED
    BY <2>1, CloseKeeps
<1>4. ASSUME NEW p \in Procs, NEW t \in LockThreads, NEW ok \in BOOLEAN, SetLock(p, t, ok)
      PROVE  LockInv'
  <2>1. CASE owner \subseteq {p} /\ GoLock(p, t, "inserted", "held") /\ owner' = {p}
    BY <1>4, <2>1 DEF SetLock
  <2>2. CASE GoLock(p, t, "inserted", "failed") /\ owner' = owner
    BY <1>4, <2>2 DEF SetLock
  <2> QED
    BY <1>4, <2>1, <2>2 DEF SetLock
<1>5. ASSUME NEW p \in Procs, NEW t \in LockThreads, CloseFailed(p, t)
      PROVE  LockInv'
  <2>1. GoLock(p, t, "failed", "removing") /\ Close(p) /\ locked' = locked
    BY <1>5 DEF CloseFailed
  <2> QED
    BY <2>1, CloseKeeps
<1>6. ASSUME NEW p \in Procs, NEW t \in LockThreads, RemoveFailed(p, t)
      PROVE  LockInv'
  BY <1>6 DEF RemoveFailed
<1>7. ASSUME NEW p \in Procs, NEW t \in LockThreads, NEW ok \in BOOLEAN, Unlock(p, t, ok)
      PROVE  LockInv'
  <2>1. CASE owner' = owner \ {p}
    BY <1>7, <2>1 DEF Unlock
  <2>2. CASE owner' = owner
    BY <1>7, <2>2 DEF Unlock
  <2> QED
    BY <1>7, <2>1, <2>2 DEF Unlock
<1>8. ASSUME NEW p \in Procs, NEW t \in LockThreads, RemoveLock(p, t)
      PROVE  LockInv'
  BY <1>8 DEF RemoveLock
<1>9. ASSUME NEW p \in Procs, NEW t \in LockThreads, CloseUnlocked(p, t)
      PROVE  LockInv'
  <2>1. GoLock(p, t, "closing", "idle") /\ Close(p) /\ locked' = locked
    BY <1>9 DEF CloseUnlocked
  <2> QED
    BY <2>1, CloseKeeps
<1>10. ASSUME NEW p \in Procs, Exit(p)
       PROVE  LockInv'
  BY <1>10 DEF Exit
<1> HIDE DEF LockInv, GoLock
<1> QED
  BY <1>1, <1>2, <1>3, <1>4, <1>5, <1>6, <1>7, <1>8, <1>9, <1>10 DEF LockNext

\* The invariant gives the property: a set with one element has cardinality 1.
LEMMA LockInvSuffices ==
  ASSUME LockInv
  PROVE  LockHeldOnce
<1> DEFINE Inside(p) == {t \in LockThreads : lockAt[p][t] \in InTable}
<1>1. ASSUME NEW p \in Procs
      PROVE  Cardinality(Inside(p)) = IF p \in locked THEN 1 ELSE 0
  <2>1. CASE p \in locked
    <3>1. PICK t \in LockThreads : lockAt[p][t] \in InTable
      BY <2>1 DEF LockInv
    <3>2. Inside(p) = {t}
      BY <3>1 DEF LockInv
    <3> QED
      BY <2>1, <3>2, FS_Singleton
  <2>2. CASE p \notin locked
    <3>1. Inside(p) = {}
      BY <2>2 DEF LockInv
    <3> QED
      BY <2>2, <3>1, FS_EmptySet
  <2> QED
    BY <2>1, <2>2
<1>2. dropped \/ \A p, q \in Procs : Holders(p) # {} /\ Holders(q) # {} => p = q
  BY DEF LockInv, Holders
<1> QED
  BY <1>1, <1>2 DEF LockHeldOnce, InTable

\* For any processes and threads, one thread of a process at most has the LOCK file, and two
\* processes have it only after a close took a lock away (PosixEnv::LockFile, UnlockFile).
THEOREM LockHeldOnceHolds == Spec => []LockHeldOnce
<1>1. Init => LockInv
  <2>1. Init => dropped \in BOOLEAN
    BY Zenon DEF Init
  <2> QED
    BY <2>1 DEF Init, LockInv, LockPlaces, InTable
<1>2. LockInv /\ [Next]_envVars => LockInv'
  <2> SUFFICES ASSUME LockInv, [Next]_envVars PROVE LockInv'
    OBVIOUS
  <2>1. CASE LockNext
    BY <2>1, LockStep
  <2>2. CASE UNCHANGED lockVars
    BY <2>2 DEF lockVars, LockInv
  <2>3. LockNext \/ UNCHANGED lockVars
    BY DEF Next, envVars, MapNext, LookForSlot, AcquireSlot, OpenPread, MapFile, Unmap, ReleaseSlot,
           ClosePread, QueueNext, Schedule, TakeOrWait, FunctionReturns, SpuriousWakeup
  <2> QED
    BY <2>1, <2>2, <2>3
<1> QED
  BY <1>1, <1>2, LockInvSuffices, PTL DEF Spec

-----------------------------------------------------------------------------
(* The queue of the background thread *)

\* The inductive invariant: the calls of Schedule are in started and then in queue, in their order.
QueueInv ==
  /\ queue \in Seq(Nat) /\ started \in Seq(Nat)
  /\ \A i \in 1..Len(started) : started[i] = i
  /\ \A i \in 1..Len(queue) : queue[i] = Len(started) + i
  /\ bgthread \in {"none", "lock", "wait", "run"}
  /\ queue # <<>> => bgthread \in {"lock", "run"}

\* The invariant gives the property.
LEMMA QueueInvSuffices ==
  ASSUME QueueInv
  PROVE  WorkGoesOn
<1>1. started \o queue \in Seq(Nat) /\ Len(started \o queue) = Scheduled
  BY DEF QueueInv, Scheduled
<1>2. ASSUME NEW i \in 1..Scheduled
      PROVE  (started \o queue)[i] = i
  <2>1. CASE i <= Len(started)
    BY <2>1 DEF QueueInv, Scheduled
  <2>2. CASE i > Len(started)
    <3>1. i - Len(started) \in 1..Len(queue)
      BY <2>2 DEF QueueInv, Scheduled
    <3>2. (started \o queue)[i] = queue[i - Len(started)]
      BY <2>2 DEF QueueInv, Scheduled
    <3> QED
      BY <3>1, <3>2 DEF QueueInv
  <2> QED
    BY <2>1, <2>2 DEF QueueInv, Scheduled
<1>3. started \o queue = [i \in 1..Scheduled |-> i]
  <2>1. started \o queue \in [1..Scheduled -> Nat]
    BY <1>1, LenProperties
  <2> QED
    BY <1>2, <2>1
<1> QED
  BY <1>3 DEF WorkGoesOn, QueueInv

\* However many calls there are, the background thread starts their functions in order, each once,
\* and does not sleep while one is in the queue (PosixEnv::Schedule, BGThread).
THEOREM WorkGoesOnHolds == Spec => []WorkGoesOn
<1>1. Init => QueueInv
  BY DEF Init, QueueInv
<1>2. QueueInv /\ [Next]_envVars => QueueInv'
  <2> SUFFICES ASSUME QueueInv, [Next]_envVars PROVE QueueInv'
    OBVIOUS
  <2>1. CASE Schedule
    <3>1. /\ queue' = Append(queue, Len(queue) + Len(started) + 1) /\ started' = started
          /\ bgthread' \in {"lock", "run"}
      BY <2>1 DEF Schedule, Signalled, Scheduled, QueueInv
    <3>2. ASSUME NEW i \in 1..Len(queue')
          PROVE  queue'[i] = Len(started) + i
      <4>1. Len(queue') = Len(queue) + 1 /\ queue'[Len(queue) + 1] = Len(queue) + Len(started) + 1
        BY <3>1 DEF QueueInv
      <4>2. CASE i \in 1..Len(queue)
        BY <3>1, <4>2 DEF QueueInv
      <4>3. Len(queue) \in Nat /\ Len(started) \in Nat
        BY DEF QueueInv
      <4>4. CASE i = Len(queue) + 1
        BY <4>1, <4>3, <4>4
      <4> QED
        BY <4>1, <4>2, <4>3, <4>4
    <3> QED
      BY <3>1, <3>2 DEF QueueInv
  <2>2. CASE TakeOrWait
    <3>1. CASE queue = <<>>
      BY <2>2, <3>1 DEF TakeOrWait, QueueInv
    <3>2. CASE queue # <<>>
      <4>1. queue' = Tail(queue) /\ started' = Append(started, Head(queue)) /\ bgthread' = "run"
        BY <2>2, <3>2 DEF TakeOrWait
      <4>2. Head(queue) = Len(started) + 1
        BY <3>2 DEF QueueInv
      <4>3. /\ queue' \in Seq(Nat) /\ started' \in Seq(Nat)
            /\ Len(queue') = Len(queue) - 1 /\ Len(started') = Len(started) + 1
        BY <3>2, <4>1, <4>2 DEF QueueInv
      <4>4. ASSUME NEW i \in 1..Len(started')
            PROVE  started'[i] = i
        BY <4>1, <4>2, <4>3, AppendProperties DEF QueueInv
      <4>5. ASSUME NEW i \in 1..Len(queue')
            PROVE  queue'[i] = Len(started') + i
        <5>1. queue'[i] = queue[i + 1]
          BY <3>2, <4>1, <4>3 DEF QueueInv
        <5> QED
          BY <4>3, <5>1 DEF QueueInv
      <4> QED
        BY <4>1, <4>3, <4>4, <4>5 DEF QueueInv
    <3> QED
      BY <3>1, <3>2
  <2>3. CASE FunctionReturns \/ SpuriousWakeup
    BY <2>3 DEF FunctionReturns, SpuriousWakeup, QueueInv
  <2>4. CASE UNCHANGED queueVars
    BY <2>4 DEF queueVars, QueueInv
  <2> QED
    BY <2>1, <2>2, <2>3, <2>4 DEF Next, QueueNext, envVars
<1> QED
  BY <1>1, <1>2, QueueInvSuffices, PTL DEF Spec

-----------------------------------------------------------------------------
(* The slots for mapped files *)

\* The threads that have a slot and no file for it, or none any more.
SlotTaken == {t \in MapThreads : mapAt[t] \in {"slot", "release"}}

\* The inductive invariant.
SlotInv ==
  /\ mapAt \in [MapThreads -> {"idle", "looked", "noslot", "slot", "release"}]
  /\ allowed \in Nat /\ mapped \in Nat
  /\ allowed + mapped + Cardinality(SlotTaken) = MaxMmaps

\* One thread more or less has a slot.
LEMMA SlotCount ==
  ASSUME IsFiniteSet(MapThreads)
  PROVE  /\ IsFiniteSet(SlotTaken) /\ Cardinality(SlotTaken) \in Nat
         /\ \A t \in SlotTaken : Cardinality(SlotTaken \ {t}) = Cardinality(SlotTaken) - 1
         /\ \A t : t \notin SlotTaken => Cardinality(SlotTaken \cup {t}) = Cardinality(SlotTaken) + 1
<1>1. IsFiniteSet(SlotTaken)
  BY FS_Subset DEF SlotTaken
<1> QED
  BY <1>1, FS_CardinalityType, FS_AddElement, FS_RemoveElement

\* Every step of NewRandomAccessFile and of the destructors keeps the sum.
LEMMA SlotStep ==
  ASSUME IsFiniteSet(MapThreads), MaxMmaps \in Nat, SlotInv, MapNext
  PROVE  SlotInv'
<1> USE SlotCount DEF GoMap
<1>1. PICK t \in MapThreads :
        \/ LookForSlot(t) \/ AcquireSlot(t) \/ OpenPread(t) \/ (\E ok \in BOOLEAN : MapFile(t, ok))
        \/ Unmap(t) \/ ReleaseSlot(t) \/ ClosePread(t)
  BY DEF MapNext
<1>2. CASE SlotTaken' = SlotTaken /\ allowed' = allowed /\ mapped' = mapped
  BY <1>1, <1>2 DEF SlotInv, LookForSlot, AcquireSlot, OpenPread, MapFile, Unmap, ReleaseSlot, ClosePread
<1>3. CASE LookForSlot(t) \/ OpenPread(t) \/ ClosePread(t)
  BY <1>2, <1>3 DEF SlotInv, SlotTaken, LookForSlot, OpenPread, ClosePread
<1>4. CASE AcquireSlot(t)
  <2>1. CASE allowed <= 0
    BY <1>2, <1>4, <2>1 DEF SlotInv, SlotTaken, AcquireSlot
  <2>2. CASE ~(allowed <= 0)
    <3>1. t \notin SlotTaken /\ SlotTaken' = SlotTaken \cup {t}
      BY <1>4, <2>2 DEF SlotInv, SlotTaken, AcquireSlot
    <3> QED
      BY <1>4, <2>2, <3>1 DEF SlotInv, AcquireSlot
  <2> QED
    BY <2>1, <2>2
<1>5. ASSUME NEW ok \in BOOLEAN, MapFile(t, ok)
      PROVE  SlotInv'
  <2>1. CASE ok
    <3>1. t \in SlotTaken /\ SlotTaken' = SlotTaken \ {t}
      BY <1>5, <2>1 DEF SlotInv, SlotTaken, MapFile
    <3> QED
      BY <1>5, <2>1, <3>1 DEF SlotInv, MapFile
  <2>2. CASE ~ok
    BY <1>2, <1>5, <2>2 DEF SlotInv, SlotTaken, MapFile
  <2> QED
    BY <2>1, <2>2
<1>6. CASE Unmap(t)
  <2>1. t \notin SlotTaken /\ SlotTaken' = SlotTaken \cup {t}
    BY <1>6 DEF SlotInv, SlotTaken, Unmap
  <2> QED
    BY <1>6, <2>1 DEF SlotInv, Unmap
<1>7. CASE ReleaseSlot(t)
  <2>1. t \in SlotTaken /\ SlotTaken' = SlotTaken \ {t}
    BY <1>7 DEF SlotInv, SlotTaken, ReleaseSlot
  <2> QED
    BY <1>7, <2>1 DEF SlotInv, ReleaseSlot
<1> QED
  BY <1>1, <1>3, <1>4, <1>5, <1>6, <1>7

\* For any number of threads and slots, no more files are mapped than there are slots and no slot is
\* lost (MmapLimiter, PosixEnv::NewRandomAccessFile).
THEOREM SlotsAccountedHolds ==
  ASSUME IsFiniteSet(MapThreads), MaxMmaps \in Nat
  PROVE  Spec => []SlotsAccounted
<1>1. Init => SlotInv
  <2> SUFFICES ASSUME Init PROVE SlotInv
    OBVIOUS
  <2>1. SlotTaken = {}
    BY DEF Init, SlotTaken
  <2> QED
    BY <2>1, FS_EmptySet DEF Init, SlotInv
<1>2. SlotInv /\ [Next]_envVars => SlotInv'
  <2> SUFFICES ASSUME SlotInv, [Next]_envVars PROVE SlotInv'
    OBVIOUS
  <2>1. CASE MapNext
    BY <2>1, SlotStep
  <2>2. CASE UNCHANGED mapVars
    BY <2>2 DEF mapVars, SlotInv, SlotTaken
  <2>3. MapNext \/ UNCHANGED mapVars
    BY DEF Next, envVars, LockNext, OpenLock, InsertLock, CloseRefused, SetLock, CloseFailed,
           RemoveFailed, Unlock, RemoveLock, CloseUnlocked, Exit, QueueNext, Schedule, TakeOrWait,
           FunctionReturns, SpuriousWakeup
  <2> QED
    BY <2>1, <2>2, <2>3
<1>3. SlotInv => SlotsAccounted
  BY SlotCount DEF SlotInv, SlotsAccounted, SlotTaken
<1> QED
  BY <1>1, <1>2, <1>3, PTL DEF Spec
=============================================================================
