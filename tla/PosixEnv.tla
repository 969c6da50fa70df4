------------------------------- MODULE PosixEnv --------------------------------
(***************************************************************************)
(* The shared state of PosixEnv (env_posix.cc): the lock on a database's   *)
(* LOCK file, taken by threads of several processes, the slots for mapped  *)
(* files that the threads of one process share, and the queue of the       *)
(* background thread.                                                      *)
(*                                                                         *)
(* A LOCK file is guarded twice: by PosixLockTable within a process and by *)
(* an fcntl lock between processes.  The fcntl lock belongs to the process *)
(* and goes when any descriptor of the file is closed in that process.     *)
(***************************************************************************)
EXTENDS Integers, Sequences, FiniteSets

CONSTANTS Procs, LockThreads,     \* processes, and the threads in each that open the database
          MapThreads, MaxMmaps,   \* threads opening tables; the slots, 1000 in the code
          MaxReadable,            \* bound on the tables open at a time
          MaxScheduled            \* bound on the calls of Schedule

VARIABLES lockAt,      \* where each thread is in LockFile or UnlockFile
          locked,      \* the processes whose locked_files_ has the file
          owner,       \* the processes that have the fcntl lock: one or none
          dropped,     \* whether a close took the fcntl lock away from a thread that has the file
          mapAt,       \* where each thread is in NewRandomAccessFile or a file's destructor
          allowed,     \* MmapLimiter::allowed_
          mapped,      \* the files that are mapped
          preads,      \* the files that are read with pread
          queue,       \* queue_: the calls of Schedule, by number
          bgthread,    \* "none", "lock" (before its mutex), "wait" (on bgsignal_) or "run"
          started      \* the calls whose function was started, in that order

lockVars == <<lockAt, locked, owner, dropped>>
mapVars == <<mapAt, allowed, mapped, preads>>
queueVars == <<queue, bgthread, started>>
envVars == <<lockVars, mapVars, queueVars>>

Init ==
  /\ lockAt = [p \in Procs |-> [t \in LockThreads |-> "idle"]]
  /\ locked = {} /\ owner = {} /\ dropped = FALSE
  /\ mapAt = [t \in MapThreads |-> "idle"]
  /\ allowed = MaxMmaps /\ mapped = 0 /\ preads = 0
  /\ queue = <<>> /\ bgthread = "none" /\ started = <<>>

-----------------------------------------------------------------------------
(* LockFile and UnlockFile *)

GoLock(p, t, from, to) == lockAt[p][t] = from /\ lockAt' = [lockAt EXCEPT ![p][t] = to]

\* The threads of a process whose LockFile succeeded and that have not called UnlockFile.
Holders(p) == {t \in LockThreads : lockAt[p][t] = "held"}

\* close(fd): the fcntl locks of the process on the file go with the descriptor.
Close(p) ==
  /\ owner' = owner \ {p}
  /\ dropped' = (dropped \/ (p \in owner /\ (\E t \in LockThreads : lockAt'[p][t] = "held")))

\* LockFile opens the file; when that fails it returns, and nothing has changed.
OpenLock(p, t) == GoLock(p, t, "idle", "opened") /\ UNCHANGED <<locked, owner, dropped, mapVars>>

\* Faulty variant of InsertLock: the answer of the table is not looked at.
InsertLockAnyway(p, t) ==
  /\ GoLock(p, t, "opened", "inserted")
  /\ locked' = locked \cup {p}
  /\ UNCHANGED <<owner, dropped, mapVars>>

\* PosixLockTable::Insert.
InsertLock(p, t) ==
  /\ GoLock(p, t, "opened", IF p \in locked THEN "refused" ELSE "inserted")
  /\ locked' = locked \cup {p}
  /\ UNCHANGED <<owner, dropped, mapVars>>

\* The file is held by this process: LockFile closes its descriptor and fails.
CloseRefused(p, t) == GoLock(p, t, "refused", "idle") /\ Close(p) /\ UNCHANGED <<locked, mapVars>>

\* LockOrUnlock(fd, true): refused when another process has the lock; it may fail without one, too.
SetLock(p, t, ok) ==
  /\ IF ok /\ owner \subseteq {p} THEN GoLock(p, t, "inserted", "held") /\ owner' = {p}
     ELSE GoLock(p, t, "inserted", "failed") /\ owner' = owner
  /\ UNCHANGED <<locked, dropped, mapVars>>

CloseFailed(p, t) == GoLock(p, t, "failed", "removing") /\ Close(p) /\ UNCHANGED <<locked, mapVars>>

RemoveFailed(p, t) ==
  GoLock(p, t, "removing", "idle") /\ locked' = locked \ {p} /\ UNCHANGED <<owner, dropped, mapVars>>

\* UnlockFile gives up the fcntl lock, or fails to and goes on, then the entry of the table, then the
\* descriptor.
Unlock(p, t, ok) ==
  /\ GoLock(p, t, "held", "unlocked")
  /\ owner' = IF ok THEN owner \ {p} ELSE owner
  /\ UNCHANGED <<locked, dropped, mapVars>>

RemoveLock(p, t) ==
  GoLock(p, t, "unlocked", "closing") /\ locked' = locked \ {p} /\ UNCHANGED <<owner, dropped, mapVars>>

CloseUnlocked(p, t) == GoLock(p, t, "closing", "idle") /\ Close(p) /\ UNCHANGED <<locked, mapVars>>

\* A process that ends, in whatever state, loses its locks.
Exit(p) ==
  /\ lockAt' = [lockAt EXCEPT ![p] = [t \in LockThreads |-> "idle"]]
  /\ locked' = locked \ {p} /\ owner' = owner \ {p}
  /\ UNCHANGED <<dropped, mapVars>>

-----------------------------------------------------------------------------
(* NewRandomAccessFile and MmapLimiter *)

GoMap(t, from, to) == mapAt[t] = from /\ mapAt' = [mapAt EXCEPT ![t] = to]

\* MmapLimiter::Acquire looks at allowed_ without the mutex first.
LookForSlot(t) ==
  /\ mapped + preads < MaxReadable
  /\ GoMap(t, "idle", IF allowed <= 0 THEN "noslot" ELSE "looked")
  /\ UNCHANGED <<lockVars, allowed, mapped, preads>>

\* Faulty variant of AcquireSlot: the look without the mutex is trusted.
AcquireSlotUnchecked(t) ==
  /\ GoMap(t, "looked", "slot") /\ allowed' = allowed - 1
  /\ UNCHANGED <<lockVars, mapped, preads>>

AcquireSlot(t) ==
  /\ IF allowed <= 0 THEN GoMap(t, "looked", "noslot") /\ allowed' = allowed
     ELSE GoMap(t, "looked", "slot") /\ allowed' = allowed - 1
  /\ UNCHANGED <<lockVars, mapped, preads>>

OpenPread(t) ==
  GoMap(t, "noslot", "idle") /\ preads' = preads + 1 /\ UNCHANGED <<lockVars, allowed, mapped>>

\* GetFileSize and mmap, either of which may fail.
MapFile(t, ok) ==
  /\ GoMap(t, "slot", IF ok THEN "idle" ELSE "release")
  /\ mapped' = IF ok THEN mapped + 1 ELSE mapped
  /\ UNCHANGED <<lockVars, allowed, preads>>

\* The destructors: munmap and then Release, or close.
Unmap(t) ==
  /\ mapped > 0 /\ GoMap(t, "idle", "release") /\ mapped' = mapped - 1
  /\ UNCHANGED <<lockVars, allowed, preads>>

ReleaseSlot(t) ==
  GoMap(t, "release", "idle") /\ allowed' = allowed + 1 /\ UNCHANGED <<lockVars, mapped, preads>>

ClosePread(t) ==
  /\ mapAt[t] = "idle" /\ preads > 0 /\ preads' = preads - 1
  /\ UNCHANGED <<lockVars, mapAt, allowed, mapped>>

-----------------------------------------------------------------------------
(* Schedule and BGThread *)

Scheduled == Len(queue) + Len(started)

\* Faulty variant of Signalled: the queue is looked at after the push.
SignalledAfterPush(bg) == bg

\* The signal, when the queue is empty before the push, ends a wait.
Signalled(bg) == IF queue = <<>> /\ bg = "wait" THEN "lock" ELSE bg

\* Schedule holds mu_: any thread, the background one in its function too, and the first call
\* creates the thread.
Schedule ==
  /\ Scheduled < MaxScheduled
  /\ queue' = Append(queue, Scheduled + 1)
  /\ bgthread' = Signalled(IF bgthread = "none" THEN "lock" ELSE bgthread)
  /\ UNCHANGED <<lockVars, mapVars, started>>

\* BGThread takes the mutex: it waits while the queue is empty, or takes the front and runs it.
TakeOrWait ==
  /\ bgthread = "lock"
  /\ IF queue = <<>> THEN bgthread' = "wait" /\ UNCHANGED <<queue, started>>
     ELSE /\ bgthread' = "run" /\ queue' = Tail(queue)
          /\ started' = Append(started, Head(queue))
  /\ UNCHANGED <<lockVars, mapVars>>

\* The function returns.
FunctionReturns ==
  bgthread = "run" /\ bgthread' = "lock" /\ UNCHANGED <<lockVars, mapVars, queue, started>>

\* A wait may end without a signal.
SpuriousWakeup ==
  bgthread = "wait" /\ bgthread' = "lock" /\ UNCHANGED <<lockVars, mapVars, queue, started>>

-----------------------------------------------------------------------------
LockNext ==
  \/ \E p \in Procs, t \in LockThreads :
       \/ OpenLock(p, t) \/ InsertLock(p, t) \/ CloseRefused(p, t)
       \/ \E ok \in BOOLEAN : SetLock(p, t, ok) \/ Unlock(p, t, ok)
       \/ CloseFailed(p, t) \/ RemoveFailed(p, t) \/ RemoveLock(p, t) \/ CloseUnlocked(p, t)
  \/ \E p \in Procs : Exit(p)

MapNext ==
  \E t \in MapThreads :
    \/ LookForSlot(t) \/ AcquireSlot(t) \/ OpenPread(t) \/ (\E ok \in BOOLEAN : MapFile(t, ok))
    \/ Unmap(t) \/ ReleaseSlot(t) \/ ClosePread(t)

QueueNext == Schedule \/ TakeOrWait \/ FunctionReturns \/ SpuriousWakeup

Next == ((LockNext \/ MapNext) /\ UNCHANGED queueVars) \/ QueueNext

Spec == Init /\ [][Next]_envVars

-----------------------------------------------------------------------------
\* Within a process at most one thread has the LOCK file, and the process is in the table exactly
\* while a thread is between Insert and Remove; across processes two have it only after the close of
\* another descriptor in one of them took its fcntl lock away.
LockHeldOnce ==
  /\ \A p \in Procs :
       LET inside == {t \in LockThreads :
                        lockAt[p][t] \in {"inserted", "held", "failed", "removing", "unlocked"}}
       IN  Cardinality(inside) = IF p \in locked THEN 1 ELSE 0
  /\ dropped \/ \A p, q \in Procs : Holders(p) # {} /\ Holders(q) # {} => p = q

\* A database is locked by one process at a time: what LockFile is for.
LockExclusive == \A p, q \in Procs : Holders(p) # {} /\ Holders(q) # {} => p = q

\* What is scheduled is run in the order of the calls of Schedule, each function once, and the thread
\* never sleeps on bgsignal_ while one is in the queue, though Schedule signals only when the queue
\* was empty: whoever holds the mutex between a signal and the thread's turn, no wakeup is lost.
WorkGoesOn ==
  /\ started \o queue = [i \in 1..Scheduled |-> i]
  /\ queue # <<>> => bgthread \in {"lock", "run"}

\* No more files are mapped than there are slots, and no slot is lost or made up, whichever of the
\* steps of opening a table fails and whoever looks at the count without the mutex.
SlotsAccounted ==
  /\ allowed >= 0 /\ mapped <= MaxMmaps
  /\ allowed + mapped + Cardinality({t \in MapThreads : mapAt[t] \in {"slot", "release"}}) = MaxMmaps
=============================================================================
