--------------------------- MODULE AtomicBatches ---------------------------
(***************************************************************************)
(* What DBImpl::Write promises while the database is open: a multi-version *)
(* store that grows by whole batches.  Several pending calls may commit in *)
(* one step; the store keeps the order in which the calls were made; a     *)
(* call returns OK only after it committed and an error only if it never   *)
(* did.  A call is a record with an id (calls are numbered as they are     *)
(* made) and the number of entries of its batch; an entry is               *)
(* [seq, op] with op the id of its call.                                   *)
(***************************************************************************)
EXTENDS Naturals, FiniteSets

VARIABLES
  store,          \* the entries that readers can see
  pending,        \* calls that have not returned
  acked, failed   \* calls that returned OK / an error

batchVars == <<store, pending, acked, failed>>

EntriesOf(c, s) == {e \in s : e.op = c.id}

BatchInit == store = {} /\ pending = {} /\ acked = {} /\ failed = {}

Invoke ==
  /\ \E c \in pending' \ pending :
       /\ pending' = pending \cup {c}
       /\ \A d \in pending \cup acked \cup failed : d.id < c.id
  /\ UNCHANGED <<store, acked, failed>>

\* A group of pending calls becomes visible at once, after everything before.
Commit ==
  /\ store \subseteq store' /\ store' # store
  /\ LET new == store' \ store
     IN  /\ \A e \in new : \E c \in pending :
              c.id = e.op /\ Cardinality(EntriesOf(c, new)) = c.count
         /\ \A e \in new, f \in store : f.seq < e.seq /\ f.op < e.op
         /\ \A e, f \in new : e.op < f.op => e.seq < f.seq
  /\ UNCHANGED <<pending, acked, failed>>

ReturnOK ==
  /\ \E c \in pending :
       /\ pending' = pending \ {c}
       /\ acked' = acked \cup {c}
       /\ Cardinality(EntriesOf(c, store)) = c.count
  /\ UNCHANGED <<store, failed>>

ReturnError ==
  /\ \E c \in pending :
       /\ pending' = pending \ {c}
       /\ failed' = failed \cup {c}
       /\ EntriesOf(c, store) = {}
  /\ UNCHANGED <<store, acked>>

BatchNext == Invoke \/ Commit \/ ReturnOK \/ ReturnError

BatchSpec == BatchInit /\ [][BatchNext]_batchVars
=============================================================================
