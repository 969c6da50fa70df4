-------------------------------- MODULE Cursor --------------------------------
(***************************************************************************)
(* What a database iterator promises (include/leveldb/iterator.h): a       *)
(* cursor over the sorted user keys that are visible at its sequence       *)
(* number, each with its newest value; or, once something could not be     *)
(* read, a status that says so.  Between a call and its return the cursor  *)
(* may be anywhere.                                                        *)
(***************************************************************************)
EXTENDS Integers

CONSTANT Targets   \* the user keys a caller may seek

VARIABLES view,    \* the visible pairs <<user key, value>>
          at,      \* the pair the cursor is on, Nowhere when it is not Valid()
          call,    \* the call in progress; "none" between calls
          ok       \* status().ok()

vars == <<call, view, at, ok>>

Nowhere == <<0, 0>>
Least(S) == IF S = {} THEN Nowhere ELSE CHOOSE p \in S : \A q \in S : p[1] <= q[1]
Greatest(S) == IF S = {} THEN Nowhere ELSE CHOOSE p \in S : \A q \in S : p[1] >= q[1]

Init == view = {} /\ at = Nowhere /\ call = [op |-> "closed"] /\ ok = TRUE

\* The iterator is made: its view is fixed from here on.
Open == call.op = "closed" /\ call' = [op |-> "none"] /\ UNCHANGED <<at, ok>>

Call == /\ call.op = "none"
        /\ \/ \E t \in Targets : call' = [op |-> "Seek", target |-> t]
           \/ call' \in {[op |-> "SeekToFirst"], [op |-> "SeekToLast"]}
           \/ at # Nowhere /\ call' \in {[op |-> o, from |-> at[1]] : o \in {"Next", "Prev"}}
        /\ UNCHANGED view /\ (ok' => ok)

Work == call.op \notin {"closed", "none"} /\ UNCHANGED <<call, view>> /\ (ok' => ok)

\* Where a call leaves the cursor.
Result(c) == CASE c.op = "Seek"        -> Least({p \in view : p[1] >= c.target})
               [] c.op = "SeekToFirst" -> Least(view)
               [] c.op = "SeekToLast"  -> Greatest(view)
               [] c.op = "Next"        -> Least({p \in view : p[1] > c.from})
               [] c.op = "Prev"        -> Greatest({p \in view : p[1] < c.from})

\* An unreadable file excuses the call from the right answer, not from saying so.
Return == /\ call.op \notin {"closed", "none"}
          /\ call' = [op |-> "none"]
          /\ ok' => ok /\ at' = Result(call)
          /\ UNCHANGED view

Next == Open \/ Call \/ Work \/ Return

Spec == Init /\ [][Next]_vars
=============================================================================
