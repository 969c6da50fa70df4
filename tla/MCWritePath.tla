---------------------------- MODULE MCWritePath ----------------------------
(* Instances of WritePath for TLC.                                         *)
EXTENDS WritePath, TLC

Batch(count, sync) == [count |-> count, sync |-> sync, null |-> FALSE]
NullBatch == [count |-> 0, sync |-> FALSE, null |-> TRUE]

\* A synchronous and an asynchronous write of one entry and of two.
MixedCalls == {Batch(1, TRUE), Batch(2, FALSE)}

\* Writes and forced memtable switches.
FlushCalls == {Batch(1, FALSE), NullBatch}

\* Calls of every kind but the empty batch.
AllCalls == {Batch(1, TRUE), Batch(2, FALSE), NullBatch}

Symmetry == Permutations(Writers)

\* Every call of Write and of TEST_CompactRange returns, though each waits on bg_cv_ for
\* work that the other's compactions delay.
CallersReturn == CallsReturn /\ ManualReturnsEventually
=============================================================================
