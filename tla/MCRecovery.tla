------------------------------ MODULE MCRecovery ------------------------------
(***************************************************************************)
(* Instances of Recovery for TLC.                                          *)
(***************************************************************************)
EXTENDS Recovery

\* The process crashes and appends fail while a flush runs inside a compaction and an iterator holds a
\* version; logs and the MANIFEST may be reused.
Errors == [batches |-> 2, failures |-> 2, compactions |-> 1, iterators |-> TRUE, reuse_logs |-> TRUE,
           power |-> FALSE, newdb |-> FALSE, torn |-> FALSE, syncs |-> {FALSE},
           faults |-> {"log", "manifest"}]

\* The machine fails, and interrupted appends leave parts of records.  Two batches, two failures and
\* both values of sync are met two at a time: the three together have four times the states.
Power == [batches |-> 2, failures |-> 2, compactions |-> 0, iterators |-> FALSE, reuse_logs |-> FALSE,
          power |-> TRUE, newdb |-> FALSE, torn |-> TRUE, syncs |-> BOOLEAN, faults |-> {}]

PowerModes == {[Power EXCEPT !.syncs = {TRUE}], [Power EXCEPT !.failures = 1], [Power EXCEPT !.batches = 1]}

\* An iterator only keeps files that a failing deletion may keep as well: it adds nothing to what a
\* crash finds, and one failure is enough for it.
ErrorModes == {[Errors EXCEPT !.iterators = FALSE], [Errors EXCEPT !.failures = 1]}

Both == ErrorModes \cup PowerModes

\* The machine fails while the database is made.
NewDB == {[Power EXCEPT !.batches = 1, !.failures = 1, !.newdb = TRUE]}

\* An append to the log fails half-way, and the log stays in use.
LogError == {[Power EXCEPT !.power = FALSE, !.syncs = {FALSE}, !.faults = {"log"}]}
===============================================================================
