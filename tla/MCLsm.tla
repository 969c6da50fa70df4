------------------------------- MODULE MCLsm -------------------------------
(***************************************************************************)
(* Instances of Lsm for TLC.  A behaviour of Both has automatic            *)
(* compactions and flushes inside them; or manual compactions and a        *)
(* snapshot.  Without snapshots a compaction leaves one entry of a user    *)
(* key, and no output file can end inside it.                              *)
(***************************************************************************)
EXTENDS Lsm

Both == {[keys |-> {1, 2, 3}, levels |-> 4, snapshots |-> 0,
          manual |-> FALSE, nested |-> TRUE, split |-> FALSE],
         [keys |-> {1, 2}, levels |-> 3, snapshots |-> 1,
          manual |-> TRUE, nested |-> FALSE, split |-> FALSE]}

\* Output files that end inside a user key, beside snapshots.
Split == {[keys |-> {1, 2}, levels |-> 4, snapshots |-> 2,
          manual |-> FALSE, nested |-> TRUE, split |-> TRUE]}
=============================================================================
