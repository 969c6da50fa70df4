------------------------------- MODULE SkipList -------------------------------
(***************************************************************************)
(* The skip list under a memtable (skiplist.h): one writer links a node    *)
(* level by level while a reader searches without a lock, on a machine     *)
(* that orders memory accesses only as Release_Store and Acquire_Load do.  *)
(*                                                                         *)
(* A location (a link of a node, or max_height_) has the history of its    *)
(* stores, each with the number of the writer's store.  The reader has     *)
(* view, the number of the last store it knows to have happened; a load    *)
(* returns the last value stored by then or any later one, and an          *)
(* acquiring load of a released value raises view to its number.           *)
(***************************************************************************)
EXTENDS Integers, Sequences, FiniteSets, FiniteSetsExt

CONSTANTS ListKeys,    \* the keys, positive numbers; 0 is head_
          kMaxHeight

VARIABLES hist,       \* per location, the stores to it: [time, value]
          clock,      \* the writer's stores so far
          published,  \* the keys whose Insert was made known under a lock, and the clock then
          inserter,   \* the Insert in progress: key, height, prev and the next level to link
          iter        \* SkipList::Iterator of the reader and the search in progress

vars == <<hist, clock, published, inserter, iter>>

HeadNode == 0
Null == 1 + Max(ListKeys)   \* after every key
Levels == 0..(kMaxHeight - 1)
Links == (ListKeys \cup {HeadNode}) \X Levels
HeightLoc == <<"max_height">>

Latest(l) == hist[l][Len(hist[l])].value

Init ==
  /\ hist = [l \in Links \cup {HeightLoc} |->
               IF l = HeightLoc THEN <<[time |-> 0, value |-> 1]>>
               ELSE IF l[1] = HeadNode THEN <<[time |-> 0, value |-> Null]>>
               ELSE <<>>]
  /\ clock = 0
  /\ published = [keys |-> {}, time |-> 0]
  /\ inserter = [key |-> Null, height |-> 0, level |-> 0, prev |-> <<>>]
  /\ iter = [pc |-> "none", op |-> "none", target |-> 0, node |-> Null, x |-> HeadNode, level |-> 0,
             view |-> 0, must |-> {}]

-----------------------------------------------------------------------------
(* The writer *)

Inserted == {k \in ListKeys : hist[<<k, 0>>] # <<>>}

\* FindGreaterOrEqual(key, prev) by the writer, which sees its own stores: the node before key in
\* each level in use, and head_ above.
PrevOf(key) ==
  [i \in Levels |->
     IF i >= Latest(HeightLoc) THEN HeadNode
     ELSE Max({HeadNode} \cup {k \in Inserted : k < key /\ hist[<<k, i>>] # <<>>})]

\* Insert up to the links: a new node of any height, and max_height_ stored without a barrier.
StartInsert(key, height) ==
  /\ inserter.key = Null /\ key \notin Inserted
  /\ inserter' = [key |-> key, height |-> height, level |-> 0, prev |-> PrevOf(key)]
  /\ IF height > Latest(HeightLoc)
       THEN /\ hist' = [hist EXCEPT ![HeightLoc] = Append(@, [time |-> clock + 1, value |-> height])]
            /\ clock' = clock + 1
       ELSE UNCHANGED <<hist, clock>>
  /\ UNCHANGED <<published, iter>>

\* Faulty variant of LinkTimes: the node is published before its own link is set.
LinkTimesSwapped(t) == [own |-> t + 2, prev |-> t + 1]

\* The order of the two stores of a level.
LinkTimes(t) == [own |-> t + 1, prev |-> t + 2]

\* One turn of Insert's loop: x->next_[i] without a barrier, then prev[i]->next_[i] released.
LinkLevel ==
  LET i == inserter.level
      p == <<inserter.prev[i], i>>
      t == LinkTimes(clock)
  IN  /\ inserter.key # Null /\ i < inserter.height
      /\ hist' = [hist EXCEPT ![<<inserter.key, i>>] = Append(@, [time |-> t.own, value |-> Latest(p)]),
                              ![p] = Append(@, [time |-> t.prev, value |-> inserter.key])]
      /\ clock' = clock + 2
      /\ inserter' = [inserter EXCEPT !.level = i + 1]
      /\ UNCHANGED <<published, iter>>

\* Insert returned, and the writer released a lock the reader may take: the DB's mutex.
Publish ==
  /\ inserter.key # Null /\ inserter.level = inserter.height
  /\ published' = [keys |-> published.keys \cup {inserter.key}, time |-> clock]
  /\ inserter' = [inserter EXCEPT !.key = Null, !.height = 0, !.level = 0, !.prev = <<>>]
  /\ UNCHANGED <<hist, clock, iter>>

-----------------------------------------------------------------------------
(* The reader *)

\* The stores a load of l may return.
Loadable(l) ==
  {s \in {hist[l][i] : i \in DOMAIN hist[l]} :
     \A j \in DOMAIN hist[l] : hist[l][j].time <= iter.view => hist[l][j].time <= s.time}

\* Next(level) of node x: an acquiring load.
Load(x, level) == Loadable(<<x, level>>)
Acquired(s) == Max({iter.view, s.time})

\* A new iterator, after the reader took the lock.
NewIterator ==
  /\ iter.pc = "none"
  /\ iter' = [iter EXCEPT !.pc = "idle", !.op = "none", !.node = Null, !.must = published.keys,
                          !.view = Max({@, published.time})]
  /\ UNCHANGED <<hist, clock, published, inserter>>

\* Seek, SeekToLast and Prev start at the top of the list; max_height_ may be stale.
StartSearch(op, target) ==
  /\ iter.pc = "idle"
  /\ op = "Prev" => iter.node # Null
  /\ \E s \in Loadable(HeightLoc) :
       iter' = [iter EXCEPT !.pc = "search", !.op = op, !.target = IF op = "Prev" THEN iter.node ELSE target,
                            !.x = HeadNode, !.level = s.value - 1]
  /\ UNCHANGED <<hist, clock, published, inserter>>

\* KeyIsAfterNode, and the conditions of FindLessThan and FindLast.
GoesOn(next) == next # Null /\ (iter.op # "SeekToLast" => next < iter.target)

\* Where the search ends, at level 0.
Found(next) == IF iter.op = "Seek" THEN next ELSE IF iter.x = HeadNode THEN Null ELSE iter.x

\* One turn of the loop of FindGreaterOrEqual, FindLessThan or FindLast.
SearchStep ==
  /\ iter.pc = "search"
  /\ \E s \in Load(iter.x, iter.level) :
       iter' = [(IF GoesOn(s.value) THEN [iter EXCEPT !.x = s.value]
                 ELSE IF iter.level > 0 THEN [iter EXCEPT !.level = @ - 1]
                 ELSE [iter EXCEPT !.pc = "idle", !.node = Found(s.value)])
                  EXCEPT !.view = Acquired(s)]
  /\ UNCHANGED <<hist, clock, published, inserter>>

\* SeekToFirst and Next: one load at level 0.
StepForward(op) ==
  /\ iter.pc = "idle"
  /\ op = "Next" => iter.node # Null
  /\ \E s \in Load(IF op = "Next" THEN iter.node ELSE HeadNode, 0) :
       iter' = [iter EXCEPT !.op = op, !.target = IF op = "Next" THEN iter.node ELSE HeadNode,
                            !.node = s.value, !.view = Acquired(s)]
  /\ UNCHANGED <<hist, clock, published, inserter>>

Next ==
  \/ \E k \in ListKeys : \E h \in 1..kMaxHeight : StartInsert(k, h)
  \/ LinkLevel
  \/ Publish
  \/ NewIterator
  \/ \E k \in ListKeys : StartSearch("Seek", k)
  \/ StartSearch("SeekToLast", 0)
  \/ StartSearch("Prev", 0)
  \/ SearchStep
  \/ StepForward("SeekToFirst")
  \/ StepForward("Next")

Spec == Init /\ [][Next]_vars

-----------------------------------------------------------------------------
\* The reader knows of a store to a link.
Initialised(x, level) ==
  \E i \in DOMAIN hist[<<x, level>>] : hist[<<x, level>>][i].time <= iter.view

\* A key that the last operation passed over.
Skipped(k) ==
  CASE iter.op = "Seek"                    -> iter.target <= k /\ k < iter.node
    [] iter.op \in {"SeekToFirst", "Next"} -> iter.target < k /\ k < iter.node
    [] iter.op = "Prev"                    -> k < iter.target /\ (iter.node = Null \/ iter.node < k)
    [] iter.op = "SeekToLast"              -> iter.node = Null \/ iter.node < k
    [] OTHER                               -> FALSE

\* A key inserted before the iterator was made is never passed over by Seek, Next, Prev, SeekToFirst
\* or SeekToLast, the position is on the right side of the target, and every link the reader is about
\* to load was stored before anything it knows of, whatever max_height_ and links it happens to see
\* and however far the writer is with linking other nodes.
SeesPublished ==
  /\ iter.pc = "search" => Initialised(iter.x, iter.level)
  /\ iter.pc = "idle" =>
       /\ \A k \in iter.must : ~Skipped(k)
       /\ iter.node # Null =>
            /\ Initialised(iter.node, 0)
            /\ CASE iter.op = "Seek"                    -> iter.node >= iter.target
                 [] iter.op \in {"SeekToFirst", "Next"} -> iter.node > iter.target
                 [] iter.op = "Prev"                    -> iter.node < iter.target
                 [] OTHER                               -> TRUE
=============================================================================
