------------------------------ MODULE DBIterator ------------------------------
(***************************************************************************)
(* A database iterator: DBIter (db_iter.cc) over a MergingIterator         *)
(* (merger.cc) over the memtable and over two-level iterators              *)
(* (two_level_iterator.cc), one per level-0 table or sorted level.  A      *)
(* writer may add to the memtable between any two steps of the iterator,   *)
(* and a segment (a block of a table, a file of a level) may be            *)
(* unreadable.                                                             *)
(*                                                                         *)
(* An internal key is a number: user keys ascend, and for one user key     *)
(* sequence numbers descend, as InternalKeyComparator orders them.  An     *)
(* iterator's position is an internal key, or 0 when it is not Valid().    *)
(***************************************************************************)
EXTENDS Integers, Sequences, FiniteSets, FiniteSetsExt

CONSTANTS UserKeys,      \* user keys, positive numbers
          LastSequence,  \* the entries in the database when the iterator is made
          MaxInserts,    \* bound on the entries written while it is used
          Places,        \* where an entry may be: <<0, 0>> (memtable) or <<table, segment>>
          MaxTombs, MaxUnreadable  \* bounds on deletions and on unreadable segments

VARIABLES memtable,   \* the internal keys in the memtable
          tables,     \* per table or level: its segments in order, [keys, ok]
          tombs,      \* the internal keys of type kTypeDeletion
          sequence,   \* DBIter::sequence_
          merge,      \* the MergingIterator: current_, direction_ and its children
          dbiter,     \* DBIter: the loop it is in, direction_, valid_, saved key and value
          call        \* the call in progress

vars == <<memtable, tables, tombs, sequence, merge, dbiter, call>>

Top == LastSequence + MaxInserts
InternalKey(k, s) == k * (Top + 1) + (Top - s)
UserKey(e) == e \div (Top + 1)
SeqOf(e) == Top - (e % (Top + 1))

-----------------------------------------------------------------------------
(* Positions in one sorted run: a skiplist or a block *)

Lowest(S) == IF S = {} THEN 0 ELSE Min(S)
Highest(S) == IF S = {} THEN 0 ELSE Max(S)

\* What each operation does to the position pos in the run S.
InRun(S, pos, op, target) ==
  CASE op = "Seek"        -> Lowest({e \in S : e >= target})
    [] op = "SeekToFirst" -> Lowest(S)
    [] op = "SeekToLast"  -> Highest(S)
    [] op = "Next"        -> Lowest({e \in S : e > pos})
    [] op = "Prev"        -> Highest({e \in S : e < pos})

-----------------------------------------------------------------------------
(* TwoLevelIterator over the segments T: index is the position of index_iter_, data the *)
(* segment of data_iter_ (0 when it is NULL), pos its position, err is status_ not ok   *)

Closed == [index |-> 0, data |-> 0, pos |-> 0, err |-> FALSE]

SetDataIterator(T, c, d) ==
  [c EXCEPT !.err = @ \/ (c.data # 0 /\ ~T[c.data].ok), !.data = d, !.pos = 0]

InitDataBlock(T, c) == IF c.index # 0 /\ c.data = c.index THEN c ELSE SetDataIterator(T, c, c.index)

\* The entries data_iter_ sees: an unreadable segment gives an empty error iterator.
DataKeys(T, c) == IF T[c.data].ok THEN T[c.data].keys ELSE {}
OnData(T, c, op, target) ==
  IF c.data = 0 THEN c ELSE [c EXCEPT !.pos = InRun(DataKeys(T, c), @, op, target)]

RECURSIVE SkipEmptyDataBlocksForward(_, _)
SkipEmptyDataBlocksForward(T, c) ==
  IF c.pos # 0 THEN c
  ELSE IF c.index = 0 THEN SetDataIterator(T, c, 0)
  ELSE LET next == [c EXCEPT !.index = IF @ = Len(T) THEN 0 ELSE @ + 1]
       IN  SkipEmptyDataBlocksForward(T, OnData(T, InitDataBlock(T, next), "SeekToFirst", 0))

RECURSIVE SkipEmptyDataBlocksBackward(_, _)
SkipEmptyDataBlocksBackward(T, c) ==
  IF c.pos # 0 THEN c
  ELSE IF c.index = 0 THEN SetDataIterator(T, c, 0)
  ELSE SkipEmptyDataBlocksBackward(
         T, OnData(T, InitDataBlock(T, [c EXCEPT !.index = @ - 1]), "SeekToLast", 0))

\* index_iter_: the index block of a table, or LevelFileNumIterator over the files of a level.
IndexSeek(T, target) == Lowest({i \in DOMAIN T : Max(T[i].keys) >= target})

TwoLevel(T, c, op, target) ==
  LET placed == CASE op = "Seek"        -> InitDataBlock(T, [c EXCEPT !.index = IndexSeek(T, target)])
                  [] op = "SeekToFirst" -> InitDataBlock(T, [c EXCEPT !.index = Lowest(DOMAIN T)])
                  [] op = "SeekToLast"  -> InitDataBlock(T, [c EXCEPT !.index = Len(T)])
                  [] OTHER              -> c
      moved == OnData(T, placed, op, target)
  IN  IF op \in {"SeekToLast", "Prev"} THEN SkipEmptyDataBlocksBackward(T, moved)
      ELSE SkipEmptyDataBlocksForward(T, moved)

\* status(): the saved error, or that of the current data iterator.
TwoLevelOk(T, c) == ~c.err /\ (c.data # 0 => T[c.data].ok)

-----------------------------------------------------------------------------
(* MergingIterator; child 1 is the memtable, whose content m grows *)

Move(m, child, i, op, target) ==
  IF i = 1 THEN [child[i] EXCEPT !.pos = InRun(m, @, op, target)]
  ELSE TwoLevel(tables[i - 1], child[i], op, target)

Positions(child) == {child[i].pos : i \in DOMAIN child} \ {0}
Holding(child, e) == IF e = 0 THEN 0 ELSE Min({i \in DOMAIN child : child[i].pos = e})

FindSmallest(child) == [cur |-> Holding(child, Lowest(Positions(child))), fwd |-> TRUE, child |-> child]
FindLargest(child) == [cur |-> Holding(child, Highest(Positions(child))), fwd |-> FALSE, child |-> child]

Position(it) == IF it.cur = 0 THEN 0 ELSE it.child[it.cur].pos

MergeSeek(it, op, target) ==
  LET child == [i \in DOMAIN it.child |-> Move(memtable, it.child, i, op, target)]
  IN  IF op = "SeekToLast" THEN FindLargest(child) ELSE FindSmallest(child)

\* Next after a reverse step: every other child is moved behind key().
AllAfter(it) ==
  LET sought == [i \in DOMAIN it.child |-> Move(memtable, it.child, i, "Seek", Position(it))]
  IN  [i \in DOMAIN it.child |->
         IF i = it.cur THEN it.child[i]
         ELSE IF sought[i].pos = Position(it) THEN Move(memtable, sought, i, "Next", 0)
         ELSE sought[i]]

MergeNext(it) ==
  LET child == IF it.fwd THEN it.child ELSE AllAfter(it)
  IN  FindSmallest([child EXCEPT ![it.cur] = Move(memtable, child, it.cur, "Next", 0)])

\* Faulty variant of AllBefore: a child without entries at or after key() is left at its end.
AllBeforeEnd(it, m) ==
  LET sought == [i \in DOMAIN it.child |-> Move(memtable, it.child, i, "Seek", Position(it))]
  IN  [i \in DOMAIN it.child |->
         IF i = it.cur THEN it.child[i]
         ELSE IF sought[i].pos # 0 THEN Move(m, sought, i, "Prev", 0) ELSE sought[i]]

\* Prev after a forward step: every other child is moved before key().  The memtable may have
\* grown to m between the two calls on its iterator.
AllBefore(it, m) ==
  LET sought == [i \in DOMAIN it.child |-> Move(memtable, it.child, i, "Seek", Position(it))]
  IN  [i \in DOMAIN it.child |->
         IF i = it.cur THEN it.child[i]
         ELSE Move(m, sought, i, IF sought[i].pos # 0 THEN "Prev" ELSE "SeekToLast", 0)]

MergePrev(it, m) ==
  LET child == IF it.fwd THEN AllBefore(it, m) ELSE it.child
  IN  FindLargest([child EXCEPT ![it.cur] = Move(m, child, it.cur, "Prev", 0)])

-----------------------------------------------------------------------------
(* The writer *)

\* The contents of the memtable after at most one more write.
Inserted == {e \in memtable : SeqOf(e) > LastSequence}
Grown == {memtable} \cup
         {memtable \cup {InternalKey(k, LastSequence + Cardinality(Inserted) + 1)} :
            k \in IF Cardinality(Inserted) < MaxInserts THEN UserKeys ELSE {}}

Insert == /\ call.op # "closed"
          /\ memtable' \in Grown \ {memtable}
          /\ UNCHANGED <<tables, tombs, sequence, merge, dbiter, call>>

-----------------------------------------------------------------------------
(* DBIter *)

Init ==
  /\ memtable = {} /\ tables = <<>> /\ tombs = {} /\ sequence = 0
  /\ merge = [cur |-> 0, fwd |-> TRUE, child |-> <<>>]
  /\ dbiter = [pc |-> "idle", fwd |-> TRUE, valid |-> FALSE, key |-> 0, value |-> 0,
               skipping |-> FALSE, del |-> FALSE]
  /\ call = [op |-> "closed"]

\* The layouts compaction can leave: entry s is key[s] at place[s]; tables are sorted, and of two
\* entries for one key the newer is in the memtable or in the same or an earlier table.
Layout(key, place) ==
  \A r, s \in 1..LastSequence :
    /\ r < s /\ key[r] = key[s] => place[s][1] <= place[r][1]
    /\ (place[r][1] # 0 /\ place[r][1] = place[s][1] /\ InternalKey(key[r], r) < InternalKey(key[s], s))
         => place[r][2] <= place[s][2]

\* NewInternalIterator and NewDBIterator on a database of any layout, at any snapshot.
Open ==
  /\ call.op = "closed"
  /\ \E key \in [1..LastSequence -> UserKeys], place \in [1..LastSequence -> Places] :
       LET At(p) == {InternalKey(key[s], s) : s \in {s \in 1..LastSequence : place[s] = p}}
           used == {p \in Places : p[1] # 0 /\ At(p) # {}}
           ofTable(t) == {p[2] : p \in {p \in used : p[1] = t}}
           nth(t, i) == CHOOSE n \in ofTable(t) : Cardinality({m \in ofTable(t) : m <= n}) = i
       IN  /\ Layout(key, place)
           /\ memtable' = At(<<0, 0>>)
           /\ tombs' \in {D \in SUBSET {InternalKey(key[s], s) : s \in 1..LastSequence} :
                            Cardinality(D) <= MaxTombs}
           /\ \E bad \in SUBSET used :
                /\ Cardinality(bad) <= MaxUnreadable
                /\ tables' = [t \in 1..Max({p[1] : p \in Places}) |->
                                [i \in 1..Cardinality(ofTable(t)) |->
                                   [keys |-> At(<<t, nth(t, i)>>), ok |-> <<t, nth(t, i)>> \notin bad]]]
  /\ sequence' \in (LastSequence - 1)..LastSequence
  /\ merge' = [cur |-> 0, fwd |-> TRUE, child |-> [i \in 1..(Len(tables') + 1) |-> Closed]]
  /\ call' = [op |-> "none"]
  /\ UNCHANGED dbiter

\* The state of DBIter after the loop ended without an entry, and the calls' common frame.
Ended(d) == [d EXCEPT !.pc = "idle", !.valid = FALSE, !.key = 0, !.value = 0]
Loop(d, c) == /\ dbiter' = d
              /\ call' = IF d.pc = "idle" THEN [op |-> "none"] ELSE c
              /\ UNCHANGED <<tables, tombs, sequence>>

Seek(t) ==
  /\ call.op = "none"
  /\ merge' = MergeSeek(merge, "Seek", InternalKey(t, sequence))
  /\ call' = [op |-> "Seek", target |-> t]
  /\ dbiter' = [dbiter EXCEPT !.fwd = TRUE, !.pc = "findnext", !.skipping = FALSE, !.value = 0]
  /\ UNCHANGED <<memtable, tables, tombs, sequence>>

SeekToFirst ==
  /\ call.op = "none"
  /\ merge' = MergeSeek(merge, "SeekToFirst", 0)
  /\ call' = [op |-> "SeekToFirst"]
  /\ dbiter' = [dbiter EXCEPT !.fwd = TRUE, !.pc = "findnext", !.skipping = FALSE, !.value = 0]
  /\ UNCHANGED <<memtable, tables, tombs, sequence>>

SeekToLast ==
  /\ call.op = "none"
  /\ merge' = MergeSeek(merge, "SeekToLast", 0)
  /\ call' = [op |-> "SeekToLast"]
  /\ dbiter' = [dbiter EXCEPT !.fwd = FALSE, !.pc = "findprev", !.del = TRUE, !.value = 0]
  /\ UNCHANGED <<memtable, tables, tombs, sequence>>

\* key(): the saved key after reverse steps, the internal iterator's otherwise.
Key == IF dbiter.fwd THEN UserKey(Position(merge)) ELSE dbiter.key
Value == IF dbiter.fwd THEN SeqOf(Position(merge)) ELSE dbiter.value

StartNext ==
  /\ call.op = "none" /\ dbiter.valid
  /\ merge' = IF dbiter.fwd THEN merge
              ELSE IF merge.cur = 0 THEN MergeSeek(merge, "SeekToFirst", 0) ELSE MergeNext(merge)
  /\ call' = [op |-> "Next", from |-> Key]
  /\ dbiter' = [dbiter EXCEPT !.fwd = TRUE, !.key = Key, !.pc = "findnext", !.skipping = TRUE]
  /\ UNCHANGED <<memtable, tables, tombs, sequence>>

\* One turn of the loop of FindNextUserEntry, or its end.
FindNextUserEntry ==
  /\ dbiter.pc = "findnext"
  /\ LET e == Position(merge)
         visible == e # 0 /\ SeqOf(e) <= sequence
         skip == IF visible /\ e \in tombs THEN [dbiter EXCEPT !.key = UserKey(e), !.skipping = TRUE]
                 ELSE dbiter
     IN  \/ /\ e = 0
            /\ Loop(Ended(dbiter), call) /\ UNCHANGED <<merge, memtable>>
         \/ /\ visible /\ e \notin tombs /\ ~(dbiter.skipping /\ UserKey(e) <= dbiter.key)
            /\ Loop([dbiter EXCEPT !.pc = "idle", !.valid = TRUE, !.key = 0], call)
            /\ UNCHANGED <<merge, memtable>>
         \/ /\ e # 0 /\ (visible => e \in tombs \/ (dbiter.skipping /\ UserKey(e) <= dbiter.key))
            /\ merge' = MergeNext(merge)
            /\ Loop(skip, call) /\ UNCHANGED memtable

StartPrev ==
  /\ call.op = "none" /\ dbiter.valid
  /\ call' = [op |-> "Prev", from |-> Key]
  /\ dbiter' = [dbiter EXCEPT !.key = Key, !.pc = IF dbiter.fwd THEN "prevscan" ELSE "findprev", !.del = TRUE]
  /\ UNCHANGED <<memtable, tables, tombs, sequence, merge>>

\* One turn of the loop of Prev that leaves the entries of the current key.
PrevScan ==
  /\ dbiter.pc = "prevscan"
  /\ memtable' \in Grown
  /\ merge' = MergePrev(merge, memtable')
  /\ LET e == Position(merge')
     IN  Loop(IF e = 0 THEN Ended(dbiter)
              ELSE IF UserKey(e) < dbiter.key THEN [dbiter EXCEPT !.fwd = FALSE, !.pc = "findprev"]
              ELSE dbiter, call)

\* The loop stops at a smaller key once it has a value.
FoundPrev(e) == ~dbiter.del /\ UserKey(e) < dbiter.key

\* One turn of the loop of FindPrevUserEntry, or its end.
FindPrevUserEntry ==
  /\ dbiter.pc = "findprev"
  /\ LET e == Position(merge)
         visible == e # 0 /\ SeqOf(e) <= sequence
         kept == IF ~visible THEN dbiter
                 ELSE IF e \in tombs THEN [dbiter EXCEPT !.del = TRUE, !.key = 0, !.value = 0]
                 ELSE [dbiter EXCEPT !.del = FALSE, !.key = UserKey(e), !.value = SeqOf(e)]
     IN  \/ /\ e = 0 \/ (visible /\ FoundPrev(e))
            /\ Loop(IF dbiter.del THEN [Ended(dbiter) EXCEPT !.fwd = TRUE]
                    ELSE [dbiter EXCEPT !.pc = "idle", !.valid = TRUE], call)
            /\ UNCHANGED <<merge, memtable>>
         \/ /\ e # 0 /\ ~(visible /\ FoundPrev(e))
            /\ merge' = MergePrev(merge, memtable)
            /\ Loop(kept, call) /\ UNCHANGED memtable

Next == \/ Open \/ Insert
        \/ SeekToFirst \/ SeekToLast \/ StartNext \/ StartPrev
        \/ \E t \in UserKeys : Seek(t)
        \/ FindNextUserEntry \/ PrevScan \/ FindPrevUserEntry

Spec == Init /\ [][Next]_vars

-----------------------------------------------------------------------------
(* What the caller sees *)

\* status(): the first error of a child.
StatusOk == \A i \in DOMAIN merge.child : i > 1 => TwoLevelOk(tables[i - 1], merge.child[i])

Entries == memtable \cup UNION {UNION {tables[t][i].keys : i \in DOMAIN tables[t]} : t \in DOMAIN tables}

\* The reference: for each user key the newest entry at or below sequence_, unless a deletion.
View ==
  LET visible == {e \in Entries : SeqOf(e) <= sequence}
  IN  {<<UserKey(e), SeqOf(e)>> :
         e \in {e \in visible \ tombs : \A f \in visible : UserKey(f) = UserKey(e) => SeqOf(f) <= SeqOf(e)}}

\* What the caller is promised: the state as that of a cursor over the reference.
Promise == INSTANCE Cursor WITH Targets <- UserKeys, view <- View, call <- call, ok <- StatusOk,
                                at <- IF dbiter.valid THEN <<Key, Value>> ELSE <<0, 0>>
=============================================================================
