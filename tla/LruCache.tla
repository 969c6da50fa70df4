------------------------------- MODULE LruCache -------------------------------
(***************************************************************************)
(* The sharded LRU cache (cache.cc) and the two ways it is used: the table *)
(* cache (table_cache.cc) and the block cache (Table::BlockReader).  Both  *)
(* look a key up, do their I/O without a lock when it is not there, and    *)
(* insert the result; several threads may do this for one key at a time.   *)
(*                                                                         *)
(* An LRUHandle is a number; entry holds its fields.  A shard has the list *)
(* lru, oldest entry first, and the hash table: bucket i holds the chain   *)
(* list_[i].  The first hash bits choose the shard, the last ones the      *)
(* bucket.                                                                 *)
(***************************************************************************)
EXTENDS Integers, Sequences, FiniteSets, SequencesExt

CONSTANTS Threads, CacheKeys,
          Hash,          \* the hash of each key, below kNumShards * ShardRange
          kNumShards, ShardRange,
          Capacity,      \* of the whole cache
          InitLength,    \* the first length of a hash table, 4 in the code
          Charges,       \* what an entry may be charged
          MaxInserts     \* bound on the number of entries made

VARIABLES entry,    \* the LRUHandles made so far
          shard,    \* per shard: lru, usage, length, elems, list
          thread,   \* per thread: where it is in FindTable or BlockReader, key and handle
          latest,   \* per key: the entry last inserted and not erased since, 0 if none
          closed    \* the cache was destroyed

vars == <<entry, shard, thread, latest, closed>>

None == 0
Shards == 0..(kNumShards - 1)
Shard(k) == Hash[k] \div ShardRange
\* ShardedLRUCache(capacity): the capacity of each shard.
PerShard == (Capacity + kNumShards - 1) \div kNumShards

Init ==
  /\ entry = <<>>
  /\ shard = [s \in Shards |-> [lru |-> <<>>, usage |-> 0, length |-> InitLength, elems |-> 0,
                                list |-> [b \in 0..(InitLength - 1) |-> <<>>]]]
  /\ thread = [t \in Threads |-> [pc |-> "idle", key |-> None, handle |-> None]]
  /\ latest = [k \in CacheKeys |-> None]
  /\ closed = FALSE

-----------------------------------------------------------------------------
(* HandleTable; en is entry, c a shard *)

\* FindPointer and Lookup: the first entry of the bucket's chain with this key.
Found(en, c, k) ==
  LET chain == c.list[Hash[k] % c.length]
      hits == SelectSeq(chain, LAMBDA e : en[e].hash = Hash[k] /\ en[e].key = k)
  IN  IF hits = <<>> THEN None ELSE hits[1]

NewBucket(en, e, length) == en[e].hash % length

\* Resize: the buckets are walked in order and every entry is put at the front of its new chain.
Resize(en, c) ==
  LET all == FlattenSeq([i \in 1..c.length |-> c.list[i - 1]])
      lengths == {n \in {InitLength * 2^i : i \in 0..Len(all)} : n >= c.elems}
      new_length == CHOOSE n \in lengths : \A m \in lengths : n <= m
  IN  [c EXCEPT !.length = new_length,
                !.list = [b \in 0..(new_length - 1) |->
                            Reverse(SelectSeq(all, LAMBDA e : NewBucket(en, e, new_length) = b))]]

\* HandleTable::Insert: e takes the place of old, or goes to the end of the chain.
TableInsert(en, c, e, old) ==
  LET b == en[e].hash % c.length
  IN  IF old # None
        THEN [c EXCEPT !.list[b] = [i \in DOMAIN @ |-> IF @[i] = old THEN e ELSE @[i]]]
        ELSE LET c1 == [c EXCEPT !.list[b] = Append(@, e), !.elems = @ + 1]
             IN  IF c1.elems > c1.length THEN Resize(en, c1) ELSE c1

\* HandleTable::Remove of the keys of the entries X.
TableRemove(en, c, X) ==
  LET found == {Found(en, c, en[e].key) : e \in X} \ {None}
  IN  [c EXCEPT !.list = [b \in DOMAIN @ |-> SelectSeq(@[b], LAMBDA e : e \notin found)],
                !.elems = @ - Cardinality(found)]

-----------------------------------------------------------------------------
(* LRUCache *)

\* Unref of every entry of X: the entries ...
Unref(en, X) == [e \in DOMAIN en |-> IF e \in X THEN [en[e] EXCEPT !.refs = @ - 1] ELSE en[e]]

\* ... and those of them that are freed.
Freed(en, X) == {e \in X : en[e].refs = 1}

\* ... and what their charges come to.
ChargeOf(en, X) == MapThenSumSet(LAMBDA e : en[e].charge, X)

LRU_Remove(lru, X) == SelectSeq(lru, LAMBDA e : e \notin X)

\* The entries X leave the list and the table, and the cache's reference is dropped.
Drop(en, c, X) ==
  [TableRemove(en, c, X) EXCEPT !.lru = LRU_Remove(@, X), !.usage = @ - ChargeOf(en, Freed(en, X))]

\* Insert's last loop: the oldest entries, until the usage fits or the list is empty.
Evicted(en, c) ==
  LET First(n) == {c.lru[i] : i \in 1..n}
      enough == {n \in 0..Len(c.lru) : c.usage - ChargeOf(en, Freed(en, First(n))) <= PerShard}
      n == IF enough = {} THEN Len(c.lru) ELSE CHOOSE n \in enough : \A m \in enough : n <= m
  IN  First(n)

\* LRUCache::Insert of a new entry for key k, by a thread that gets a handle on it.
Insert(t, k, charge) ==
  LET e == Len(entry) + 1
      en == Append(entry, [key |-> k, hash |-> Hash[k], charge |-> charge, refs |-> 2])
      c == shard[Shard(k)]
      old == Found(entry, c, k)
      X == {old} \ {None}
      c1 == TableInsert(en, [c EXCEPT !.lru = Append(@, e), !.usage = @ + charge], e, old)
      c2 == [c1 EXCEPT !.lru = LRU_Remove(@, X), !.usage = @ - ChargeOf(en, Freed(en, X))]
      en2 == Unref(en, X)
      Y == Evicted(en2, c2)
  IN  /\ e <= MaxInserts
      /\ entry' = Unref(en2, Y)
      /\ shard' = [shard EXCEPT ![Shard(k)] = Drop(en2, c2, Y)]
      /\ latest' = [latest EXCEPT ![k] = e]
      /\ thread' = [thread EXCEPT ![t] = [pc |-> "use", key |-> k, handle |-> e]]

\* Faulty variant of Remembered: a hit is not counted.
RememberedUncounted(en, e) == en

\* The reference Lookup takes for the caller.
Remembered(en, e) == [en EXCEPT ![e].refs = @ + 1]

\* Cache::Lookup, the first step of FindTable and of BlockReader.
Lookup(t, k) ==
  LET c == shard[Shard(k)]
      e == Found(entry, c, k)
  IN  /\ ~closed /\ thread[t].pc = "idle"
      /\ \/ /\ e # None
            /\ entry' = Remembered(entry, e)
            /\ shard' = [shard EXCEPT ![Shard(k)].lru = Append(LRU_Remove(@, {e}), e)]
            /\ thread' = [thread EXCEPT ![t] = [pc |-> "use", key |-> k, handle |-> e]]
         \/ /\ e = None
            /\ thread' = [thread EXCEPT ![t] = [pc |-> "open", key |-> k, handle |-> None]]
            /\ UNCHANGED <<entry, shard>>
      /\ UNCHANGED <<latest, closed>>

\* The table was opened, or the block read: it goes into the cache.
OpenedOk(t, charge) ==
  /\ thread[t].pc = "open"
  /\ Insert(t, thread[t].key, charge)
  /\ UNCHANGED closed

\* NewRandomAccessFile, Table::Open or ReadBlock failed: nothing is cached.
OpenFails(t) ==
  /\ thread[t].pc = "open"
  /\ thread' = [thread EXCEPT ![t] = [pc |-> "idle", key |-> None, handle |-> None]]
  /\ UNCHANGED <<entry, shard, latest, closed>>

\* The block is not cachable, or fill_cache is off: the iterator owns it.
ReadUncached(t) ==
  /\ thread[t].pc = "open"
  /\ thread' = [thread EXCEPT ![t].pc = "own"]
  /\ UNCHANGED <<entry, shard, latest, closed>>

\* DeleteBlock, the cleanup of an iterator that owns its block.
DeleteBlock(t) ==
  /\ thread[t].pc = "own"
  /\ thread' = [thread EXCEPT ![t] = [pc |-> "idle", key |-> None, handle |-> None]]
  /\ UNCHANGED <<entry, shard, latest, closed>>

\* Release: by Get when it is done, or by the cleanup of an iterator.
Release(t) ==
  LET e == thread[t].handle
      X == {e}
  IN  /\ thread[t].pc = "use"
      /\ entry' = Unref(entry, X)
      /\ shard' = [shard EXCEPT ![Shard(entry[e].key)].usage = @ - ChargeOf(entry, Freed(entry, X))]
      /\ thread' = [thread EXCEPT ![t] = [pc |-> "idle", key |-> None, handle |-> None]]
      /\ UNCHANGED <<latest, closed>>

\* Evict: the file of the table was deleted.
Erase(k) ==
  LET c == shard[Shard(k)]
      X == {Found(entry, c, k)} \ {None}
  IN  /\ ~closed /\ X # {}
      /\ entry' = Unref(entry, X)
      /\ shard' = [shard EXCEPT ![Shard(k)] = Drop(entry, c, X)]
      /\ latest' = [latest EXCEPT ![k] = None]
      /\ UNCHANGED <<thread, closed>>

Unused(en, c) == {e \in ToSet(c.lru) : en[e].refs = 1}

\* Prune of one shard.
Prune(s) ==
  LET X == Unused(entry, shard[s])
  IN  /\ ~closed /\ X # {}
      /\ entry' = Unref(entry, X)
      /\ shard' = [shard EXCEPT ![s] = Drop(entry, @, X)]
      /\ UNCHANGED <<thread, latest, closed>>

\* ~ShardedLRUCache: what is in the lists is unreferenced.
Destroy ==
  LET X == UNION {ToSet(shard[s].lru) : s \in Shards}
  IN  /\ ~closed /\ entry # <<>> /\ \A t \in Threads : thread[t].pc = "idle"
      /\ closed' = TRUE
      /\ entry' = Unref(entry, X)
      /\ shard' = [s \in Shards |-> Drop(entry, shard[s], ToSet(shard[s].lru))]
      /\ UNCHANGED <<thread, latest>>

Next ==
  \/ \E t \in Threads : \/ \E k \in CacheKeys : Lookup(t, k)
                        \/ \E n \in Charges : OpenedOk(t, n)
                        \/ OpenFails(t) \/ ReadUncached(t) \/ DeleteBlock(t) \/ Release(t)
  \/ \E k \in CacheKeys : Erase(k)
  \/ \E s \in Shards : Prune(s)
  \/ Destroy

Spec == Init /\ [][Next]_vars

-----------------------------------------------------------------------------
Holders(e) == {t \in Threads : thread[t].handle = e}
Listed(e) == \E s \in Shards : \E i \in DOMAIN shard[s].lru : shard[s].lru[i] = e
Alive == {e \in DOMAIN entry : entry[e].refs > 0}

\* An entry is freed exactly when nobody can reach it: its count is the number of
\* handles out plus the cache's own reference, however lookups, inserts for the
\* same key, evictions, Erase, Prune and releases interleave.  So no handle is used
\* after its table was closed, and none leaks.
RefsExact ==
  \A e \in DOMAIN entry : entry[e].refs = Cardinality(Holders(e)) + IF Listed(e) THEN 1 ELSE 0

\* What the cache serves is what it keeps: the table and the list of a shard hold
\* the same entries, one per key, each in the bucket a lookup searches, also after
\* the table grew; a lookup finds the entry inserted last for its key or nothing;
\* the list fits the capacity; and usage_ is the charge of every entry not freed
\* yet, those evicted while somebody uses them included.
ShardConsistent ==
  \A s \in Shards :
    LET c == shard[s]
        kept == ToSet(c.lru)
    IN  /\ UNION {ToSet(c.list[b]) : b \in DOMAIN c.list} = kept
        /\ c.elems = Len(c.lru) /\ IsInjective(c.lru)
        /\ \A e \in kept : Found(entry, c, entry[e].key) = e /\ latest[entry[e].key] = e
        /\ ChargeOf(entry, kept) <= PerShard
        /\ c.usage = ChargeOf(entry, {e \in Alive : Shard(entry[e].key) = s})
=============================================================================
