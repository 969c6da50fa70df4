------------------------------ MODULE SortedTable ------------------------------
(***************************************************************************)
(* A sorted table, from TableBuilder::Add to Table::InternalGet: blocks    *)
(* with shared prefixes and restart points (block_builder.cc, block.cc),   *)
(* index keys shortened by the comparators (comparator.cc, dbformat.cc),   *)
(* a filter block indexed by file offset (filter_block.cc), failing writes *)
(* (table_builder.cc) and blocks that cannot be read back (format.cc,      *)
(* table.cc).                                                              *)
(*                                                                         *)
(* A user key is a sequence of bytes, an internal key the same sequence    *)
(* with one cell more, its tag (sequence number and type).  Sizes are      *)
(* counted in cells; the place of an entry in its block is its number.     *)
(***************************************************************************)
EXTENDS Integers, Sequences, FiniteSets, TLC

CONSTANTS UserKeys,                \* sequences over 0..Top
          Top,                     \* the largest byte, 0xff in the code
          Tags, MaxTag,            \* the tags of entries; the tag a seek key carries
          KeyHash,                 \* BloomHash, a function on UserKeys
          block_restart_interval, block_size, kFilterBase,
          MaxEntries               \* bound on the entries of a table

VARIABLES builder,   \* TableBuilder::Rep
          added,     \* every key the builder took
          table      \* the table once opened

tableVars == <<builder, added, table>>

Policy == INSTANCE Bloom WITH BloomKeys <- UserKeys, BloomHash <- LAMBDA k : KeyHash[k],
                              Word <- 64, High <- 8

-----------------------------------------------------------------------------
(* Keys and their order *)

ExtractUserKey(k) == SubSeq(k, 1, Len(k) - 1)
Tag(k) == k[Len(k)]
InternalKeys == {Append(u, t) : u \in UserKeys, t \in Tags}
SeekKeys == {Append(u, t) : u \in UserKeys, t \in Tags \cup {MaxTag}}

\* How many leading cells two sequences have in common.
SharedPrefix(a, b) ==
  Cardinality({i \in 1..Len(a) : i <= Len(b) /\ SubSeq(a, 1, i) = SubSeq(b, 1, i)})

BytewiseLess(a, b) ==
  LET d == SharedPrefix(a, b)
  IN  d < Len(b) /\ (d < Len(a) => a[d + 1] < b[d + 1])

\* InternalKeyComparator::Compare: user keys upwards, tags downwards.
Less(a, b) ==
  \/ BytewiseLess(ExtractUserKey(a), ExtractUserKey(b))
  \/ ExtractUserKey(a) = ExtractUserKey(b) /\ Tag(a) > Tag(b)

\* Faulty variant of BytewiseSeparator: the byte may become that of limit.
BytewiseSeparatorUpTo(start, limit) ==
  LET d == SharedPrefix(start, limit)
  IN  IF /\ d < Len(start) /\ d < Len(limit)
         /\ start[d + 1] < Top /\ start[d + 1] + 1 <= limit[d + 1]
      THEN Append(SubSeq(start, 1, d), start[d + 1] + 1)
      ELSE start

\* BytewiseComparatorImpl::FindShortestSeparator.
BytewiseSeparator(start, limit) ==
  LET d == SharedPrefix(start, limit)
  IN  IF /\ d < Len(start) /\ d < Len(limit)
         /\ start[d + 1] < Top /\ start[d + 1] + 1 < limit[d + 1]
      THEN Append(SubSeq(start, 1, d), start[d + 1] + 1)
      ELSE start

BytewiseSuccessor(key) ==
  LET free == {i \in 1..Len(key) : key[i] # Top}
      i == CHOOSE i \in free : \A j \in free : i <= j
  IN  IF free = {} THEN key ELSE Append(SubSeq(key, 1, i - 1), key[i] + 1)

\* A user key that became shorter and larger takes the place of the key, with the first tag.
Shortened(key, tmp) ==
  IF Len(tmp) < Len(ExtractUserKey(key)) /\ BytewiseLess(ExtractUserKey(key), tmp)
  THEN Append(tmp, MaxTag) ELSE key

FindShortestSeparator(start, limit) ==
  Shortened(start, BytewiseSeparator(ExtractUserKey(start), ExtractUserKey(limit)))

FindShortSuccessor(key) == Shortened(key, BytewiseSuccessor(ExtractUserKey(key)))

-----------------------------------------------------------------------------
(* BlockBuilder: entries with shared prefixes, restarts as entry numbers *)

EmptyBlock == [entries |-> <<>>, restarts |-> <<1>>, counter |-> 0, last |-> <<>>]

BlockAdd(b, interval, key, value) ==
  LET restart == b.counter >= interval
      shared == IF restart THEN 0 ELSE SharedPrefix(b.last, key)
  IN  [entries |-> Append(b.entries, [shared |-> shared, value |-> value,
                                      delta |-> SubSeq(key, shared + 1, Len(key))]),
       restarts |-> IF restart THEN Append(b.restarts, Len(b.entries) + 1) ELSE b.restarts,
       counter |-> IF restart THEN 1 ELSE b.counter + 1,
       last |-> key]

RECURSIVE EntriesSize(_)
EntriesSize(es) == IF es = <<>> THEN 0 ELSE 4 + Len(Head(es).delta) + EntriesSize(Tail(es))

CurrentSizeEstimate(b) == EntriesSize(b.entries) + Len(b.restarts) + 1

-----------------------------------------------------------------------------
(* Block::Iter: at is current_ (one past the last entry when not valid), next the entry that      *)
(* ParseNextKey decodes, region restart_index_, key the key rebuilt so far.                       *)

Valid(b, it) == it.at <= Len(b.entries)

Ended(b, it) ==
  [it EXCEPT !.at = Len(b.entries) + 1, !.region = Len(b.restarts) + 1]

CorruptionError(b, it) == [Ended(b, it) EXCEPT !.ok = FALSE, !.key = <<>>]

SeekToRestartPoint(b, it, index) ==
  [it EXCEPT !.key = <<>>, !.region = index, !.next = b.restarts[index]]

\* The region goes on to the last one that starts before the entry.
RegionOf(b, region, at) ==
  LET later == {r \in (region + 1)..Len(b.restarts) : b.restarts[r] < at}
  IN  region + Cardinality(later)

ParseNextKey(b, it) ==
  IF it.next > Len(b.entries) THEN Ended(b, it)
  ELSE LET e == b.entries[it.next]
       IN  IF Len(it.key) < e.shared THEN CorruptionError(b, it)
           ELSE [it EXCEPT !.at = it.next, !.next = it.next + 1,
                           !.key = SubSeq(it.key, 1, e.shared) \o e.delta,
                           !.region = RegionOf(b, it.region, it.next)]

NewIter(b) == [at |-> Len(b.entries) + 1, next |-> 1, region |-> Len(b.restarts) + 1,
               key |-> <<>>, ok |-> TRUE]

\* The last restart point whose key is less than the target, by binary search; 0 if one shares a
\* prefix, which none may.
RECURSIVE LastRestartBefore(_, _, _, _)
LastRestartBefore(b, target, left, right) ==
  IF left >= right THEN left
  ELSE LET mid == (left + right + 1) \div 2
           e == b.entries[b.restarts[mid]]
       IN  IF e.shared # 0 THEN 0
           ELSE IF Less(e.delta, target) THEN LastRestartBefore(b, target, mid, right)
           ELSE LastRestartBefore(b, target, left, mid - 1)

RECURSIVE ParseUntil(_, _, _)
ParseUntil(b, it, target) ==
  LET n == ParseNextKey(b, it)
  IN  IF ~Valid(b, n) \/ ~Less(n.key, target) THEN n ELSE ParseUntil(b, n, target)

Seek(b, it, target) ==
  LET left == LastRestartBefore(b, target, 1, Len(b.restarts))
  IN  IF left = 0 THEN CorruptionError(b, it)
      ELSE ParseUntil(b, SeekToRestartPoint(b, it, left), target)

\* Parses entries until the one that ends where the entry stop starts.
RECURSIVE ParseUpTo(_, _, _)
ParseUpTo(b, it, stop) ==
  LET n == ParseNextKey(b, it)
  IN  IF Valid(b, n) /\ n.next < stop THEN ParseUpTo(b, n, stop) ELSE n

SeekToFirst(b, it) == ParseNextKey(b, SeekToRestartPoint(b, it, 1))

SeekToLast(b, it) ==
  ParseUpTo(b, SeekToRestartPoint(b, it, Len(b.restarts)), Len(b.entries) + 1)

\* The regions, up to the current one, that start before the current entry.
RegionsBefore(b, it) == {r \in 1..it.region : b.restarts[r] < it.at}

Prev(b, it) ==
  LET before == RegionsBefore(b, it)
  IN  IF before = {} THEN Ended(b, it)
      ELSE ParseUpTo(b, SeekToRestartPoint(b, it, CHOOSE r \in before : \A q \in before : q <= r),
                     it.at)

-----------------------------------------------------------------------------
(* FilterBlockBuilder and FilterBlockReader: keys waiting, filters made *)

NoFilters == [keys |-> <<>>, filters |-> <<>>]

GenerateFilter(f) ==
  [keys |-> <<>>,
   filters |-> Append(f.filters,
     IF f.keys = <<>> THEN Policy!NoFilter
     ELSE Policy!CreateFilter({f.keys[i] : i \in DOMAIN f.keys}, Len(f.keys), 10))]

\* Makes filters until there is one for every kFilterBase before the offset.
RECURSIVE StartBlock(_, _)
StartBlock(f, block_offset) ==
  IF block_offset \div kFilterBase > Len(f.filters)
  THEN StartBlock(GenerateFilter(f), block_offset) ELSE f

FilterFinish(f) == IF f.keys = <<>> THEN f ELSE GenerateFilter(f)

\* The filter of the block's offset, made of user keys; beyond the last filter everything matches.
FilterKeyMayMatch(filters, block_offset, k) ==
  LET index == block_offset \div kFilterBase
  IN  index < Len(filters) => Policy!KeyMayMatch(ExtractUserKey(k), filters[index + 1])

-----------------------------------------------------------------------------
(* TableBuilder *)

NewBuilder ==
  [ok |-> TRUE, closed |-> FALSE, data |-> EmptyBlock, index |-> EmptyBlock, last |-> <<>>,
   pending |-> FALSE, handle |-> 0, offset |-> 0, filter |-> NoFilters, blocks |-> <<>>,
   metaindex |-> 0, whole |-> FALSE]

Init == builder = NewBuilder /\ added = <<>> /\ table = [open |-> FALSE]

\* The index entry of the block written last, under a key at or past its last key.
AddIndexEntry(r, key) ==
  [r EXCEPT !.index = BlockAdd(r.index, 1, key, r.handle), !.pending = FALSE]

\* TableBuilder::Flush: the write of the block or the flush of the file may fail; the block builder
\* is reset all the same.
Flush(r, outcome) ==
  IF ~r.ok \/ r.data.entries = <<>> THEN r
  ELSE LET written == outcome # "append"
           offset == IF written THEN r.offset + CurrentSizeEstimate(r.data) + 1 ELSE r.offset
       IN  [r EXCEPT !.ok = (outcome = "done"), !.data = EmptyBlock, !.pending = written,
                     !.handle = r.offset, !.offset = offset,
                     !.filter = StartBlock(r.filter, offset),
                     !.blocks = IF written THEN @ @@ (r.offset :> r.data) ELSE @]

AddEntry(r, key, outcome) ==
  LET r1 == IF r.pending THEN AddIndexEntry(r, FindShortestSeparator(r.last, key)) ELSE r
      r2 == [r1 EXCEPT !.filter.keys = Append(@, ExtractUserKey(key)), !.last = key,
                       !.data = BlockAdd(r1.data, block_restart_interval, key, key)]
  IN  IF CurrentSizeEstimate(r2.data) >= block_size THEN Flush(r2, outcome) ELSE r2

Outcomes == {"done", "append", "flush"}

\* TableBuilder::Add, in key order; after an error it returns at once.
Add(key, outcome) ==
  /\ ~builder.closed /\ builder.ok
  /\ Len(added) < MaxEntries
  /\ added # <<>> => Less(added[Len(added)], key)
  /\ builder' = AddEntry(builder, key, outcome)
  /\ added' = Append(added, key)
  /\ UNCHANGED table

\* The size of the filter block: a cell for each filter and its offset, and two at the end.
FilterBlockSize(f) == 2 * Len(f.filters) + 2

\* TableBuilder::Finish: the rest of the data, then filter, metaindex and index blocks and the
\* footer, each written only if all before it were; whole is that the footer is there.
Finish(outcome, rest) ==
  /\ ~builder.closed
  /\ LET r == Flush(builder, outcome)
         f == IF ~r.ok THEN r
              ELSE [r EXCEPT !.filter = FilterFinish(@), !.ok = (rest = "done"), !.whole = (rest = "done"),
                             !.metaindex = r.offset + FilterBlockSize(FilterFinish(r.filter)) + 1]
         i == IF f.ok /\ f.pending THEN AddIndexEntry(f, FindShortSuccessor(f.last)) ELSE f
     IN  builder' = [i EXCEPT !.closed = TRUE]
  /\ UNCHANGED <<added, table>>

\* TableBuilder::Abandon.
Abandon ==
  /\ ~builder.closed
  /\ builder' = [builder EXCEPT !.closed = TRUE]
  /\ UNCHANGED <<added, table>>

\* The parts of a file that may be damaged.
Parts == ({"footer", "index", "metaindex", "filter"} \X {0}) \cup ({"data"} \X DOMAIN builder.blocks)

\* Footer::DecodeFrom finds the magic number and both handles.
FooterDecodes(bad) == <<"footer", 0>> \notin bad

\* ReadBlock returns the block, or an error if the read fails or is short, a checksum that is verified
\* is wrong, or the contents do not decompress.
ReadBlock(bad, part, handle) == <<part, handle>> \notin bad

\* Table::Open of a finished table, parts of which are bad: without the footer or the index the table
\* does not open, without the metaindex or the filter it has no filter.
Open(bad) ==
  /\ builder.whole /\ ~table.open
  /\ FooterDecodes(bad) /\ ReadBlock(bad, "index", 0)
  /\ table' = [open |-> TRUE, bad |-> bad,
               filtered |-> ReadBlock(bad, "metaindex", 0) /\ ReadBlock(bad, "filter", 0)]
  /\ UNCHANGED <<builder, added>>

-----------------------------------------------------------------------------
(* Table::InternalGet and Table::ApproximateOffsetOf *)

IndexSeek(k) == Seek(builder.index, NewIter(builder.index), k)
HandleOf(ii) == builder.index.entries[ii.at].value

InternalGet(k) ==
  LET ii == IndexSeek(k)
      handle == HandleOf(ii)
      b == builder.blocks[handle]
      it == Seek(b, NewIter(b), k)
  IN  IF ~Valid(builder.index, ii) THEN [saved |-> <<>>, ok |-> ii.ok]
      ELSE IF table.filtered /\ ~FilterKeyMayMatch(builder.filter.filters, handle, k)
      THEN [saved |-> <<>>, ok |-> TRUE]
      ELSE IF ~ReadBlock(table.bad, "data", handle) THEN [saved |-> <<>>, ok |-> FALSE]
      ELSE [saved |-> IF Valid(b, it) THEN it.key ELSE <<>>, ok |-> it.ok]

ApproximateOffsetOf(k) ==
  LET ii == IndexSeek(k) IN IF Valid(builder.index, ii) THEN HandleOf(ii) ELSE builder.metaindex

-----------------------------------------------------------------------------
Next ==
  \/ \E key \in InternalKeys, outcome \in Outcomes : Add(key, outcome)
  \/ \E outcome \in Outcomes, rest \in {"done", "failed"} : Finish(outcome, rest)
  \/ Abandon
  \/ \E bad \in SUBSET Parts : Cardinality(bad) <= 1 /\ Open(bad)

Spec == Init /\ [][Next]_tableVars

-----------------------------------------------------------------------------
\* The first entry at or past a key, <<>> if there is none: what a lookup is to find.
FirstFrom(k) ==
  LET from == {i \in DOMAIN added : ~Less(added[i], k)}
  IN  IF from = {} THEN <<>> ELSE added[CHOOSE i \in from : \A j \in from : i <= j]

\* Table::InternalGet hands the saver the newest entry of the key that the lookup may see, or an
\* entry of another key, or nothing, when there is none: the shortened index keys lead to the block
\* that holds it, the filter of that block's offset does not deny it, and a block that cannot be
\* read is an error, never an absent key.  ApproximateOffsetOf never decreases with the key.
TableFinds ==
  table.open =>
    /\ \A k \in SeekKeys :
         LET got == InternalGet(k)
             want == FirstFrom(k)
         IN  /\ got.ok \/ table.bad # {}
             /\ got.ok =>
                  IF want # <<>> /\ ExtractUserKey(want) = ExtractUserKey(k) THEN got.saved = want
                  ELSE got.saved = <<>> \/ ExtractUserKey(got.saved) # ExtractUserKey(k)
    /\ \A j, k \in SeekKeys : Less(j, k) => ApproximateOffsetOf(j) <= ApproximateOffsetOf(k)

\* The key of the i-th entry of a block: what the builder was given.
RECURSIVE KeyAt(_, _)
KeyAt(b, i) ==
  LET e == b.entries[i]
  IN  IF e.shared = 0 THEN e.delta ELSE SubSeq(KeyAt(b, i - 1), 1, e.shared) \o e.delta

\* An iterator is at entry i of a block, with its key, or is not valid when there is none.
IsAt(b, it, i) ==
  /\ it.ok
  /\ IF i \in 1..Len(b.entries) THEN it.at = i /\ it.key = KeyAt(b, i) ELSE ~Valid(b, it)

\* The steps of Block::Iter from an entry go to its neighbours and back again.
WalksFrom(b, it, i) ==
  /\ IsAt(b, it, i)
  /\ i \in 1..Len(b.entries) =>
       LET p == Prev(b, it)
           n == ParseNextKey(b, it)
       IN  /\ IsAt(b, p, i - 1)
           /\ IsAt(b, n, i + 1)
           /\ i > 1 => IsAt(b, ParseNextKey(b, p), i) /\ IsAt(b, Prev(b, p), i - 2)
           /\ i < Len(b.entries) => IsAt(b, Prev(b, n), i)

\* Every way to position an iterator in a block, and the steps from there.
Walks(b) ==
  /\ WalksFrom(b, SeekToFirst(b, NewIter(b)), 1)
  /\ WalksFrom(b, SeekToLast(b, NewIter(b)), Len(b.entries))
  /\ \A k \in SeekKeys :
       WalksFrom(b, Seek(b, NewIter(b), k),
                 1 + Cardinality({i \in DOMAIN b.entries : Less(KeyAt(b, i), k)}))

\* In every block Seek stops at the first entry at or past the target, SeekToFirst and SeekToLast at
\* the ends, and from there Next and Prev move by one entry in either direction, with the key
\* rebuilt from the shared prefixes, wherever the restart points fall.
BlockWalks ==
  table.open => Walks(builder.index) /\ \A o \in DOMAIN builder.blocks : Walks(builder.blocks[o])
=============================================================================
