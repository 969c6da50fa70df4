------------------------------- MODULE Encodings -------------------------------
(***************************************************************************)
(* The images that are written to files and parsed back: variable length   *)
(* integers and length prefixed strings (coding.cc), VersionEdit           *)
(* (version_edit.cc) and WriteBatch (write_batch.cc), each built up by the *)
(* calls its users make.                                                   *)
(*                                                                         *)
(* A byte holds a digit below Base (2^7 in the code) and a continuation    *)
(* bit of weight Base.                                                     *)
(***************************************************************************)
EXTENDS Integers, Sequences, SequencesExt

CONSTANTS Base,
          Word32, Groups32,    \* values of a uint32_t, and the digits its decoder takes
          Word64, Groups64,
          kNumLevels,
          Numbers,             \* the numbers an edit is given
          Strings,             \* keys, values and comparator names
          MaxFields, MaxOps    \* bounds on an edit and on a batch

VARIABLES edit,    \* VersionEdit
          batch,   \* WriteBatch: the header's count, and the bytes after the header
          ops      \* what was put into the batch

imageVars == <<edit, batch, ops>>

-----------------------------------------------------------------------------
(* coding.cc *)

RECURSIVE EncodeVarint(_)
EncodeVarint(v) == IF v < Base THEN <<v>> ELSE <<(v % Base) + Base>> \o EncodeVarint(v \div Base)

Parsed(value, rest) == [ok |-> TRUE, value |-> value, rest |-> rest]
Unparsed(rest) == [ok |-> FALSE, value |-> 0, rest |-> rest]

\* The digits of input, least significant first; bits beyond the word are lost.
RECURSIVE GetDigits(_, _, _, _, _)
GetDigits(input, groups, word, weight, result) ==
  IF groups = 0 \/ input = <<>> THEN Unparsed(input)
  ELSE LET sum == (result + (Head(input) % Base) * weight) % word
       IN  IF Head(input) >= Base THEN GetDigits(Tail(input), groups - 1, word, weight * Base, sum)
           ELSE Parsed(sum, Tail(input))

\* What is left of the input when a number cannot be parsed is all of it.
GetVarint32(input) ==
  LET g == GetDigits(input, Groups32, Word32, 1, 0) IN IF g.ok THEN g ELSE Unparsed(input)

\* Faulty variant of GetVarint64: the limit of the 32 bit decoder.
GetVarint64Short(input) ==
  LET g == GetDigits(input, Groups32, Word64, 1, 0) IN IF g.ok THEN g ELSE Unparsed(input)

GetVarint64(input) ==
  LET g == GetDigits(input, Groups64, Word64, 1, 0) IN IF g.ok THEN g ELSE Unparsed(input)

PutLengthPrefixedSlice(s) == EncodeVarint(Len(s)) \o s

GetLengthPrefixedSlice(input) ==
  LET len == GetVarint32(input)
  IN  IF len.ok /\ Len(len.rest) >= len.value
      THEN Parsed(SubSeq(len.rest, 1, len.value), SubSeq(len.rest, len.value + 1, Len(len.rest)))
      ELSE Unparsed(len.rest)

-----------------------------------------------------------------------------
(* VersionEdit *)

Absent == <<>>

NewEdit == [comparator |-> Absent, log |-> Absent, prev |-> Absent, next |-> Absent, last |-> Absent,
            pointers |-> <<>>, deleted |-> {}, files |-> <<>>]

\* VersionEdit::Clear leaves the compaction pointers.
Clear(e) == [NewEdit EXCEPT !.pointers = e.pointers]

Tagged(tag, present, image) == IF present = Absent THEN <<>> ELSE EncodeVarint(tag) \o image

NumberField(tag, field) == Tagged(tag, field, IF field = Absent THEN <<>> ELSE EncodeVarint(field[1]))

DeletedBefore(a, b) == a[1] < b[1] \/ (a[1] = b[1] /\ a[2] < b[2])

EncodeEdit(e) ==
  Tagged(1, e.comparator, IF e.comparator = Absent THEN <<>> ELSE PutLengthPrefixedSlice(e.comparator[1]))
    \o NumberField(2, e.log) \o NumberField(9, e.prev)
    \o NumberField(3, e.next) \o NumberField(4, e.last)
    \o FlattenSeq([i \in DOMAIN e.pointers |->
         EncodeVarint(5) \o EncodeVarint(e.pointers[i][1]) \o PutLengthPrefixedSlice(e.pointers[i][2])])
    \o FlattenSeq([i \in 1..Cardinality(e.deleted) |->
         LET d == SetToSortSeq(e.deleted, DeletedBefore)[i]
         IN  EncodeVarint(6) \o EncodeVarint(d[1]) \o EncodeVarint(d[2])])
    \o FlattenSeq([i \in DOMAIN e.files |->
         LET f == e.files[i]
         IN  EncodeVarint(7) \o EncodeVarint(f.level) \o EncodeVarint(f.number) \o EncodeVarint(f.size)
               \o PutLengthPrefixedSlice(f.smallest) \o PutLengthPrefixedSlice(f.largest)])

GetLevel(input) ==
  LET v == GetVarint32(input) IN IF v.ok /\ v.value < kNumLevels THEN v ELSE Unparsed(v.rest)

\* The parts of a field, each parsed from what the one before it left.
RECURSIVE ParseParts(_, _)
ParseParts(kinds, input) ==
  IF kinds = <<>> THEN Parsed(<<>>, input)
  ELSE LET first == CASE Head(kinds) = "level" -> GetLevel(input)
                      [] Head(kinds) = "number" -> GetVarint64(input)
                      [] Head(kinds) = "slice" -> GetLengthPrefixedSlice(input)
           others == ParseParts(Tail(kinds), first.rest)
       IN  IF first.ok /\ others.ok THEN Parsed(<<first.value>> \o others.value, others.rest)
           ELSE Unparsed(input)

PartsOf(tag) ==
  CASE tag = 1 -> <<"slice">>
    [] tag \in {2, 3, 4, 9} -> <<"number">>
    [] tag = 5 -> <<"level", "slice">>
    [] tag = 6 -> <<"level", "number">>
    [] tag = 7 -> <<"level", "number", "number", "slice", "slice">>

\* The edit with a field that was parsed.
WithField(e, tag, v) ==
  CASE tag = 1 -> [e EXCEPT !.comparator = v]
    [] tag = 2 -> [e EXCEPT !.log = v]
    [] tag = 3 -> [e EXCEPT !.next = v]
    [] tag = 4 -> [e EXCEPT !.last = v]
    [] tag = 5 -> [e EXCEPT !.pointers = Append(@, v)]
    [] tag = 6 -> [e EXCEPT !.deleted = @ \cup {v}]
    [] tag = 7 -> [e EXCEPT !.files = Append(@, [level |-> v[1], number |-> v[2], size |-> v[3],
                                                 smallest |-> v[4], largest |-> v[5]])]
    [] tag = 9 -> [e EXCEPT !.prev = v]

\* VersionEdit::DecodeFrom: fields until no tag can be read, when nothing must be left.
RECURSIVE DecodeFields(_, _)
DecodeFields(e, input) ==
  LET tag == GetVarint32(input)
      parts == ParseParts(PartsOf(tag.value), tag.rest)
  IN  IF ~tag.ok THEN [ok |-> input = <<>>, edit |-> e]
      ELSE IF tag.value \notin {1, 2, 3, 4, 5, 6, 7, 9} THEN [ok |-> FALSE, edit |-> e]
      ELSE IF ~parts.ok THEN [ok |-> FALSE, edit |-> e]
      ELSE DecodeFields(WithField(e, tag.value, parts.value), parts.rest)

DecodeEdit(into, input) == DecodeFields(Clear(into), input)

-----------------------------------------------------------------------------
(* WriteBatch *)

kTypeDeletion == 0
kTypeValue == 1

NewBatch == [count |-> 0, body |-> <<>>]

PutBatch(b, key, value) ==
  [count |-> b.count + 1,
   body |-> b.body \o <<kTypeValue>> \o PutLengthPrefixedSlice(key) \o PutLengthPrefixedSlice(value)]

DeleteBatch(b, key) ==
  [count |-> b.count + 1, body |-> b.body \o <<kTypeDeletion>> \o PutLengthPrefixedSlice(key)]

\* WriteBatchInternal::Append.
AppendBatch(dst, src) == [count |-> dst.count + src.count, body |-> dst.body \o src.body]

\* WriteBatch::Iterate: calls the handler for every operation up to the first that cannot be parsed.
RECURSIVE IterateFrom(_, _, _)
IterateFrom(count, input, handled) ==
  LET key == GetLengthPrefixedSlice(Tail(input))
      value == GetLengthPrefixedSlice(key.rest)
  IN  IF input = <<>> THEN [ok |-> Len(handled) = count, handled |-> handled]
      ELSE IF Head(input) = kTypeValue /\ key.ok /\ value.ok
      THEN IterateFrom(count, value.rest, Append(handled, <<key.value, value.value>>))
      ELSE IF Head(input) = kTypeDeletion /\ key.ok
      THEN IterateFrom(count, key.rest, Append(handled, <<key.value>>))
      ELSE [ok |-> FALSE, handled |-> handled]

Iterate(b) == IterateFrom(b.count, b.body, <<>>)

-----------------------------------------------------------------------------
Init == edit = NewEdit /\ batch = NewBatch /\ ops = <<>>

Fields(e) ==
  Len(e.comparator) + Len(e.log) + Len(e.prev) + Len(e.next) + Len(e.last)
    + Len(e.pointers) + Cardinality(e.deleted) + Len(e.files)

Editing(e) == Fields(edit) < MaxFields /\ ops = <<>> /\ edit' = e /\ UNCHANGED <<batch, ops>>

SetComparatorName(s) == Editing([edit EXCEPT !.comparator = <<s>>])
SetLogNumber(n) == Editing([edit EXCEPT !.log = <<n>>])
SetPrevLogNumber(n) == Editing([edit EXCEPT !.prev = <<n>>])
SetNextFile(n) == Editing([edit EXCEPT !.next = <<n>>])
SetLastSequence(n) == Editing([edit EXCEPT !.last = <<n>>])
SetCompactPointer(level, key) == Editing([edit EXCEPT !.pointers = Append(@, <<level, key>>)])
DeleteFile(level, n) == Editing([edit EXCEPT !.deleted = @ \cup {<<level, n>>}])
AddFile(level, n, smallest, largest) ==
  Editing([edit EXCEPT !.files = Append(@, [level |-> level, number |-> n, size |-> n,
                                            smallest |-> smallest, largest |-> largest])])

Batching(b, added) ==
  /\ Len(ops) + Len(added) <= MaxOps /\ edit = NewEdit
  /\ batch' = b /\ ops' = ops \o added /\ UNCHANGED edit

Put(key, value) == Batching(PutBatch(batch, key, value), <<<<key, value>>>>)
Delete(key) == Batching(DeleteBatch(batch, key), <<<<key>>>>)
AppendGroup(key) ==
  Batching(AppendBatch(batch, DeleteBatch(PutBatch(NewBatch, key, key), key)), <<<<key, key>>, <<key>>>>)

Next ==
  \/ \E n \in Numbers :
       SetLogNumber(n) \/ SetPrevLogNumber(n) \/ SetNextFile(n) \/ SetLastSequence(n)
  \/ \E s \in Strings : SetComparatorName(s)
  \/ \E level \in 0..(kNumLevels - 1), s \in Strings : SetCompactPointer(level, s)
  \/ \E level \in 0..(kNumLevels - 1), n \in Numbers :
       DeleteFile(level, n) \/ \E s, t \in Strings : AddFile(level, n, s, t)
  \/ \E s \in Strings : Delete(s) \/ AppendGroup(s) \/ \E t \in Strings : Put(s, t)

Spec == Init /\ [][Next]_imageVars

-----------------------------------------------------------------------------
\* An edit decodes to itself from its image, every number and string included, and a truncated image
\* that DecodeFrom accepts is the whole image of what it decodes to: none is taken for another edit.
EditDecodes ==
  LET image == EncodeEdit(edit)
  IN  /\ DecodeEdit(NewEdit, image) = [ok |-> TRUE, edit |-> edit]
      /\ \A cut \in Prefixes(image) :
           LET d == DecodeEdit(NewEdit, cut) IN d.ok => EncodeEdit(d.edit) = cut

\* A batch is replayed as it was put together, also from parts by BuildBatchGroup's Append, and no
\* truncated batch is taken for a whole one; what is replayed of it is its first operations.
BatchReplays ==
  /\ Iterate(batch) = [ok |-> TRUE, handled |-> ops]
  /\ \A cut \in Prefixes(batch.body) \ {batch.body} :
       LET r == Iterate([batch EXCEPT !.body = cut]) IN ~r.ok /\ IsPrefix(r.handled, ops)

\* Every image is parsed back to what it was made of, and no truncated one is taken for another.
ImagesReadBack == EditDecodes /\ BatchReplays
=============================================================================
