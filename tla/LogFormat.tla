------------------------------ MODULE LogFormat ------------------------------
(***************************************************************************)
(* The record format of the write-ahead log and the MANIFEST               *)
(* (log_writer.cc, log_reader.cc): records cut into fragments at block     *)
(* boundaries, and a reader that resynchronises after damage.              *)
(*                                                                         *)
(* A file is a sequence of cells.  A physical record is a header of        *)
(* kHeaderSize = 3 cells (checksum, length, type: 4, 2 and 1 bytes in the  *)
(* code) and one cell per payload byte.  The checksum cell holds what it   *)
(* was computed from, so that it matches only the type and the payload     *)
(* that were written: a checksum that detects every change is assumed.     *)
(***************************************************************************)
EXTENDS Integers, Sequences, FiniteSets, SequencesExt

CONSTANTS kBlockSize,   \* cells in a block
          Lengths,      \* lengths of the records the writer may append
          MaxRecords    \* bound on the number of AddRecord calls

VARIABLES file,     \* the cells of the file
          recs,     \* per AddRecord call: length, where it starts and ends in the file, and
                    \* whether its last fragment is there
          writer,   \* log::Writer and its AddRecord call in progress
          damage,   \* the one thing that went wrong: an append, the file itself, or a read
          reader    \* log::Reader, its ReadRecord call in progress and its results

vars == <<file, recs, writer, damage, reader>>

kHeaderSize == 3
kZeroType == 0
kFullType == 1
kFirstType == 2
kMiddleType == 3
kLastType == 4
kEof == 5
kBadRecord == 6

Zero == <<"zero">>
Bad == <<"bad">>
Payload(k) == [i \in 1..recs[k].len |-> <<"data", k, i>>]
Header(t, p) == << <<"crc", t, p>>, <<"len", Len(p)>>, <<"type", t>> >>
\* A cell read as a length or as a type; in the place of one, any other cell reads as 0.
Number(c, kind) == IF c[1] = kind THEN c[2] ELSE 0

IdleReader ==
  [phase |-> "off", buf |-> <<>>, pos |-> 0, eof |-> FALSE, eob |-> 0, last |-> 0,
   initial |-> 0, resync |-> FALSE, fresh |-> TRUE, infrag |-> FALSE, prosp |-> 0,
   scratch |-> <<>>, out |-> <<>>, at |-> <<>>, reports |-> FALSE]

Init == /\ file = <<>>
        /\ recs = <<>>
        /\ writer = [busy |-> FALSE, left |-> 0, begin |-> TRUE, block_offset |-> 0]
        /\ damage = [kind |-> "none", at |-> 0]
        /\ reader = IdleReader

Writing == damage.kind \in {"none", "append"} /\ reader.phase = "off"

-----------------------------------------------------------------------------
(* log::Writer *)

\* AddRecord is called with a record of n bytes.
AddRecord(n) ==
  /\ Writing /\ ~writer.busy /\ Len(recs) < MaxRecords
  /\ recs' = Append(recs, [len |-> n, start |-> 0, end |-> 0, done |-> FALSE])
  /\ writer' = [writer EXCEPT !.busy = TRUE, !.left = n, !.begin = TRUE]
  /\ UNCHANGED <<file, damage, reader>>

\* The zeros that fill a block too short for a header, and the offset in the block to write at.
SwitchBlock ==
  LET leftover == kBlockSize - writer.block_offset
  IN  IF leftover < kHeaderSize
        THEN [filler |-> leftover, offset |-> 0]
        ELSE [filler |-> 0, offset |-> writer.block_offset]

FragmentType(begin, end) ==
  CASE begin /\ end  -> kFullType
    [] begin /\ ~end -> kFirstType
    [] ~begin /\ end -> kLastType
    [] OTHER         -> kMiddleType

\* One iteration of AddRecord's loop, EmitPhysicalRecord included, of which `zeros' cells of the
\* filler and `cells' cells of the physical record reach the file: all of them, unless an Append
\* or the Flush fails.  A failure of the filler's Append is not noticed, and whatever is written
\* block_offset_ moves on; AddRecord stops at an error (ok is FALSE).
EmitPhysicalRecord(zeros, cells, ok) ==
  /\ Writing /\ writer.busy
  /\ LET k == Len(recs)
         b == SwitchBlock
         avail == kBlockSize - b.offset - kHeaderSize
         n == IF writer.left < avail THEN writer.left ELSE avail
         ptr == recs[k].len - writer.left
         fragment == SubSeq(Payload(k), ptr + 1, ptr + n)
         end == writer.left = n
         physical == Header(FragmentType(writer.begin, end), fragment) \o fragment
         whole == cells = Len(physical)
     IN  /\ zeros <= b.filler /\ cells <= Len(physical) /\ (ok => whole)
         /\ IF zeros = b.filler /\ ok
              THEN UNCHANGED damage
              ELSE /\ damage.kind = "none"
                   /\ damage' = [kind |-> "append", at |-> Len(file)]
         /\ file' = file \o [i \in 1..zeros |-> Zero] \o SubSeq(physical, 1, cells)
         /\ writer' = [busy |-> ok /\ ~end, left |-> writer.left - n, begin |-> FALSE,
                       block_offset |-> b.offset + kHeaderSize + n]
         /\ recs' = [recs EXCEPT ![k].done = end /\ whole,
                                 ![k].start = IF writer.begin THEN Len(file) + zeros ELSE @,
                                 ![k].end = Len(file')]
  /\ UNCHANGED reader

\* Faulty variant of ReopenedAt: the new writer starts a block of its own.
ReopenedAtBlockStart == 0

\* Writer(dest, dest_length): where a writer that appends to an existing log starts.
ReopenedAt == Len(file) % kBlockSize

\* The process dies, between two records or between two fragments of one, and the next one
\* appends to the same log.
Reopen ==
  /\ Writing /\ (writer.busy => ~writer.begin)
  /\ writer' = [busy |-> FALSE, left |-> 0, begin |-> TRUE, block_offset |-> ReopenedAt]
  /\ UNCHANGED <<file, recs, damage, reader>>

-----------------------------------------------------------------------------
(* What may happen to the file *)

\* The values a damaged cell may take; a cell that is no number becomes unreadable.
Damaged(c) == IF c[1] = "len" THEN {<<"len", n>> : n \in 0..kBlockSize} \ {c}
              ELSE IF c[1] = "type" THEN {<<"type", t>> : t \in 0..5} \ {c}
              ELSE {Bad}

DamageCell ==
  /\ Writing /\ ~writer.busy /\ damage.kind = "none"
  /\ \E i \in DOMAIN file : \E c \in Damaged(file[i]) :
       /\ file' = [file EXCEPT ![i] = c]
       /\ damage' = [kind |-> "cell", at |-> i - 1]
  /\ UNCHANGED <<recs, writer, reader>>

\* The end of the file never reached the disk.
Truncate ==
  /\ Writing /\ ~writer.busy /\ damage.kind = "none"
  /\ \E n \in 0..(Len(file) - 1) :
       /\ file' = SubSeq(file, 1, n)
       /\ damage' = [kind |-> "cut", at |-> n]
  /\ UNCHANGED <<recs, writer, reader>>

\* Blocks were allocated to the file beyond what was written.
ZeroTail ==
  /\ Writing /\ ~writer.busy /\ damage.kind = "none"
  /\ file' = file \o [i \in 1..(2 * kBlockSize - (Len(file) % kBlockSize)) |-> Zero]
  /\ damage' = [kind |-> "zeros", at |-> 0]
  /\ UNCHANGED <<recs, writer, reader>>

-----------------------------------------------------------------------------
(* log::Reader *)

\* Reader(file, reporter, checksum = true, initial_offset)
OpenReader(o) ==
  /\ reader.phase = "off" /\ Len(recs) > 0 /\ (writer.busy => ~writer.begin)
  /\ o = 0 \/ damage.kind = "none"
  /\ reader' = [IdleReader EXCEPT !.phase = "read", !.initial = o, !.resync = o > 0]
  /\ UNCHANGED <<file, recs, writer, damage>>

\* ReportDrop: the drop counts unless it lies before initial_offset (unsigned subtraction).
ReportDrop(s, bytes) ==
  LET x == s.eob - Len(s.buf) - bytes
  IN  [s EXCEPT !.reports = @ \/ x < 0 \/ x >= s.initial]

SkipToInitialBlock(s) ==
  LET offset_in_block == s.initial % kBlockSize
      start == s.initial - offset_in_block
               + IF offset_in_block > kBlockSize - (kHeaderSize - 1) THEN kBlockSize ELSE 0
  IN  [s EXCEPT !.eob = start, !.pos = @ + start]

\* The beginning of ReadRecord.
BeginReadRecord(s) ==
  [(IF s.last < s.initial THEN SkipToInitialBlock(s) ELSE s)
     EXCEPT !.fresh = FALSE, !.scratch = <<>>, !.infrag = FALSE, !.prosp = 0]

\* ReadPhysicalRecord's read of the next block, when the rest of the buffer is a trailer.
Refill(s) ==
  IF Len(s.buf) >= kHeaderSize \/ s.eof THEN s
  ELSE LET b == SubSeq(file, s.pos + 1, Min({s.pos + kBlockSize, Len(file)}))
       IN  [s EXCEPT !.buf = b, !.pos = @ + Len(b), !.eob = @ + Len(b),
                     !.eof = Len(b) < kBlockSize]

\* "length" itself may be wrong: the rest of the buffer is dropped.
AfterMismatch(s) == ReportDrop([s EXCEPT !.buf = <<>>], Len(s.buf))

\* The record is longer than the buffer: at the end of the file its writer died, elsewhere the
\* length is wrong.
AfterOverrun(s) ==
  IF s.eof THEN [type |-> kEof, s |-> [s EXCEPT !.buf = <<>>]]
  ELSE [type |-> kBadRecord, s |-> ReportDrop([s EXCEPT !.buf = <<>>], Len(s.buf))]

\* ReadPhysicalRecord: the record type, the fragment and the reader after it.
ReadPhysicalRecord(s0) ==
  LET s == Refill(s0)
      Is(t, f, after) == [type |-> t, fragment |-> f, s |-> after]
      dropped == [s EXCEPT !.buf = <<>>]
  IN  IF Len(s.buf) < kHeaderSize THEN Is(kEof, <<>>, dropped)
      ELSE
      LET length == Number(s.buf[2], "len")
          type == Number(s.buf[3], "type")
          payload == SubSeq(s.buf, kHeaderSize + 1, kHeaderSize + length)
          rest == SubSeq(s.buf, kHeaderSize + length + 1, Len(s.buf))
      IN  CASE kHeaderSize + length > Len(s.buf) ->
                 Is(AfterOverrun(s).type, <<>>, AfterOverrun(s).s)
            [] type = kZeroType /\ length = 0 -> Is(kBadRecord, <<>>, dropped)
            [] s.buf[1] # <<"crc", type, payload>> -> Is(kBadRecord, <<>>, AfterMismatch(s))
            [] s.eob - Len(s.buf) < s.initial -> Is(kBadRecord, <<>>, [s EXCEPT !.buf = rest])
            [] OTHER -> Is(type, payload, [s EXCEPT !.buf = rest])

\* ReadRecord returns a record found at offset o.
Return(s, record, o) ==
  [s EXCEPT !.fresh = TRUE, !.last = o, !.out = Append(@, record), !.at = Append(@, o)]

\* Faulty variant of DropPartial: a record cut off by a new one is kept and added to.
DropPartialKept(s) == s

\* A new record starts while another one is unfinished.
DropPartial(s) ==
  IF ~s.infrag THEN s
  ELSE IF s.scratch = <<>> THEN [s EXCEPT !.infrag = FALSE]
  ELSE [ReportDrop(s, Len(s.scratch)) EXCEPT !.scratch = <<>>]

OnMiddle(s, f) == IF s.infrag THEN [s EXCEPT !.scratch = @ \o f] ELSE ReportDrop(s, Len(f))

OnLast(s, f) == IF s.infrag THEN Return(s, s.scratch \o f, s.prosp) ELSE ReportDrop(s, Len(f))

OnBad(s) ==
  IF s.infrag
    THEN [ReportDrop(s, Len(s.scratch)) EXCEPT !.infrag = FALSE, !.scratch = <<>>]
    ELSE s

OnUnknown(s, f) ==
  [ReportDrop(s, Len(f) + IF s.infrag THEN Len(s.scratch) ELSE 0)
     EXCEPT !.infrag = FALSE, !.scratch = <<>>]

\* The switch of ReadRecord, for a physical record read at offset o.
Dispatch(s, type, f, o) ==
  CASE type = kFullType   -> Return(DropPartial(s), f, o)
    [] type = kFirstType  -> LET d == DropPartial(s)
                             IN  [d EXCEPT !.prosp = o, !.scratch = @ \o f, !.infrag = TRUE]
    [] type = kMiddleType -> OnMiddle(s, f)
    [] type = kLastType   -> OnLast(s, f)
    [] type = kEof        -> [s EXCEPT !.phase = "done", !.scratch = <<>>]
    [] type = kBadRecord  -> OnBad(s)
    [] OTHER              -> OnUnknown(s, f)

\* One iteration of ReadRecord's loop; the caller calls ReadRecord until it returns false.
ReadRecord ==
  /\ reader.phase = "read"
  /\ LET s0 == IF reader.fresh THEN BeginReadRecord(reader) ELSE reader
         p == ReadPhysicalRecord(s0)
         s == p.s
     IN  reader' = IF s.resync /\ p.type \in {kMiddleType, kLastType}
                     THEN [s EXCEPT !.resync = p.type = kMiddleType]
                     ELSE Dispatch([s EXCEPT !.resync = FALSE], p.type, p.fragment,
                                   s0.eob - Len(s0.buf))
  /\ UNCHANGED <<file, recs, writer, damage>>

\* The read of the next block fails: the reader reports the block and takes it for the end.  Or
\* the Skip to the initial block does.
ReadFails ==
  /\ reader.phase = "read" /\ damage.kind = "none"
  /\ LET s == IF reader.fresh THEN BeginReadRecord(reader) ELSE reader
         Fails(bytes) == [ReportDrop([s EXCEPT !.buf = <<>>], bytes)
                            EXCEPT !.eof = TRUE, !.phase = "done", !.scratch = <<>>]
     IN  \/ Len(s.buf) < kHeaderSize /\ ~s.eof /\ reader' = Fails(kBlockSize)
         \/ reader.fresh /\ s.pos > reader.pos /\ reader' = Fails(s.pos - reader.pos)
  /\ damage' = [kind |-> "unread", at |-> reader.pos]
  /\ UNCHANGED <<file, recs, writer>>

Next == \/ \E n \in Lengths : AddRecord(n)
        \/ \E zeros \in 0..kHeaderSize - 1, cells \in 0..kBlockSize, ok \in BOOLEAN :
             EmitPhysicalRecord(zeros, cells, ok)
        \/ Reopen
        \/ DamageCell
        \/ Truncate
        \/ ZeroTail
        \/ \E o \in 0..Len(file) : OpenReader(o)
        \/ ReadRecord
        \/ ReadFails

Spec == Init /\ [][Next]_vars

-----------------------------------------------------------------------------
Completed == SelectSeq([k \in DOMAIN recs |-> k], LAMBDA k : recs[k].done)
Read == reader.phase = "done"
\* Record k, or a copy of it if it is empty, was returned.
Returned(k) == \E i \in DOMAIN reader.out : reader.out[i] = Payload(k)
Payloads(ks) == [i \in DOMAIN ks |-> Payload(ks[i])]

\* A file that was only written is read back exactly: every completed record, in
\* order, whatever the lengths, the block boundaries, and records cut off by a
\* crash of the writer that appended before; from an initial offset, the same for
\* the records that begin at or after it.  A file that was cut off is read up to
\* the cut, and the torn record is the end of the file, not a corruption; one that
\* cannot be read further is read up to there.  An append that failed, and all that
\* is written after it, costs none of the records before it.
ReadsBack ==
  LET cut == damage.kind = "cut"
      Expected(k) == recs[k].start >= reader.initial
                       /\ (damage.kind \in {"cut", "unread", "append"} => recs[k].end <= damage.at)
      expected == Payloads(SelectSeq(Completed, Expected))
  IN  Read /\ damage.kind # "cell"
        => /\ IF damage.kind = "append" THEN IsPrefix(expected, reader.out)
                                        ELSE reader.out = expected
           /\ cut /\ (\A k \in DOMAIN recs : recs[k].done) => ~reader.reports

\* However the file is damaged, and whatever is appended after an append that failed, the
\* reader returns only records all of which reached the file, in the order they were written,
\* never one glued together from two; and one damaged cell costs at most the records that have
\* a cell in its block.
DamageContained ==
  /\ \E f \in [DOMAIN reader.out -> {k \in DOMAIN recs : recs[k].done}] :
       /\ \A i \in DOMAIN f : reader.out[i] = Payload(f[i])
       /\ \A i, j \in DOMAIN f : i < j => f[i] < f[j]
  /\ Read /\ damage.kind = "cell"
       => \A k \in DOMAIN recs :
            \/ ~recs[k].done \/ Returned(k)
            \/ damage.at \div kBlockSize
                 \in (recs[k].start \div kBlockSize)..((recs[k].end - 1) \div kBlockSize)
=============================================================================
