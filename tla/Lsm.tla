-------------------------------- MODULE Lsm --------------------------------
(***************************************************************************)
(* Where the entries of the database live: the memtables, the level-0      *)
(* files and the sorted levels of the current Version, and the work that   *)
(* moves them: flushes (WriteLevel0Table, PickLevelForMemTableOutput),     *)
(* automatic and manual compactions (PickCompaction, CompactRange,         *)
(* SetupOtherInputs, DoCompactionWork, InstallCompactionResults), trivial  *)
(* moves, snapshots, and the lookup of Version::Get.                       *)
(*                                                                         *)
(* An entry is an internal key [key, seq, del]; the value is named by its  *)
(* sequence number.  A file is a nonempty set of entries; smallest and     *)
(* largest are its ends in the order of InternalKeyComparator.  Level 0    *)
(* has its files by number, the other levels are sets of files.  File      *)
(* sizes are not modelled: every decision the code takes by comparing      *)
(* bytes is a free choice here.  Only the background thread changes the    *)
(* version, so a flush is one step, and a compaction is two:               *)
(* DoCompactionWork releases the mutex, and a flush (the nested            *)
(* CompactMemTable), writes and snapshots may come between.                *)
(***************************************************************************)
EXTENDS Integers, FiniteSets, FiniteSetsExt

CONSTANTS
  Keys,            \* user keys, in their order
  MaxSeq,          \* bound: number of writes
  MaxMemLevel,     \* config::kMaxMemCompactLevel
  Modes            \* bound: what may happen in one behaviour, see Mode

\* The keys that are written, kNumLevels, the number of snapshots held at the same time, and
\* whether manual compactions run, a flush runs inside a compaction, and an output file may
\* end inside the entries of a user key.
Mode == [keys : SUBSET Keys, levels : Nat, snapshots : Nat,
         manual : BOOLEAN, nested : BOOLEAN, split : BOOLEAN]

ASSUME LsmAssumption ==
  /\ Keys \subseteq Nat /\ MaxSeq \in Nat
  /\ \A m \in Modes : m \in Mode /\ m.levels >= 2 /\ MaxMemLevel \in 0..(m.levels - 1)

VARIABLES
  mem, imm,        \* mem_ and imm_: sets of entries ({} when imm_ is NULL)
  level0,          \* files_[0] of the current version: number -> file
  levels,          \* files_[1] .. files_[NumLevels - 1]
  lastSequence,
  snapshots,       \* sequence numbers of the live snapshots
  compaction,      \* the compaction DoCompactionWork is running, or NoCompaction
  history,         \* every entry ever written
  mode             \* what may happen in this behaviour

vars == <<mem, imm, level0, levels, lastSequence, snapshots, compaction, history, mode>>

\* config::kNumLevels
NumLevels == mode.levels

NoCompaction == [level |-> -1]

Init ==
  /\ mode \in Modes
  /\ mem = {} /\ imm = {}
  /\ level0 = <<>>
  /\ levels = [l \in 1..(NumLevels - 1) |-> {}]
  /\ lastSequence = 0
  /\ snapshots = {}
  /\ compaction = NoCompaction
  /\ history = {}

-----------------------------------------------------------------------------
(* Internal keys and files.                                                *)

\* InternalKeyComparator: user keys ascending, sequence numbers descending.
Before(a, b) == a.key < b.key \/ (a.key = b.key /\ a.seq > b.seq)

Smallest(f) == CHOOSE a \in f : \A b \in f : ~Before(b, a)
Largest(f) == CHOOSE a \in f : \A b \in f : ~Before(a, b)

\* The user keys that GetRange finds for a set of files.
RangeBegin(fs) == Min({Smallest(f).key : f \in fs})
RangeEnd(fs) == Max({Largest(f).key : f \in fs})

\* AfterFile and BeforeFile are both false.
Overlaps(f, begin, end) == Smallest(f).key <= end /\ begin <= Largest(f).key

Files(l) == IF l = 0 THEN {level0[n] : n \in DOMAIN level0} ELSE levels[l]

\* Version::OverlapInLevel.
OverlapInLevel(l, begin, end) == \E f \in Files(l) : Overlaps(f, begin, end)

\* Version::GetOverlappingInputs: at level 0 a file that sticks out widens the
\* range and the search starts again, until the range stops growing.
GetOverlappingInputs(l, begin, end) ==
  LET Hits(b, e) == {f \in Files(l) : Overlaps(f, b, e)}
      Closed(b, e) == \A f \in Hits(b, e) : b <= Smallest(f).key /\ Largest(f).key <= e
      Begins == {b \in Keys \cup {begin} : b <= begin}
      Ends == {e \in Keys \cup {end} : end <= e}
      Ranges == {r \in Begins \X Ends : Closed(r[1], r[2])}
  IN  IF l = 0 THEN Hits(Max({r[1] : r \in Ranges}), Min({r[2] : r \in Ranges}))
      ELSE Hits(begin, end)

-----------------------------------------------------------------------------
(* Clients.                                                                *)

Write(k, del) ==
  /\ lastSequence < MaxSeq /\ k \in mode.keys
  /\ LET e == [key |-> k, seq |-> lastSequence + 1, del |-> del]
     IN  mem' = mem \cup {e} /\ history' = history \cup {e}
  /\ lastSequence' = lastSequence + 1
  /\ UNCHANGED <<imm, level0, levels, snapshots, compaction, mode>>

\* MakeRoomForWrite makes the memtable immutable.
SwitchMemTable ==
  /\ mem # {} /\ imm = {}
  /\ imm' = mem /\ mem' = {}
  /\ UNCHANGED <<level0, levels, lastSequence, snapshots, compaction, history, mode>>

GetSnapshot ==
  /\ Cardinality(snapshots) < mode.snapshots
  /\ lastSequence \notin snapshots
  /\ snapshots' = snapshots \cup {lastSequence}
  /\ UNCHANGED <<mem, imm, level0, levels, lastSequence, compaction, history, mode>>

ReleaseSnapshot(s) ==
  /\ s \in snapshots
  /\ snapshots' = snapshots \ {s}
  /\ UNCHANGED <<mem, imm, level0, levels, lastSequence, compaction, history, mode>>

-----------------------------------------------------------------------------
(* Flushing a memtable.                                                    *)

\* Faulty variant of MemTableOutputLevels: does not look at the level it moves into.
MemTableOutputLevelsUnchecked(f) ==
  LET begin == Smallest(f).key
      end == Largest(f).key
      Over(l) == l < NumLevels /\ OverlapInLevel(l, begin, end)
  IN  {l \in 0..MaxMemLevel :
         /\ l > 0 => \A j \in 0..(l - 1) : ~Over(j)
         /\ \/ l = 0 /\ Over(0)
            \/ l = MaxMemLevel \/ Over(l + 1) \/ Over(l + 2)}

\* The levels PickLevelForMemTableOutput may return for a file: it moves down
\* while the next level has no overlap, and may stop early above a level with
\* overlapping (grandparent) files.
MemTableOutputLevels(f) ==
  LET begin == Smallest(f).key
      end == Largest(f).key
      Over(l) == l < NumLevels /\ OverlapInLevel(l, begin, end)
  IN  {l \in 0..MaxMemLevel :
         /\ l > 0 => \A j \in 0..l : ~Over(j)
         /\ \/ l = 0 /\ Over(0)
            \/ l = MaxMemLevel \/ Over(l + 1) \/ Over(l + 2)}

\* NewFileNumber: above every number in use (only their order matters).
NewFileNumber == Max({0} \cup DOMAIN level0) + 1

\* CompactMemTable: WriteLevel0Table and LogAndApply.
CompactMemTable ==
  /\ imm # {}
  /\ compaction = NoCompaction \/ mode.nested
  /\ \E l \in MemTableOutputLevels(imm) :
       IF l = 0
       THEN /\ level0' = [n \in DOMAIN level0 \cup {NewFileNumber} |->
                            IF n = NewFileNumber THEN imm ELSE level0[n]]
            /\ UNCHANGED levels
       ELSE levels' = [levels EXCEPT ![l] = @ \cup {imm}] /\ UNCHANGED level0
  /\ imm' = {}
  /\ UNCHANGED <<mem, lastSequence, snapshots, compaction, history, mode>>

-----------------------------------------------------------------------------
(* Choosing the inputs of a compaction.                                    *)

\* SetupOtherInputs: the overlapping files of the next level, and more files
\* of this level if that adds none to the next one (and the sizes allow it).
SetupOtherInputs(l, in0) ==
  LET in1 == GetOverlappingInputs(l + 1, RangeBegin(in0), RangeEnd(in0))
      all == in0 \cup in1
      expanded0 == GetOverlappingInputs(l, RangeBegin(all), RangeEnd(all))
      expanded1 == GetOverlappingInputs(l + 1, RangeBegin(expanded0), RangeEnd(expanded0))
      expands == /\ in1 # {}
                 /\ Cardinality(expanded0) > Cardinality(in0)
                 /\ Cardinality(expanded1) = Cardinality(in1)
  IN  {<<in0, in1>>} \cup (IF expands THEN {<<expanded0, expanded1>>} ELSE {})

\* Faulty variant of PickCompaction: at level 0 the overlapping files stay behind.
PickCompactionOneFile(l) ==
  {{f} : f \in Files(l)}

\* PickCompaction starts from one file of a level: the one after the compact
\* pointer of a level that is too big, or one that was seeked too often.
PickCompaction(l) ==
  {IF l = 0 THEN GetOverlappingInputs(0, Smallest(f).key, Largest(f).key) ELSE {f}
     : f \in Files(l)}

\* VersionSet::CompactRange: below level 0 the inputs are cut off at a size.
CompactRange(l, begin, end) ==
  LET inputs == GetOverlappingInputs(l, begin, end)
      Prefix(fs) == \A f \in fs, g \in inputs : Before(Smallest(g), Smallest(f)) => g \in fs
  IN  IF l = 0 THEN {inputs} \ {{}}
      ELSE {fs \in SUBSET inputs : fs # {} /\ Prefix(fs)}

\* Files of the levels below the outputs of a compaction of level l.
Grandparents(l) == UNION {levels[j] : j \in (l + 2)..(NumLevels - 1)}

GrandparentOverlap(l, in0) ==
  l + 2 < NumLevels /\ OverlapInLevel(l + 2, RangeBegin(in0), RangeEnd(in0))

-----------------------------------------------------------------------------
(* Running a compaction.                                                   *)

\* DoCompactionWork up to the release of the mutex: the inputs, the version
\* IsBaseLevelForKey looks at and smallest_snapshot are fixed here.
StartWork(l, inputs) ==
  /\ compaction' = [level |-> l, in0 |-> inputs[1], in1 |-> inputs[2],
                    deeper |-> Grandparents(l),
                    smallestSnapshot |-> IF snapshots = {} THEN lastSequence
                                         ELSE Min(snapshots)]
  /\ UNCHANGED <<mem, imm, level0, levels, lastSequence, snapshots, history, mode>>

\* Faulty variant of MayCompact: a compaction starts while another one runs.
MayCompactAgain == imm = {}

MayCompact == compaction = NoCompaction /\ imm = {}

StartCompaction(l) ==
  /\ MayCompact
  /\ \E in0 \in PickCompaction(l) : \E inputs \in SetupOtherInputs(l, in0) :
       /\ \/ Cardinality(inputs[1]) > 1 \/ inputs[2] # {}
          \/ GrandparentOverlap(l, inputs[1])
       /\ StartWork(l, inputs)

StartManualCompaction(l) ==
  /\ MayCompact /\ mode.manual
  /\ \E begin, end \in mode.keys : \E in0 \in CompactRange(l, begin, end) :
       \E inputs \in SetupOtherInputs(l, in0) : StartWork(l, inputs)

\* Level 0 without the files fs.
RemoveInputs(fs) == [n \in {m \in DOMAIN level0 : level0[m] \notin fs} |-> level0[n]]

\* Trivial move: the only input goes to the next level as it is.
TrivialMove(l) ==
  /\ MayCompact
  /\ \E in0 \in PickCompaction(l) :
       /\ Cardinality(in0) = 1 /\ <<in0, {}>> \in SetupOtherInputs(l, in0)
       /\ level0' = RemoveInputs(IF l = 0 THEN in0 ELSE {})
       /\ levels' = [j \in DOMAIN levels |->
                       (levels[j] \ (IF j = l THEN in0 ELSE {}))
                       \cup (IF j = l + 1 THEN in0 ELSE {})]
  /\ UNCHANGED <<mem, imm, lastSequence, snapshots, compaction, history, mode>>

\* Rule (A): hidden by a newer entry that every snapshot sees.
Hidden(e, c) ==
  \E n \in UNION (c.in0 \cup c.in1) :
    n.key = e.key /\ n.seq > e.seq /\ n.seq <= c.smallestSnapshot

\* Faulty variant of IsBaseLevelForKey: the deeper levels are not looked at.
IsBaseLevelAlways(k, c) == k \in Keys /\ c # NoCompaction

IsBaseLevelForKey(k, c) == \A f \in c.deeper : ~Overlaps(f, k, k)

ObsoleteDeletion(e, c) ==
  e.del /\ e.seq <= c.smallestSnapshot /\ IsBaseLevelForKey(e.key, c)

\* The entries the loop of DoCompactionWork writes out.
Kept(c) ==
  {e \in UNION (c.in0 \cup c.in1) : ~Hidden(e, c) /\ ~ObsoleteDeletion(e, c)}

\* An output file may be finished after any entry (by its size, or by
\* ShouldStopBefore).
CutPoints(kept) ==
  {e \in kept : mode.split \/ \A d \in kept : Before(e, d) => d.key # e.key}

\* The output files when files are finished after the entries in cuts.
Outputs(kept, cuts) ==
  {{e \in kept : ~Before(c, e) /\ \A d \in cuts : Before(d, c) => Before(d, e)}
     : c \in cuts \cup (IF kept = {} THEN {} ELSE {Largest(kept)})}

\* InstallCompactionResults: delete the inputs, add the outputs one level down.
FinishCompaction ==
  /\ compaction # NoCompaction
  /\ LET c == compaction
         kept == Kept(c)
     IN  \E cuts \in SUBSET CutPoints(kept) :
           /\ level0' = RemoveInputs(IF c.level = 0 THEN c.in0 ELSE {})
           /\ levels' = [j \in DOMAIN levels |->
                           (levels[j] \ ((IF j = c.level THEN c.in0 ELSE {})
                                         \cup (IF j = c.level + 1 THEN c.in1 ELSE {})))
                           \cup (IF j = c.level + 1 THEN Outputs(kept, cuts) ELSE {})]
  /\ compaction' = NoCompaction
  /\ UNCHANGED <<mem, imm, lastSequence, snapshots, history, mode>>

-----------------------------------------------------------------------------
Next ==
  \/ \E k \in Keys, del \in BOOLEAN : Write(k, del)
  \/ SwitchMemTable
  \/ GetSnapshot
  \/ \E s \in snapshots : ReleaseSnapshot(s)
  \/ CompactMemTable
  \/ \E l \in 0..(NumLevels - 2) :
       StartCompaction(l) \/ StartManualCompaction(l) \/ TrivialMove(l)
  \/ FinishCompaction

Spec == Init /\ [][Next]_vars

-----------------------------------------------------------------------------
(* Reading: DBImpl::Get and Version::Get.                                  *)

\* The entries of a memtable or file that MemTable::Get or a table lookup for
\* key k at sequence number s may find; it finds the newest.
Versions(f, k, s) == {e \in f : e.key = k /\ e.seq <= s}
Newest(es) == CHOOSE e \in es : \A d \in es : d.seq <= e.seq

\* Below level 0, FindFile returns the first file whose largest key is not
\* before the lookup key; it is searched if it does not start after k.
LevelFile(l, k, s) ==
  LET probe == [key |-> k, seq |-> s]
      after == {f \in levels[l] : ~Before(Largest(f), probe)}
      first == CHOOSE f \in after : \A g \in after : ~Before(Largest(g), Largest(f))
  IN  IF after = {} \/ Smallest(first).key > k THEN {} ELSE first

ValueOf(e) == IF e.del THEN 0 ELSE e.seq

\* What the lookup in one memtable or file returns.
ValueIn(f, k, s) == ValueOf(Newest(Versions(f, k, s)))

\* Version::Get: the files of level 0 from the newest, and one file of each other level, until one
\* has an entry for k.
VersionGet(k, s) ==
  LET Has(f) == Versions(f, k, s) # {}
      hits0 == {n \in DOMAIN level0 : Has(level0[n])}
      hits == {l \in DOMAIN levels : Has(LevelFile(l, k, s))}
  IN  IF hits0 # {} THEN ValueIn(level0[Max(hits0)], k, s)
      ELSE IF hits # {} THEN ValueIn(LevelFile(Min(hits), k, s), k, s)
      ELSE 0

\* DBImpl::Get at sequence number s: the memtables, then the current version.
Get(k, s) ==
  IF Versions(mem, k, s) # {} THEN ValueIn(mem, k, s)
  ELSE IF Versions(imm, k, s) # {} THEN ValueIn(imm, k, s)
  ELSE VersionGet(k, s)

\* What the writes up to s left under k; 0 when there is nothing.
Expected(k, s) ==
  LET es == Versions(history, k, s) IN IF es = {} THEN 0 ELSE ValueOf(Newest(es))

-----------------------------------------------------------------------------
\* A read returns the newest value written at or before its sequence number,
\* for reads of the latest state and of every live snapshot, whatever flushes
\* and compactions have moved, merged or dropped (rule (A), obsolete deletions).
ReadsCorrect ==
  \A k \in Keys : \A s \in snapshots \cup {lastSequence} : Get(k, s) = Expected(k, s)

\* Files of a level below 0 "Must not overlap" (Builder::MaybeAddFile).
LevelsDisjoint ==
  \A l \in DOMAIN levels : \A f, g \in levels[l] :
    f # g => Before(Largest(f), Smallest(g)) \/ Before(Largest(g), Smallest(f))

\* "Entries never hop across levels": for one user key, a source that Get
\* searches earlier holds only newer entries ("if we find data in an smaller
\* level, later levels are irrelevant", Version::Get).
Newer(S, T) == \A a \in S, b \in T : a.key = b.key => a.seq > b.seq
Deep(l) == UNION levels[l]
NewerAbove ==
  /\ Newer(mem, imm)
  /\ \A n \in DOMAIN level0 : Newer(mem, level0[n]) /\ Newer(imm, level0[n])
  /\ \A n, m \in DOMAIN level0 : m < n => Newer(level0[n], level0[m])
  /\ \A l \in DOMAIN levels : /\ Newer(mem, Deep(l)) /\ Newer(imm, Deep(l))
                             /\ \A n \in DOMAIN level0 : Newer(level0[n], Deep(l))
                             /\ \A j \in DOMAIN levels : l < j => Newer(Deep(l), Deep(j))

\* The inputs of a running compaction stay in the current version until its
\* results are installed, whatever the nested flushes add.
InputsStay ==
  compaction # NoCompaction =>
    compaction.in0 \subseteq Files(compaction.level)
    /\ compaction.in1 \subseteq Files(compaction.level + 1)
=============================================================================
