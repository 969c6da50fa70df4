------------------------------- MODULE Versions --------------------------------
(***************************************************************************)
(* The versions of a VersionSet (version_set.cc): who holds a Version and  *)
(* a FileMetaData, how VersionSet::Builder makes a version of edits, in    *)
(* LogAndApply and in Recover, and what a Version marks for compaction.    *)
(*                                                                         *)
(* A FileMetaData is known by its level and file number: an edit never     *)
(* adds a file twice to one level.  Which file of a level compact_pointer_ *)
(* picks and what a compaction writes are free choices; Lsm has the rules. *)
(***************************************************************************)
EXTENDS Integers, Sequences, FiniteSets, SequencesExt

CONSTANTS kNumLevels, kMaxMemCompactLevel,
          VKeys,          \* user keys
          VSpans,         \* for each file number the smallest and largest keys its table may have
          VReaders,       \* threads that read
          Limits,         \* for each level the number of files that gives a score of 1
          AllowedSeeks,   \* allowed_seeks of a new file, at least 100 in the code
          MaxMishaps      \* bound on the failing calls and restarts

VARIABLES heap,       \* the FileMetaData (meta) and Versions (ver) in memory
          currentVersion,   \* current_
          held,       \* the version a reader holds, 0 for none
          comp,       \* the compaction: version, level and files of its inputs, its outputs, whether it goes on
          flush,      \* the table being made of a memtable, and the version held meanwhile
          writing,    \* LogAndApply while it writes the MANIFEST: its version and edit
          manifest,   \* the edits in the MANIFEST
          spans,      \* the smallest and largest key of each file, by its number
          failed,     \* bg_error_ after a failed LogAndApply
          mishaps     \* number of failing calls and restarts

versionVars == <<heap, currentVersion, held, comp, flush, writing, manifest, spans, failed, mishaps>>

\* A failing call or a restart, while the bound allows one.
Mishap == mishaps < MaxMishaps /\ mishaps' = mishaps + 1

Levels == 0..kNumLevels - 1
NoVersion == 0
NoFile == <<0, 0>>
NoEdit == [del |-> {}, add |-> {}]
NotWriting == [ver |-> NoVersion, edit |-> NoEdit]
NoFlush == [ver |-> NoVersion, file |-> 0]
NoCompaction == [ver |-> NoVersion, level |-> 0, inputs |-> {}, outputs |-> {}, working |-> FALSE]

Overlap(m, n) == spans[m][1] <= spans[n][2] /\ spans[n][1] <= spans[m][2]

\* The files of a version, as level and number.
FilesOf(files) == UNION {{l} \X ToSet(files[l]) : l \in Levels}

-----------------------------------------------------------------------------
(* References *)

\* Each file in gone loses a reference, and the FileMetaData with its last one.
DropFiles(meta, gone) ==
  [f \in {g \in DOMAIN meta : g \notin gone \/ meta[g].refs > 1} |->
     IF f \in gone THEN [meta[f] EXCEPT !.refs = @ - 1] ELSE meta[f]]

\* Version::~Version.
DeleteVersion(h, v) ==
  [meta |-> DropFiles(h.meta, FilesOf(h.ver[v].files)),
   ver |-> [w \in DOMAIN h.ver \ {v} |-> h.ver[w]]]

Ref(h, v) == [h EXCEPT !.ver[v].refs = @ + 1]

Unref(h, v) == IF h.ver[v].refs = 1 THEN DeleteVersion(h, v) ELSE [h EXCEPT !.ver[v].refs = @ - 1]

\* An address for a new version, also that of one deleted before.
NewAddress(h) == CHOOSE v \in 1..Cardinality(DOMAIN h.ver) + 1 : v \notin DOMAIN h.ver

-----------------------------------------------------------------------------
(* VersionSet::Builder *)

EmptyBuilder == [deleted |-> [l \in Levels |-> {}], added |-> [l \in Levels |-> {}]]

At(files, l) == {f[2] : f \in {g \in files : g[1] = l}}

\* Apply: what an edit adds is not deleted any more.
Apply(b, edit) ==
  [deleted |-> [l \in Levels |-> (b.deleted[l] \cup At(edit.del, l)) \ At(edit.add, l)],
   added |-> [l \in Levels |-> b.added[l] \cup At(edit.add, l)]]

BySmallestKey(m, n) == spans[m][1] < spans[n][1] \/ (spans[m][1] = spans[n][1] /\ m < n)

\* Faulty variant of MaybeAddFile: the files that were added are not looked up in deleted_files.
MaybeAddBaseFile(b, l, n) == n \notin b.deleted[l] \/ n \in b.added[l]

\* MaybeAddFile leaves out a deleted file, whether it was in the base or added.
MaybeAddFile(b, l, n) == n \notin b.deleted[l]

\* The merge of SaveTo: before each added file go the files of the base up to upper_bound.
SaveLevel(b, l, base) ==
  LET Step(s, n) ==
        LET before == Cardinality({i \in DOMAIN s.base : ~BySmallestKey(n, s.base[i])})
        IN  [out |-> s.out \o SubSeq(s.base, 1, before) \o <<n>>,
             base |-> SubSeq(s.base, before + 1, Len(s.base))]
      merged == FoldLeft(Step, [out |-> <<>>, base |-> base], SetToSortSeq(b.added[l], BySmallestKey))
  IN  SelectSeq(merged.out \o merged.base, LAMBDA n : MaybeAddFile(b, l, n))

SaveTo(b, base) == [l \in Levels |-> SaveLevel(b, l, base[l])]

\* The files in memory after Apply, SaveTo and ~Builder: a new file comes with the builder's
\* reference, a file in the version gets one more, and the builder gives its own back.
FilesAfter(meta, b, files) ==
  LET added == UNION {{l} \X b.added[l] : l \in Levels}
      applied == [f \in DOMAIN meta \cup added |->
                    IF f \in added THEN [refs |-> 1, seeks |-> AllowedSeeks] ELSE meta[f]]
      saved == [f \in DOMAIN applied |->
                  IF f \in FilesOf(files) THEN [applied[f] EXCEPT !.refs = @ + 1] ELSE applied[f]]
  IN  DropFiles(saved, added)

\* Finalize: the level with the highest score, the first of several, and whether it is at least 1.
Finalize(files) ==
  LET More(i, j) == Len(files[i]) * Limits[j + 1] > Len(files[j]) * Limits[i + 1]
      best == CHOOSE i \in 0..kNumLevels - 2 :
                \A j \in 0..kNumLevels - 2 : IF j < i THEN More(i, j) ELSE ~More(j, i)
  IN  [level |-> best, due |-> Len(files[best]) >= Limits[best + 1]]

NewVersion(files) == [files |-> files, refs |-> 0, seek |-> NoFile, score |-> Finalize(files)]

\* A heap with the version a builder makes of a base, at address v.
Build(h, v, b, base) ==
  LET files == SaveTo(b, base)
  IN  [meta |-> FilesAfter(h.meta, b, files),
       ver |-> [w \in DOMAIN h.ver \cup {v} |-> IF w = v THEN NewVersion(files) ELSE h.ver[w]]]

-----------------------------------------------------------------------------
(* VersionSet: LogAndApply and Recover *)

AppendVersion(h, v) == Ref(Unref(h, currentVersion), v)

\* LogAndApply up to where it releases the mutex.
LogAndApply(h, edit) ==
  LET v == NewAddress(h)
  IN  /\ writing = NotWriting
      /\ heap' = Build(h, v, Apply(EmptyBuilder, edit), h.ver[currentVersion].files)
      /\ writing' = [ver |-> v, edit |-> edit]

\* The MANIFEST is written and synced: the version is installed.
LogAndApplyEnds ==
  /\ writing # NotWriting
  /\ manifest' = Append(manifest, writing.edit)
  /\ heap' = AppendVersion(heap, writing.ver)
  /\ currentVersion' = writing.ver
  /\ writing' = NotWriting
  /\ UNCHANGED <<held, comp, flush, spans, failed, mishaps>>

\* The write or the sync fails, and the edit may be there all the same: the version is deleted.
LogAndApplyFails ==
  /\ Mishap /\ writing # NotWriting
  /\ manifest' \in {manifest, Append(manifest, writing.edit)}
  /\ heap' = DeleteVersion(heap, writing.ver)
  /\ writing' = NotWriting
  /\ failed' = TRUE
  /\ UNCHANGED <<currentVersion, held, comp, flush, spans>>

\* All edits of a MANIFEST in one builder, as Recover applies them to the empty version.
BuilderOf(edits) == FoldLeft(Apply, EmptyBuilder, edits)

NoFiles == [l \in Levels |-> <<>>]

Recovered(edits) == SaveTo(BuilderOf(edits), NoFiles)

\* WriteSnapshot.
Snapshot(files) == [del |-> {}, add |-> FilesOf(files)]

\* The process stops, whatever it is doing, and a new VersionSet recovers; it goes on with the
\* MANIFEST or begins a new one.
Recover(reuse) ==
  /\ Mishap
  /\ \E edits \in {manifest, manifest \o (IF writing = NotWriting THEN <<>> ELSE <<writing.edit>>)} :
       LET h == Build([meta |-> <<>>, ver |-> <<>>], 1, BuilderOf(edits), NoFiles)
       IN  /\ heap' = Ref(h, 1)
           /\ manifest' = IF reuse THEN edits ELSE <<Snapshot(Recovered(edits))>>
  /\ currentVersion' = 1
  /\ held' = [r \in VReaders |-> NoVersion]
  /\ comp' = NoCompaction /\ flush' = NoFlush /\ writing' = NotWriting /\ failed' = FALSE
  /\ UNCHANGED spans

-----------------------------------------------------------------------------
(* The background thread: flushed memtables and compactions *)

\* The table gets the next file number.
NewTable(span) ==
  /\ Len(spans) < Len(VSpans) /\ span \in VSpans[Len(spans) + 1]
  /\ spans' = Append(spans, span)

\* CompactMemTable, also from a compaction, holds the version while it builds a table.
FlushStarts(span) ==
  /\ flush = NoFlush /\ writing = NotWriting
  /\ IF comp = NoCompaction THEN ~failed ELSE comp.working
  /\ NewTable(span)
  /\ flush' = [ver |-> currentVersion, file |-> Len(spans) + 1]
  /\ heap' = Ref(heap, currentVersion)
  /\ UNCHANGED <<currentVersion, held, comp, writing, manifest, failed, mishaps>>

OverlapInLevel(files, l, n) == \E m \in ToSet(files[l]) : Overlap(m, n)

\* PickLevelForMemTableOutput: as far down as nothing overlaps, or less if that is a lot of data.
MemTableOutputLevels(files, n) ==
  {l \in 0..kMaxMemCompactLevel : l > 0 => \A k \in 0..l : ~OverlapInLevel(files, k, n)}

FlushApplies ==
  /\ flush # NoFlush
  /\ \E l \in MemTableOutputLevels(heap.ver[flush.ver].files, flush.file) :
       LogAndApply(Unref(heap, flush.ver), [del |-> {}, add |-> {<<l, flush.file>>}])
  /\ flush' = NoFlush
  /\ UNCHANGED <<currentVersion, held, comp, manifest, spans, failed, mishaps>>

\* BuildTable fails.
FlushFails ==
  /\ Mishap /\ flush # NoFlush
  /\ heap' = Unref(heap, flush.ver)
  /\ flush' = NoFlush /\ failed' = TRUE
  /\ UNCHANGED <<currentVersion, held, comp, writing, manifest, spans>>

\* GetOverlappingInputs: the files of a level that overlap the range of a set; at level 0 a file that
\* sticks out widens the range.
OverlappingInputs(files, l, ns) ==
  LET In(s) == {m \in ToSet(files[l]) : /\ \E n \in s : spans[n][1] <= spans[m][2]
                                        /\ \E n \in s : spans[m][1] <= spans[n][2]}
      closed == {s \in SUBSET ToSet(files[l]) : In(ns \cup s) \subseteq s}
  IN  IF l > 0 THEN In(ns) ELSE CHOOSE s \in closed : \A t \in closed : s \subseteq t

\* PickCompaction: a level with a score of 1 comes before a file that was sought too often.
\* SetupOtherInputs grows the inputs, if they are not too large then, when that adds no file of the
\* next level.
PickCompaction ==
  LET v == heap.ver[currentVersion]
      level == IF v.score.due THEN v.score.level ELSE v.seek[1]
      picked == IF v.score.due THEN ToSet(v.files[level]) ELSE {v.seek[2]}
      Inputs(l, ns) == OverlappingInputs(v.files, l, ns)
      Grown(first, next, expanded) ==
        {first} \cup (IF next # {} /\ Inputs(level + 1, expanded) = next THEN {expanded} ELSE {})
  IN  /\ comp = NoCompaction /\ flush = NoFlush /\ writing = NotWriting /\ ~failed
      /\ v.score.due \/ v.seek # NoFile
      /\ \E n \in picked :
           LET first == IF level = 0 THEN Inputs(0, {n}) ELSE {n}
               next == Inputs(level + 1, first)
           IN  \E some \in Grown(first, next, Inputs(level, first \cup next)) :
                 comp' = [ver |-> currentVersion, level |-> level, working |-> TRUE, outputs |-> {},
                          inputs |-> ({level} \X some) \cup ({level + 1} \X next)]
      /\ heap' = Ref(heap, currentVersion)
  /\ UNCHANGED <<currentVersion, held, flush, writing, manifest, spans, failed, mishaps>>

\* OpenCompactionOutputFile: one more output, within the keys of the inputs and past the others.
NewOutput(span) ==
  /\ comp # NoCompaction /\ comp.working /\ flush = NoFlush /\ writing = NotWriting
  /\ NewTable(span)
  /\ \E f \in comp.inputs : spans[f[2]][1] <= span[1]
  /\ \E f \in comp.inputs : span[2] <= spans[f[2]][2]
  /\ \A n \in comp.outputs : spans[n][2] < span[1]
  /\ comp' = [comp EXCEPT !.outputs = @ \cup {Len(spans) + 1}]
  /\ UNCHANGED <<heap, currentVersion, held, flush, writing, manifest, failed, mishaps>>

\* InstallCompactionResults, or the move of a single file to the next level.
CompactionApplies ==
  /\ comp # NoCompaction /\ comp.working /\ flush = NoFlush
  /\ \E out \in {comp.outputs} \cup (IF Cardinality(comp.inputs) = 1 /\ comp.outputs = {}
                                         /\ comp.ver = currentVersion /\ ~failed
                                     THEN {{f[2] : f \in comp.inputs}} ELSE {}) :
       LogAndApply(heap, [del |-> comp.inputs, add |-> {comp.level + 1} \X out])
  /\ comp' = [comp EXCEPT !.working = FALSE]
  /\ UNCHANGED <<currentVersion, held, flush, manifest, spans, failed, mishaps>>

\* The compaction itself fails: it is over without an edit.
CompactionFails ==
  /\ Mishap /\ comp # NoCompaction /\ comp.working /\ flush = NoFlush /\ writing = NotWriting
  /\ comp' = [comp EXCEPT !.working = FALSE]
  /\ failed' = TRUE
  /\ UNCHANGED <<heap, currentVersion, held, flush, writing, manifest, spans>>

\* ReleaseInputs.
ReleaseInputs ==
  /\ comp # NoCompaction /\ ~comp.working /\ writing = NotWriting
  /\ heap' = Unref(heap, comp.ver)
  /\ comp' = NoCompaction
  /\ UNCHANGED <<currentVersion, held, flush, writing, manifest, spans, failed, mishaps>>

-----------------------------------------------------------------------------
(* Readers *)

ReaderOnly == UNCHANGED <<currentVersion, comp, flush, writing, manifest, spans, failed, mishaps>>

\* Get and NewInternalIterator take the current version.
Capture(r) ==
  /\ held[r] = NoVersion
  /\ held' = [held EXCEPT ![r] = currentVersion]
  /\ heap' = Ref(heap, currentVersion)
  /\ ReaderOnly

Holds(n, k) == spans[n][1] <= k /\ k <= spans[n][2]

\* FindFile: the index of the first file of a level that reaches up to the key.
FindFile(fs, k) == Cardinality({i \in DOMAIN fs : spans[fs[i]][2] < k}) + 1

\* ForEachOverlapping: the files that may hold a key, those of level 0 from new to old.
SearchOrder(files, k) ==
  LET level0 == SetToSortSeq({n \in ToSet(files[0]) : Holds(n, k)}, LAMBDA m, n : m > n)
      Found(fs, i) == IF i <= Len(fs) /\ Holds(fs[i], k) THEN <<fs[i]>> ELSE <<>>
      In(l) == IF l = 0 THEN level0 ELSE Found(files[l], FindFile(files[l], k))
  IN  FlattenSeq([i \in 1..kNumLevels |-> [j \in DOMAIN In(i - 1) |-> <<i - 1, In(i - 1)[j]>>]])

\* UpdateStats of version v: a seek less for the file; it is the one to compact if it was the last.
UpdateStats(h, v, f) ==
  LET h1 == [h EXCEPT !.meta[f].seeks = IF @ > 0 THEN @ - 1 ELSE 0]
  IN  IF h1.meta[f].seeks = 0 /\ h1.ver[v].seek = NoFile THEN [h1 EXCEPT !.ver[v].seek = f] ELSE h1

\* Faulty variant of SeekFile: the last file searched is charged.
LastSearched(order) == order[Len(order)]

\* The first of several files searched is charged.
SeekFile(order) == order[1]

\* Get ends: it looked into several files, which costs the first of them a seek, or into one at most.
GetReturns(r, k) ==
  /\ held[r] # NoVersion
  /\ LET order == SearchOrder(heap.ver[held[r]].files, k)
     IN  Len(order) >= 2 /\ heap' = Unref(UpdateStats(heap, held[r], SeekFile(order)), held[r])
  /\ held' = [held EXCEPT ![r] = NoVersion]
  /\ ReaderOnly

\* A Get that looked into one file, or an iterator, goes.
Release(r) ==
  /\ held[r] # NoVersion
  /\ heap' = Unref(heap, held[r])
  /\ held' = [held EXCEPT ![r] = NoVersion]
  /\ ReaderOnly

\* RecordReadSample of an iterator charges the current version, which it need not hold.
RecordReadSample(r, k) ==
  /\ held[r] # NoVersion
  /\ LET order == SearchOrder(heap.ver[currentVersion].files, k)
     IN  Len(order) >= 2 /\ heap' = UpdateStats(heap, currentVersion, SeekFile(order))
  /\ UNCHANGED held
  /\ ReaderOnly

-----------------------------------------------------------------------------
Init ==
  /\ heap = [meta |-> <<>>, ver |-> (1 :> [NewVersion(NoFiles) EXCEPT !.refs = 1])]
  /\ currentVersion = 1 /\ held = [r \in VReaders |-> NoVersion]
  /\ comp = NoCompaction /\ flush = NoFlush /\ writing = NotWriting
  /\ manifest = <<>> /\ spans = <<>> /\ failed = FALSE /\ mishaps = 0

Next ==
  \/ \E span \in VKeys \X VKeys : FlushStarts(span) \/ NewOutput(span)
  \/ FlushApplies \/ FlushFails
  \/ LogAndApplyEnds \/ LogAndApplyFails
  \/ PickCompaction \/ CompactionApplies \/ CompactionFails \/ ReleaseInputs
  \/ \E r \in VReaders, k \in VKeys : GetReturns(r, k) \/ RecordReadSample(r, k)
  \/ \E r \in VReaders : Capture(r) \/ Release(r)
  \/ \E reuse \in BOOLEAN : Recover(reuse)

Spec == Init /\ [][Next]_versionVars

-----------------------------------------------------------------------------
\* The references to a version from current_, readers, a flush and a compaction.
Holders(v) ==
  Cardinality({r \in VReaders : held[r] = v})
    + Cardinality({p \in {<<"current", currentVersion>>, <<"flush", flush.ver>>, <<"comp", comp.ver>>} :
                     p[2] = v})

\* Versions and FileMetaData are in memory exactly as long as somebody holds them, with exact counts,
\* whoever lets go last and whether LogAndApply installs or deletes its version; and the file that
\* seeks have marked is one of the version it is marked in, on a level that has a next one.
VersionsCounted ==
  LET listed == [v \in DOMAIN heap.ver |-> FilesOf(heap.ver[v].files)]
  IN  /\ \A v \in DOMAIN heap.ver :
           /\ heap.ver[v].refs = Holders(v)
           /\ Holders(v) = 0 => v = writing.ver
           /\ heap.ver[v].seek # NoFile =>
                heap.ver[v].seek \in listed[v] /\ heap.ver[v].seek[1] < kNumLevels - 1
      /\ ({currentVersion, writing.ver, flush.ver, comp.ver} \cup {held[r] : r \in VReaders}) \ {NoVersion}
           = DOMAIN heap.ver
      /\ DOMAIN heap.meta = UNION {listed[v] : v \in DOMAIN heap.ver}
      /\ \A f \in DOMAIN heap.meta :
           heap.meta[f].refs = Cardinality({v \in DOMAIN heap.ver : f \in listed[v]})

\* One builder that is given all edits of the MANIFEST makes the same levels, in the same order, as
\* the builders of one LogAndApply after another did, until a write of the MANIFEST fails; and each
\* level is in the order of its smallest keys.
RecoverAgrees ==
  /\ ~failed => Recovered(manifest) = heap.ver[currentVersion].files
  /\ \A l \in Levels : LET fs == heap.ver[currentVersion].files[l]
                       IN  \A i, j \in DOMAIN fs : i < j => BySmallestKey(fs[i], fs[j])
=============================================================================
