-------------------------------- MODULE MemEnv ---------------------------------
(***************************************************************************)
(* The in-memory environment (helpers/memenv/memenv.cc): names that map to *)
(* reference counted FileStates, whose contents are kept in blocks of      *)
(* kBlockSize bytes, and the file objects threads open, read, append to,   *)
(* delete and rename under.                                                *)
(***************************************************************************)
EXTENDS Integers, Sequences, FiniteSets, FiniteSetsExt

CONSTANTS Names,        \* file names
          States,       \* the FileStates that new may return, numbers
          kMemBlock,    \* kBlockSize
          MaxSize,      \* bound on the size of a file
          Payloads,     \* what is appended, sequences
          Amounts,      \* the numbers of bytes that are read or skipped
          MaxHandles    \* bound on the files open at a time

VARIABLES file_map,     \* name -> FileState, 0 for NULL, on the names that are present
          fstate,       \* FileState -> refs_, blocks_ and size_, and its life
          handles,      \* the open files: kind, FileState and position of each
          dying,        \* the FileStates whose last Unref has yet to delete them
          crashed,      \* the process followed a NULL pointer
          written,      \* what was appended to each FileState
          orphans       \* the FileStates that were made for a name and not put into file_map

memVars == <<file_map, fstate, handles, dying, crashed, written, orphans>>

Null == 0
Raw == 0   \* a byte of a new block; the bytes that are appended are positive
Unborn == [born |-> FALSE, deleted |-> FALSE, refs |-> 0, blocks |-> <<>>, size |-> 0]

Init ==
  /\ file_map = [n \in {} |-> Null]
  /\ fstate = [f \in States |-> Unborn]
  /\ handles = [i \in {} |-> Null]
  /\ dying = {} /\ crashed = FALSE /\ orphans = {}
  /\ written = [f \in States |-> <<>>]

-----------------------------------------------------------------------------
(* FileState *)

Fresh == Min({f \in States : ~fstate[f].born})
CanCreate == \E f \in States : ~fstate[f].born

Ref(fs, f) == [fs EXCEPT ![f].refs = @ + 1]

\* A name's new FileState: the reference of the map and the one of the file object.
Born(fs, f) == [fs EXCEPT ![f] = [Unborn EXCEPT !.born = TRUE, !.refs = 2]]

\* The first half of Unref; the FileState is deleted after the mutex is released.
Unref(fs, f) == [fs EXCEPT ![f].refs = @ - 1]
LastRef(fs, f) == fs[f].refs <= 1

\* Append fills the last block and adds blocks as they are needed; a new block is not initialised.
RECURSIVE AppendTo(_, _)
AppendTo(s, data) ==
  IF data = <<>> THEN s
  ELSE LET offset == s.size % kMemBlock
           blocks == IF offset # 0 THEN s.blocks
                     ELSE Append(s.blocks, [i \in 1..kMemBlock |-> Raw])
           avail == IF kMemBlock - offset > Len(data) THEN Len(data) ELSE kMemBlock - offset
           last == [i \in 1..kMemBlock |-> IF i \in (offset + 1)..(offset + avail) THEN data[i - offset]
                                           ELSE blocks[Len(blocks)][i]]
       IN  AppendTo([s EXCEPT !.blocks = [blocks EXCEPT ![Len(blocks)] = last], !.size = @ + avail],
                    SubSeq(data, avail + 1, Len(data)))

\* The n bytes from block_offset of a block on, block by block.
RECURSIVE CopyFrom(_, _, _, _)
CopyFrom(s, block, block_offset, n) ==
  LET avail == IF kMemBlock - block_offset > n THEN n ELSE kMemBlock - block_offset
  IN  IF n = 0 THEN <<>>
      ELSE SubSeq(s.blocks[block], block_offset + 1, block_offset + avail)
             \o CopyFrom(s, block + 1, 0, n - avail)

\* FileState::Read.
ReadFrom(s, offset, n) ==
  LET available == s.size - offset
      m == IF n > available THEN available ELSE n
  IN  IF offset > s.size THEN [ok |-> FALSE, data |-> <<>>]
      ELSE [ok |-> TRUE,
            data |-> CopyFrom(s, (offset \div kMemBlock) + 1, offset % kMemBlock, m)]

Bind(map, n, x) == [m \in DOMAIN map \cup {n} |-> IF m = n THEN x ELSE map[m]]
Erase(map, n) == [m \in DOMAIN map \ {n} |-> map[m]]

-----------------------------------------------------------------------------
(* InMemoryEnv: every operation holds mutex_ *)

\* A new file object, which holds a reference.
NewHandle(kind, f) ==
  LET free == (1..MaxHandles) \ DOMAIN handles
  IN  free # {} /\ handles' = Bind(handles, Min(free), [kind |-> kind, file |-> f, pos |-> 0])

\* The process dies of following a NULL pointer, and its memory goes with it.
Crash == crashed' = TRUE /\ UNCHANGED <<file_map, fstate, handles, dying, written, orphans>>

\* A step that follows the pointers of those of the names that are present.
Following(names, step) ==
  IF \E n \in names \cap DOMAIN file_map : file_map[n] = Null
    THEN Crash
    ELSE step /\ UNCHANGED crashed

\* NewSequentialFile, and NewRandomAccessFile, whose file has a position nobody moves.
OpenToRead(n) ==
  /\ n \in DOMAIN file_map
  /\ Following({n}, /\ NewHandle("read", file_map[n])
                    /\ fstate' = Ref(fstate, file_map[n])
                    /\ UNCHANGED <<file_map, dying, written, orphans>>)

\* DeleteFileInternal, for the files of names: each loses the map's reference.
Removed(names) ==
  LET files == {file_map[n] : n \in names \cap DOMAIN file_map}
  IN  [fs |-> [f \in States |-> IF f \in files THEN Unref(fstate, f)[f] ELSE fstate[f]],
       gone |-> {f \in files : LastRef(fstate, f)}]

NewWritableFile(n) ==
  Following({n}, /\ CanCreate
                 /\ fstate' = Born(Removed({n}).fs, Fresh)
                 /\ dying' = dying \cup Removed({n}).gone
                 /\ file_map' = Bind(file_map, n, Fresh)
                 /\ NewHandle("write", Fresh)
                 /\ UNCHANGED <<written, orphans>>)

\* file_map_[fname] adds a NULL for a name that is not there, and the new FileState is not stored:
\* the reference taken for the map is one nobody has.
NewAppendableFile(n) ==
  LET old == IF n \in DOMAIN file_map THEN file_map[n] ELSE Null
  IN  /\ old = Null => CanCreate
      /\ file_map' = Bind(file_map, n, old)
      /\ NewHandle("write", IF old = Null THEN Fresh ELSE old)
      /\ fstate' = IF old = Null THEN Born(fstate, Fresh) ELSE Ref(fstate, old)
      /\ orphans' = IF old = Null THEN orphans \cup {Fresh} ELSE orphans
      /\ UNCHANGED <<dying, crashed, written>>

DeleteFile(n) ==
  /\ n \in DOMAIN file_map
  /\ Following({n}, /\ fstate' = Removed({n}).fs /\ dying' = dying \cup Removed({n}).gone
                    /\ file_map' = Erase(file_map, n)
                    /\ UNCHANGED <<handles, written, orphans>>)

\* GetFileSize of a file that is there changes nothing.
GetFileSize(n) == n \in DOMAIN file_map /\ file_map[n] = Null /\ Crash

\* The map after RenameFile: the target is erased first, so a file renamed to its own name goes.
Renamed(src, target) ==
  LET rest == Erase(file_map, target)
      moved == IF src \in DOMAIN rest THEN rest[src] ELSE Null
  IN  Erase(Bind(rest, target, moved), src)

\* Faulty variant of RenameFile: the target's FileState keeps the map's reference.
RenameFileKeepsTarget(src, target) ==
  /\ src \in DOMAIN file_map
  /\ file_map' = Renamed(src, target)
  /\ UNCHANGED <<fstate, handles, dying, crashed, written, orphans>>

\* RenameFile deletes the target and moves the pointer, with the reference it stands for; a NULL
\* is moved like any other.
RenameFile(src, target) ==
  /\ src \in DOMAIN file_map
  /\ Following({target}, /\ fstate' = Removed({target}).fs
                         /\ dying' = dying \cup Removed({target}).gone
                         /\ file_map' = Renamed(src, target)
                         /\ UNCHANGED <<handles, written, orphans>>)

\* The environment is destroyed while files are still open, and another takes its place.
DestroyEnv ==
  /\ DOMAIN file_map # {}
  /\ Following(Names, /\ fstate' = Removed(Names).fs /\ dying' = dying \cup Removed(Names).gone
                      /\ file_map' = [n \in {} |-> Null]
                      /\ UNCHANGED <<handles, written, orphans>>)

-----------------------------------------------------------------------------
(* The file objects *)

AppendFile(i, data) ==
  LET f == handles[i].file
  IN  /\ handles[i].kind = "write"
      /\ fstate[f].size + Len(data) <= MaxSize
      /\ fstate' = [fstate EXCEPT ![f] = AppendTo(@, data)]
      /\ written' = [written EXCEPT ![f] = @ \o data]
      /\ UNCHANGED <<file_map, handles, dying, crashed, orphans>>

\* SequentialFileImpl::Read moves on by what it got, Skip by what there is.
MoveBy(i, n) ==
  /\ handles' = [handles EXCEPT ![i].pos = @ + n]
  /\ UNCHANGED <<file_map, fstate, dying, crashed, written, orphans>>

ReadNext(i, n) ==
  LET h == handles[i]
  IN  h.kind = "read" /\ MoveBy(i, Len(ReadFrom(fstate[h.file], h.pos, n).data))

Skip(i, n) ==
  LET h == handles[i]
  IN  /\ h.kind = "read" /\ h.pos <= fstate[h.file].size
      /\ MoveBy(i, Min({n, fstate[h.file].size - h.pos}))

CloseFile(i) ==
  LET f == handles[i].file
  IN  /\ handles' = Erase(handles, i)
      /\ fstate' = Unref(fstate, f)
      /\ dying' = dying \cup {g \in {f} : LastRef(fstate, g)}
      /\ UNCHANGED <<file_map, crashed, written, orphans>>

\* The second half of Unref, after the lock of the count is released.
DeleteState(f) ==
  /\ f \in dying
  /\ fstate' = [fstate EXCEPT ![f].deleted = TRUE, ![f].blocks = <<>>, ![f].size = 0]
  /\ dying' = dying \ {f}
  /\ written' = [written EXCEPT ![f] = <<>>]
  /\ UNCHANGED <<file_map, handles, crashed, orphans>>

-----------------------------------------------------------------------------
Step ==
  \/ \E n \in Names :
       \/ OpenToRead(n) \/ NewWritableFile(n) \/ NewAppendableFile(n) \/ DeleteFile(n)
       \/ GetFileSize(n) \/ \E target \in Names : RenameFile(n, target)
  \/ DestroyEnv
  \/ \E i \in DOMAIN handles :
       \/ \E data \in Payloads : AppendFile(i, data)
       \/ \E n \in Amounts : ReadNext(i, n) \/ Skip(i, n)
       \/ CloseFile(i)
  \/ \E f \in States : DeleteState(f)

Next == ~crashed /\ Step

Spec == Init /\ [][Next]_memVars

-----------------------------------------------------------------------------
\* A FileState is counted once for the name that maps to it and once for every open file, is deleted
\* when both are gone and never under an open file or a name, whoever drops the last reference.  For
\* one that NewAppendableFile made for a new name and did not store, only the latter holds: the
\* reference it took for the map is never dropped.
StatesCounted ==
  \A f \in {g \in States : fstate[g].born} :
    LET names == {n \in DOMAIN file_map : file_map[n] = f}
        users == {i \in DOMAIN handles : handles[i].file = f}
        refs == fstate[f].refs
    IN  /\ refs >= Cardinality(names) + Cardinality(users)
        /\ f \notin orphans => refs = Cardinality(names) + Cardinality(users)
        /\ refs = 0 <=> fstate[f].deleted \/ f \in dying

\* Every read of an open file gives what was appended to its FileState, wherever reads and appends
\* cross the blocks.
ReadsAppended ==
  \A f \in {handles[i].file : i \in DOMAIN handles} : \A offset \in 0..(MaxSize + 1), n \in 0..MaxSize :
    LET got == ReadFrom(fstate[f], offset, n)
    IN  IF offset > Len(written[f]) THEN ~got.ok
        ELSE got.ok /\ got.data = SubSeq(written[f], offset + 1, Min({offset + n, Len(written[f])}))

\* However names are created, replaced, renamed and deleted while files are open and closed, the
\* FileStates of the map are counted exactly, none is deleted under an open file, and an open file
\* keeps its contents.
FilesKept == StatesCounted /\ ReadsAppended

\* NewAppendableFile "either appends to an existing file, or writes to a new file" (env.h): a name it
\* was called with can be opened, measured, replaced, renamed over and deleted as any other.
NewFilesUsable == ~crashed
=============================================================================
