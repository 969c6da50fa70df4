--------------------------------- MODULE Arena ---------------------------------
(***************************************************************************)
(* The arena that memtables and skip list nodes live in (arena.cc).  An    *)
(* address is a block, by its number, and an offset in it; new returns     *)
(* blocks that are aligned and apart from each other.                      *)
(***************************************************************************)
EXTENDS Integers, Sequences, SequencesExt

CONSTANTS ArenaBlock,     \* kBlockSize
          AllocSizes,     \* the numbers of bytes asked for
          MaxAllocs       \* bound on the allocations

VARIABLES blocks,     \* blocks_: the size of each block
          current,    \* alloc_ptr_: its block, 0 for NULL
          offset,     \* ... and its offset there
          remaining,  \* alloc_bytes_remaining_
          usage,      \* memory_usage_
          regions,    \* what was handed out: block, first byte, end, and the call, "any" or "aligned"
          allocs      \* number of allocations

arenaVars == <<blocks, current, offset, remaining, usage, regions, allocs>>

align == 8

ArenaInit ==
  /\ blocks = <<>> /\ current = 0 /\ offset = 0 /\ remaining = 0
  /\ usage = 0 /\ regions = {} /\ allocs = 0

HandOut(block, from, bytes, call) ==
  /\ allocs < MaxAllocs /\ allocs' = allocs + 1
  /\ regions' = regions \cup {[block |-> block, from |-> from, to |-> from + bytes, call |-> call]}

AllocateNewBlock(bytes) ==
  /\ blocks' = Append(blocks, bytes)
  /\ usage' = usage + bytes + align

\* Faulty variant of Carve: alloc_ptr_ goes past the bytes handed out, not past the slop before them.
CarveWithoutSlop(slop, bytes) ==
  /\ offset' = offset + bytes /\ UNCHANGED current
  /\ remaining' = remaining - bytes

\* The bytes and the slop before them are taken off the current block.
Carve(slop, bytes) ==
  /\ offset' = offset + slop + bytes /\ UNCHANGED current
  /\ remaining' = remaining - (slop + bytes)

\* A large object gets a block of its own, and the current one stays; a small one starts a new block.
AllocateFallback(bytes, call) ==
  /\ HandOut(Len(blocks) + 1, 0, bytes, call)
  /\ IF bytes > ArenaBlock \div 4
       THEN AllocateNewBlock(bytes) /\ UNCHANGED <<current, offset, remaining>>
       ELSE /\ AllocateNewBlock(ArenaBlock)
            /\ current' = Len(blocks) + 1 /\ offset' = bytes
            /\ remaining' = ArenaBlock - bytes

AllocateFrom(slop, bytes, call) ==
  IF slop + bytes <= remaining
  THEN /\ HandOut(current, offset + slop, bytes, call)
       /\ Carve(slop, bytes)
       /\ UNCHANGED <<blocks, usage>>
  ELSE AllocateFallback(bytes, call)

Allocate(bytes) == AllocateFrom(0, bytes, "any")

\* The bytes from the current one to the next aligned one.
Slop == LET mod == offset % align IN IF mod = 0 THEN 0 ELSE align - mod

AllocateAligned(bytes) == AllocateFrom(Slop, bytes, "aligned")

ArenaNext == \E bytes \in AllocSizes : Allocate(bytes) \/ AllocateAligned(bytes)

ArenaSpec == ArenaInit /\ [][ArenaNext]_arenaVars

-----------------------------------------------------------------------------
Apart(r, s) == r.block # s.block \/ r.to <= s.from \/ s.to <= r.from

\* No two objects of an arena overlap, each lies in one block, and those that asked for it are
\* aligned, however small and large, aligned and unaligned requests follow each other.
ObjectsApart ==
  /\ \A r, s \in regions : r # s => Apart(r, s)
  /\ \A r \in regions : /\ r.block \in 1..Len(blocks) /\ r.to <= blocks[r.block]
                        /\ r.call = "aligned" => r.from % align = 0

\* MemoryUsage counts every block and a pointer to it.
UsageExact == usage = FoldSeq(LAMBDA size, sum : size + align + sum, 0, blocks)
=============================================================================
