--------------------------- MODULE BlockAccounts ---------------------------
(***************************************************************************)
(* The accounts a database file is kept by.  SingleFileBlockManager counts *)
(* the uses of every block and hands out free ones; MetadataManager splits *)
(* metadata blocks into sub-blocks of its own.  One operator per critical  *)
(* section of single_file_block_lock.  `failed` records an                 *)
(* InternalException, or a D_ASSERT that does not hold.                    *)
(***************************************************************************)
EXTENDS Integers, FiniteSets, FiniteSetsExt

CONSTANTS MaxBlocks,      \* bound on the blocks of the file
          SubBlocks       \* METADATA_BLOCK_COUNT sub-blocks in a metadata block

ASSUME BlockAccountsAssumption ==
  /\ MaxBlocks \in Nat
  /\ IsFiniteSet(SubBlocks) /\ SubBlocks \subseteq Nat \ {0}

Blocks == 0 .. MaxBlocks - 1

Accounts ==
  [free_list : SUBSET Blocks, free_blocks_in_use : SUBSET Blocks,
   newly_used_blocks : SUBSET Blocks, modified_blocks : SUBSET Blocks,
   multi_use_blocks : [Blocks -> Nat],      \* 0: not a multi-use block
   max_block : 0 .. MaxBlocks, failed : BOOLEAN]

\* The accounts a header describes: Initialize and LoadFreeList.
Loaded(free, multi, count) ==
  [free_list |-> free, free_blocks_in_use |-> {}, newly_used_blocks |-> {},
   modified_blocks |-> {}, multi_use_blocks |-> multi, max_block |-> count,
   failed |-> FALSE]

-----------------------------------------------------------------------------
(* Taking blocks. *)

CanAllocate(a) == a.free_list # {} \/ a.max_block < MaxBlocks

PeekFreeBlockId(a) == IF a.free_list # {} THEN Min(a.free_list) ELSE a.max_block

\* GetFreeBlockIdInternal; registered: the blocks that have a live handle.
TakeBlock(a, newly_used, registered) ==
  LET b == PeekFreeBlockId(a)
  IN  [a EXCEPT !.free_list = @ \ {b},
                !.max_block = IF b = @ THEN @ + 1 ELSE @,
                !.newly_used_blocks = IF newly_used THEN @ \cup {b} ELSE @,
                !.failed = @ \/ b \in registered]

GetFreeBlockId(a, registered) == TakeBlock(a, TRUE, registered)
GetFreeBlockIdForCheckpoint(a, registered) == TakeBlock(a, FALSE, registered)

MarkBlockAsCheckpointed(a, b) == [a EXCEPT !.newly_used_blocks = @ \ {b}]

IncreaseBlockReferenceCount(a, b) ==
  [a EXCEPT !.multi_use_blocks[b] = IF @ = 0 THEN 2 ELSE @ + 1,
            !.failed = @ \/ b \in a.free_list \/ b >= a.max_block]

\* Mutant: the second use of a block is not counted.
MarkBlockAsUsedMutant(a, b) ==
  IF a.max_block <= b
  THEN [a EXCEPT !.free_list = @ \cup (a.max_block .. b - 1), !.max_block = b + 1]
  ELSE [a EXCEPT !.free_list = @ \ {b}]

\* A block named by the log: past the end of the file (the blocks between
\* become free), on the free list, or already in use.
MarkBlockAsUsed(a, b) ==
  IF a.max_block <= b
  THEN [a EXCEPT !.free_list = @ \cup (a.max_block .. b - 1), !.max_block = b + 1]
  ELSE IF b \in a.free_list
  THEN [a EXCEPT !.free_list = @ \ {b}]
  ELSE IncreaseBlockReferenceCount(a, b)

-----------------------------------------------------------------------------
(* Giving blocks back. *)

\* A block some handle still refers to becomes free with its last handle.
AddFreeBlock(a, b, registered) ==
  IF b \in registered
  THEN [a EXCEPT !.free_blocks_in_use = @ \cup {b}]
  ELSE [a EXCEPT !.free_list = @ \cup {b}]

\* Mutant: any block that is retired can be written at once.
MarkBlockAsModifiedMutant(a, b, registered) ==
  IF a.multi_use_blocks[b] > 0
  THEN [a EXCEPT !.multi_use_blocks[b] = IF @ - 1 <= 1 THEN 0 ELSE @ - 1]
  ELSE AddFreeBlock([a EXCEPT !.newly_used_blocks = @ \ {b}], b, registered)

MarkBlockAsModified(a, b, registered) ==
  IF a.multi_use_blocks[b] > 0
  THEN [a EXCEPT !.multi_use_blocks[b] = IF @ - 1 <= 1 THEN 0 ELSE @ - 1]
  ELSE IF b >= a.max_block \/ b \in a.modified_blocks \cup a.free_list
  THEN [a EXCEPT !.failed = TRUE]
  ELSE IF b \in a.newly_used_blocks
  THEN AddFreeBlock([a EXCEPT !.newly_used_blocks = @ \ {b}], b, registered)
  ELSE [a EXCEPT !.modified_blocks = @ \cup {b}]

ReleaseFreeBlockInUse(a, b) ==
  IF b \in a.free_blocks_in_use
  THEN [a EXCEPT !.free_list = @ \cup {b}, !.free_blocks_in_use = @ \ {b}]
  ELSE a

\* Mutant: no look at a newer handle of the same block.
UnregisterExpiredBlockMutant(a, b, registered) == ReleaseFreeBlockInUse(a, b)

\* The destructor of a handle; a newer handle of the block keeps it.
UnregisterExpiredBlock(a, b, registered) ==
  IF b \in registered THEN a ELSE ReleaseFreeBlockInUse(a, b)

\* The free blocks at the end of the file are cut off.
Truncated(a) ==
  LET end == Min({m \in 0 .. a.max_block : m .. a.max_block - 1 \subseteq a.free_list})
  IN  [a EXCEPT !.max_block = end, !.free_list = {b \in @ : b < end}]

-----------------------------------------------------------------------------
(* Metadata blocks: the free sub-blocks of each, and the sub-blocks that   *)
(* the last checkpoint occupied.                                           *)

Metadata == [blocks : UNION {[S -> SUBSET SubBlocks] : S \in SUBSET Blocks},
             modified : UNION {[S -> SUBSET SubBlocks] : S \in SUBSET Blocks}]

Occupied(blocks) == [b \in DOMAIN blocks |-> SubBlocks \ blocks[b]]

HasSpace(m, b) == b \in DOMAIN m.blocks /\ m.blocks[b] # {}

\* The blocks AllocateHandle may take a sub-block from: some metadata block
\* with space, the one it meets first, unless a new block lies before it.
HandleBlocks(a, m) ==
  LET spacious == {b \in DOMAIN m.blocks : HasSpace(m, b)}
      next == PeekFreeBlockId(a)
  IN  {b \in spacious : b <= next}
        \cup (IF spacious = {} \/ \E b \in spacious : b > next THEN {next} ELSE {})

\* The accounts after AllocateHandle on block b: AllocateNewBlock, if it has no
\* space, which must not be a metadata block already (AddBlock).
HandleAccounts(a, m, b, registered) ==
  IF HasSpace(m, b) THEN a
  ELSE [GetFreeBlockIdForCheckpoint(a, registered) EXCEPT
          !.failed = @ \/ b \in DOMAIN m.blocks]

HandleIndex(m, b) == IF HasSpace(m, b) THEN Min(m.blocks[b]) ELSE Min(SubBlocks)

HandleMetadata(m, b) ==
  [m EXCEPT !.blocks =
     [c \in DOMAIN m.blocks \cup {b} |->
        IF c # b THEN m.blocks[c]
        ELSE (IF HasSpace(m, b) THEN m.blocks[b] ELSE SubBlocks) \ {HandleIndex(m, b)}]]

\* ClearModifiedBlocks: a sub-block the new checkpoint goes on using, which the
\* last checkpoint must have occupied.
Occupies(m, cell) == cell[1] \in DOMAIN m.modified
ClearModified(m, cell) ==
  IF Occupies(m, cell) THEN [m EXCEPT !.modified[cell[1]] = @ \ {cell[2]}] ELSE m

\* The free sub-blocks once the last checkpoint's are given back.
Freed(m) ==
  [b \in DOMAIN m.blocks |->
     m.blocks[b] \cup (IF b \in DOMAIN m.modified THEN m.modified[b] ELSE {})]

\* The metadata blocks that are wholly free then.
Emptied(m) == {b \in DOMAIN m.modified \cap DOMAIN m.blocks : Freed(m)[b] = SubBlocks}

MarkBlocksAsModified(m) ==
  LET kept == [b \in DOMAIN m.blocks \ Emptied(m) |-> Freed(m)[b]]
  IN  [blocks |-> kept, modified |-> Occupied(kept)]
=============================================================================
