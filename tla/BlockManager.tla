---------------------------- MODULE BlockManager ----------------------------
(***************************************************************************)
(* The blocks of a database file over transactions, checkpoints, crashes   *)
(* and restarts.  A transaction may write its row groups to free blocks    *)
(* before it commits and log only their block numbers; a checkpoint writes *)
(* the changed segments to free blocks, reserves metadata for the list of  *)
(* free blocks, and makes all of it valid with one header write.  Both run *)
(* at the same time.  A segment stands for a column segment of a row group *)
(* and all segments form one table.                                        *)
(***************************************************************************)
EXTENDS BlockAccounts, Sequences

CONSTANTS Segments,
          SegmentsPerBlock,   \* segments that fit a partial block
          HandleEntries,      \* free-list entries that fit a metadata sub-block
          MaxStatements, MaxCheckpoints, MaxRestarts, \* bounds
          None

ASSUME BlockManagerAssumption ==
  /\ SegmentsPerBlock \in Nat \ {0} /\ HandleEntries \in Nat \ {0}
  /\ MaxStatements \in Nat /\ MaxCheckpoints \in Nat /\ MaxRestarts \in Nat
  /\ None \notin Blocks

VARIABLES
  bm,        \* the accounts of SingleFileBlockManager
  mm,        \* the sub-blocks of MetadataManager
  segs,      \* segment -> its state in memory and its block
  retired,   \* blocks that a replaced or dropped segment still has a handle of
  dying,     \* blocks with a handle whose destructor has not run yet
  unsynced,  \* cells of the file written since the last fsync
  header,    \* the database header last written
  previous,  \* the one in the other slot, as long as a crash may bring it back
  log,       \* the write-ahead log and the checkpoint's own log
  ckpt,      \* the running checkpoint; crowded: history, somebody took a block
             \* between the reservation for the free list and its writing
  early,     \* blocks logged between the start of a checkpoint and its free list
  statements, restarts   \* for the bounds

vars == <<bm, mm, segs, retired, dying, unsynced, header, previous, log,
          ckpt, early, statements, restarts>>

\* A cell of the file: a data block, or a sub-block of a metadata block.
Cell == Blocks \X (SubBlocks \cup {0})
Data(b) == <<b, 0>>

NoFunction == [x \in {} |-> None]
EmptyLog == [appended |-> NoFunction, dropped |-> {}]
Image == UNION {[S -> Blocks \cup {None}] : S \in SUBSET Segments}

NoHeader ==
  [iteration |-> 0, cells |-> {}, table |-> None, segments |-> NoFunction, free |-> {},
   multi |-> [b \in Blocks |-> 0], metadata |-> NoFunction, block_count |-> 0]

Idle ==
  [pc |-> "idle", todo |-> {}, partial |-> None, room |-> 0, image |-> NoFunction,
   cells |-> {}, table |-> None, reserved |-> 0, freed |-> {}, crowded |-> FALSE]

With(f, x, v) == [y \in DOMAIN f \cup {x} |-> IF y = x THEN v ELSE f[y]]
Over(f, g) == [x \in DOMAIN f \cup DOMAIN g |-> IF x \in DOMAIN g THEN g[x] ELSE f[x]]

BlocksOf(f) == {f[x] : x \in DOMAIN f} \ {None}

\* The blocks with a live handle.
Registered == ({segs[p].block : p \in Segments} \ {None}) \cup retired

InState(state) == {p \in Segments : segs[p].state = state}
Sharing(b) == {p \in Segments : segs[p].block = b}

Running == ckpt.pc # "failed"
Checkpointing == ckpt.pc # "idle"

\* CreateNewDatabase.
Init ==
  /\ bm = Loaded({}, NoHeader.multi, 0)
  /\ mm = [blocks |-> NoFunction, modified |-> NoFunction]
  /\ segs = [p \in Segments |-> [state |-> "none", block |-> None]]
  /\ retired = {} /\ dying = {} /\ unsynced = {}
  /\ header = NoHeader /\ previous = None
  /\ log = [main |-> EmptyLog, checkpoint |-> EmptyLog]
  /\ ckpt = Idle /\ early = {} /\ statements = 0 /\ restarts = 0

-----------------------------------------------------------------------------
(* Transactions. *)

\* The log that commits go to.
CurrentLog == IF Checkpointing THEN "checkpoint" ELSE "main"

Unlogged(p) ==
  p \notin UNION {DOMAIN log[l].appended \cup log[l].dropped : l \in {"main", "checkpoint"}}

Statement == statements < MaxStatements /\ statements' = statements + 1

\* A commit that logs the rows themselves.
InsertRows(p) ==
  /\ Running /\ segs[p].state = "none" /\ Unlogged(p)
  /\ segs' = [segs EXCEPT ![p].state = "committed"]
  /\ log' = [log EXCEPT ![CurrentLog].appended = With(@, p, None)]
  /\ Statement
  /\ UNCHANGED <<bm, mm, retired, dying, unsynced, header, previous, ckpt, early, restarts>>

\* An optimistic write before the commit: one free block, and one reference
\* more for every further segment that shares it.
WriteOptimistically(ps) ==
  LET b == PeekFreeBlockId(bm)
      taken == GetFreeBlockId(bm, Registered)
  IN  /\ Running /\ CanAllocate(bm)
      /\ ps # {} /\ Cardinality(ps) <= SegmentsPerBlock
      /\ \A p \in ps : segs[p].state = "none" /\ Unlogged(p)
      /\ bm' = [taken EXCEPT !.multi_use_blocks[b] =
                  IF Cardinality(ps) > 1 THEN Cardinality(ps) ELSE @]
      /\ segs' = [p \in Segments |->
                    IF p \in ps THEN [state |-> "optimistic", block |-> b] ELSE segs[p]]
      /\ unsynced' = unsynced \cup {Data(b)}
      /\ ckpt' = [ckpt EXCEPT !.crowded = @ \/ ckpt.pc = "capturing"]
      /\ Statement
      /\ UNCHANGED <<mm, retired, dying, header, previous, log, early, restarts>>

\* Every segment of block b gives up its reference to it, in turn.
ModifiedTimes[n \in 0 .. Cardinality(Segments), b \in Blocks] ==
  IF n = 0 THEN bm
  ELSE MarkBlockAsModified(ModifiedTimes[n - 1, b], b, Registered)

\* The segments of block b are dropped; their objects, and with them the
\* handle of the block, go later.
Discard(b) ==
  /\ bm' = ModifiedTimes[Cardinality(Sharing(b)), b]
  /\ segs' = [p \in Segments |->
                IF p \in Sharing(b) THEN [state |-> "none", block |-> None] ELSE segs[p]]
  /\ retired' = retired \cup {b}

Rollback(b) ==
  /\ Running /\ Sharing(b) \cap InState("optimistic") # {}
  /\ Discard(b)
  /\ UNCHANGED <<mm, dying, unsynced, header, previous, log, ckpt, early, statements, restarts>>

\* fsync of the database file.
SyncFile == unsynced' = {} /\ previous' = None

\* The commit writes the block number to the log, not flushed yet.
WriteRowGroupData(b) ==
  /\ Running
  /\ Sharing(b) \cap InState("optimistic") # {}
  /\ InState("logging") = {}              \* the WAL lock
  /\ SyncFile                             \* FlushBulkAppendBlocksAndSync
  /\ bm' = MarkBlockAsCheckpointed(bm, b)
  /\ segs' = [p \in Segments |->
                IF p \in Sharing(b) THEN [segs[p] EXCEPT !.state = "logging"] ELSE segs[p]]
  /\ early' = IF ckpt.pc \in {"writing", "reserving", "capturing"}
              THEN early \cup {b} ELSE early
  /\ UNCHANGED <<mm, retired, dying, header, log, ckpt, statements, restarts>>

FlushCommit ==
  /\ Running /\ InState("logging") # {}
  /\ segs' = [p \in Segments |->
                IF p \in InState("logging") THEN [segs[p] EXCEPT !.state = "committed"]
                ELSE segs[p]]
  /\ log' = [log EXCEPT ![CurrentLog].appended =
               Over(@, [p \in InState("logging") |-> segs[p].block])]
  /\ UNCHANGED <<bm, mm, retired, dying, unsynced, header, previous, ckpt, early, statements, restarts>>

\* The commit fails: the log is truncated to where it began.
RevertCommit ==
  /\ Running /\ InState("logging") # {}
  /\ Discard(segs[CHOOSE p \in InState("logging") : TRUE].block)
  /\ UNCHANGED <<mm, dying, unsynced, header, previous, log, ckpt, early, statements, restarts>>

\* A committed DROP, under the shared checkpoint lock.
DropSegment(p) ==
  /\ ~Checkpointing
  /\ segs[p].state = "committed"
  /\ bm' = IF segs[p].block = None THEN bm
           ELSE MarkBlockAsModified(bm, segs[p].block, Registered)
  /\ retired' = retired \cup ({segs[p].block} \ {None})
  /\ segs' = [segs EXCEPT ![p] = [state |-> "none", block |-> None]]
  /\ log' = [log EXCEPT !.main.dropped = @ \cup {p}]
  /\ UNCHANGED <<mm, dying, unsynced, header, previous, ckpt, early, statements, restarts>>

-----------------------------------------------------------------------------
(* Block handles. *)

\* The last scan of a retired segment ends.
ReleaseHandle(b) ==
  /\ b \in retired
  /\ retired' = retired \ {b}
  /\ dying' = IF Sharing(b) = {} THEN dying \cup {b} ELSE dying
  /\ UNCHANGED <<bm, mm, segs, unsynced, header, previous, log, ckpt, early, statements, restarts>>

\* ~BlockHandle, UnregisterPersistentBlock.
DestroyHandle(b) ==
  /\ b \in dying
  /\ dying' = dying \ {b}
  /\ bm' = UnregisterExpiredBlock(bm, b, Registered)
  /\ UNCHANGED <<mm, segs, retired, unsynced, header, previous, log, ckpt, early, statements, restarts>>

-----------------------------------------------------------------------------
(* A checkpoint. *)

\* A metadata sub-block is allocated in block b; k is the checkpoint so far.
\* The sub-block is written with the rest of the metadata, by Flush.
AllocateHandle(b, k) ==
  /\ b \in HandleBlocks(bm, mm)
  /\ b \in DOMAIN mm.blocks \/ CanAllocate(bm)
  /\ bm' = HandleAccounts(bm, mm, b, Registered)
  /\ mm' = HandleMetadata(mm, b)
  /\ ckpt' = [k EXCEPT !.cells = @ \cup {<<b, HandleIndex(mm, b)>>}]

\* The root of the new checkpoint is allocated and the log switched.  The
\* blocks in skipped belong to the transaction that this checkpoint commits
\* without writing it to the log.
StartCheckpoint(b, skipped) ==
  LET taken == {p \in Segments : segs[p].block \in skipped /\ segs[p].state = "optimistic"}
      todo == InState("committed") \cup taken
  IN  /\ ckpt.pc = "idle" /\ InState("logging") = {}
      /\ header.iteration < MaxCheckpoints
      /\ \A c \in skipped : Sharing(c) \cap taken # {}
      /\ AllocateHandle(b, [Idle EXCEPT !.pc = "writing", !.todo = todo])
      /\ segs' = [p \in Segments |->
                    IF p \in taken THEN [segs[p] EXCEPT !.state = "committed"] ELSE segs[p]]
      /\ UNCHANGED <<retired, dying, unsynced, header, previous, log, early, statements, restarts>>

Write(p) == ckpt.pc = "writing" /\ p \in ckpt.todo

\* The checkpoint after p has found its place in block b.
Placed(p, b, partial, room) ==
  [ckpt EXCEPT !.todo = @ \ {p}, !.image = With(@, p, b), !.partial = partial, !.room = room]

\* Nothing changed: the segment stays where it is.
KeepSegment(p) ==
  /\ Write(p) /\ segs[p].block # None
  /\ bm' = MarkBlockAsCheckpointed(bm, segs[p].block)
  /\ ckpt' = Placed(p, segs[p].block, ckpt.partial, ckpt.room)
  /\ UNCHANGED <<mm, segs, retired, dying, unsynced, header, previous, log, early, statements, restarts>>

\* The old block of a segment written anew goes once that is done: DropSegments.
Replace(p, b, accounts) ==
  /\ bm' = IF segs[p].block = None THEN accounts
           ELSE MarkBlockAsModified(accounts, segs[p].block, Registered \cup {b})
  /\ retired' = retired \cup ({segs[p].block} \ {None})
  /\ segs' = [segs EXCEPT ![p].block = b]
  /\ unsynced' = unsynced \cup {Data(b)}

\* PartialBlockManager: a block of its own, which others may share ...
RewriteSegment(p) ==
  /\ Write(p) /\ CanAllocate(bm)
  /\ LET b == PeekFreeBlockId(bm)
     IN  /\ Replace(p, b, GetFreeBlockIdForCheckpoint(bm, Registered))
         /\ ckpt' = Placed(p, b, b, SegmentsPerBlock - 1)
  /\ UNCHANGED <<mm, dying, header, previous, log, early, statements, restarts>>

\* ... or a place in the block that is still open.
ShareBlock(p) ==
  /\ Write(p) /\ ckpt.partial # None /\ ckpt.room > 0
  /\ Replace(p, ckpt.partial, IncreaseBlockReferenceCount(bm, ckpt.partial))
  /\ ckpt' = Placed(p, ckpt.partial, ckpt.partial, ckpt.room - 1)
  /\ UNCHANGED <<mm, dying, header, previous, log, early, statements, restarts>>

\* The table's metadata: written anew ...
WriteTable(b) ==
  /\ ckpt.pc = "writing" /\ ckpt.todo = {}
  /\ AllocateHandle(b, [ckpt EXCEPT !.pc = "reserving", !.partial = None, !.room = 0,
                                    !.table = <<b, HandleIndex(mm, b)>>])
  /\ UNCHANGED <<segs, retired, dying, unsynced, header, previous, log, early, statements, restarts>>

\* ... or, when no row group changed, left where the last checkpoint put it.
WriteUnchangedTable ==
  LET table == header.table
  IN  /\ ckpt.pc = "writing" /\ ckpt.todo = {}
      /\ table # None /\ ckpt.image = header.segments
      /\ mm' = ClearModified(mm, table)
      /\ bm' = [bm EXCEPT !.failed = @ \/ ~Occupies(mm, table)]
      /\ ckpt' = [ckpt EXCEPT !.pc = "reserving", !.partial = None, !.room = 0,
                              !.table = table, !.cells = @ \cup {table}]
      /\ UNCHANGED <<segs, retired, dying, unsynced, header, previous, log, early,
                     statements, restarts>>

MultiUse(multi) == {b \in Blocks : multi[b] > 0}

\* GetFreeListBlocks: room for what the list of free blocks will hold.
FreeListSize ==
  Cardinality(bm.free_list) + Cardinality(bm.modified_blocks)
  + Cardinality(bm.free_blocks_in_use) + Cardinality(bm.newly_used_blocks)
  + Cardinality(MultiUse(bm.multi_use_blocks)) + Cardinality(DOMAIN mm.blocks)

ReserveFreeListBlock(b) ==
  /\ ckpt.pc = "reserving" /\ FreeListSize >= ckpt.reserved * HandleEntries
  /\ AllocateHandle(b, [ckpt EXCEPT !.reserved = @ + 1])
  /\ UNCHANGED <<segs, retired, dying, unsynced, header, previous, log, early, statements, restarts>>

\* There is room enough.  The sub-blocks of the last checkpoint are given
\* back, and the metadata blocks that nothing occupies any more.
MarkMetadata ==
  /\ ckpt.pc = "reserving" /\ FreeListSize < ckpt.reserved * HandleEntries
  /\ mm' = MarkBlocksAsModified(mm)
  /\ bm' = FoldSet(LAMBDA b, a : MarkBlockAsModified(a, b, Registered),
                   [bm EXCEPT !.failed = @ \/ ~(DOMAIN mm.modified \subseteq DOMAIN mm.blocks)],
                   Emptied(mm))
  /\ ckpt' = [ckpt EXCEPT !.pc = "capturing"]
  /\ UNCHANGED <<segs, retired, dying, unsynced, header, previous, log, early, statements, restarts>>

\* Mutant: the blocks of open transactions are written as used.
CapturedMutant ==
  [iteration |-> header.iteration + 1, cells |-> ckpt.cells, table |-> ckpt.table,
   segments |-> ckpt.image,
   free |-> bm.free_list \cup bm.free_blocks_in_use \cup bm.modified_blocks,
   multi |-> bm.multi_use_blocks, metadata |-> mm.blocks, block_count |-> bm.max_block]

\* WriteHeader under single_file_block_lock: what the header is to say.
Captured ==
  [iteration |-> header.iteration + 1, cells |-> ckpt.cells, table |-> ckpt.table,
   segments |-> ckpt.image,
   free |-> bm.free_list \cup bm.free_blocks_in_use \cup bm.modified_blocks
              \cup bm.newly_used_blocks,
   multi |-> [b \in Blocks |-> IF b \in bm.newly_used_blocks THEN 0
                               ELSE bm.multi_use_blocks[b]],
   metadata |-> mm.blocks, block_count |-> bm.max_block]

WrittenSize(h) ==
  Cardinality(h.free) + Cardinality(MultiUse(h.multi)) + Cardinality(DOMAIN h.metadata)

\* Flush writes the metadata, with the list in it, and an fsync follows; then
\* the header goes into the slot that is not active.
WriteHeader ==
  /\ ckpt.pc = "capturing"
  /\ WrittenSize(Captured) <= ckpt.reserved * HandleEntries
  /\ unsynced' = {}
  /\ header' = Captured
  /\ previous' = header
  /\ ckpt' = [Idle EXCEPT !.pc = "header", !.freed = bm.modified_blocks]
  /\ UNCHANGED <<bm, mm, segs, retired, dying, log, early, statements, restarts>>

\* "Free List Block Writer ran out of blocks": the database is invalidated.
FreeListTooLong ==
  /\ ckpt.pc = "capturing"
  /\ WrittenSize(Captured) > ckpt.reserved * HandleEntries
  /\ ckpt' = [ckpt EXCEPT !.pc = "failed"]
  /\ UNCHANGED <<bm, mm, segs, retired, dying, unsynced, header, previous, log, early,
                 statements, restarts>>

\* The header is on disk: the blocks that only the last checkpoint used are
\* free.
FreedBlocksReleased ==
  FoldSet(LAMBDA b, a : AddFreeBlock(a, b, Registered),
          [bm EXCEPT !.modified_blocks = @ \ ckpt.freed], ckpt.freed)

\* The end of the file is cut off and the checkpoint's log becomes the log.
FinishCheckpoint ==
  /\ ckpt.pc = "header" /\ InState("logging") = {}
  /\ SyncFile
  /\ bm' = Truncated(FreedBlocksReleased)
  /\ log' = [main |-> log.checkpoint, checkpoint |-> EmptyLog]
  /\ ckpt' = Idle
  /\ UNCHANGED <<mm, segs, retired, dying, header, early, statements, restarts>>

-----------------------------------------------------------------------------
(* Crash and restart. *)

\* The header that LoadExistingDatabase takes, the one with the higher
\* iteration: the one written last unless a crash loses the unsynced write.
AfterCrash == {header, previous} \ {None}

\* The log that is replayed on top of header h: the main log is discarded
\* when h is the checkpoint that its marker announces.
ReplayedLog(h) ==
  IF ckpt.pc = "header" /\ h = header
  THEN log.checkpoint
  ELSE [appended |-> Over(log.main.appended, log.checkpoint.appended),
        dropped |-> log.main.dropped \cup log.checkpoint.dropped]

\* The accounts after LoadFreeList and the marks for the logged blocks.
Replayed(h, l) ==
  FoldSet(LAMBDA p, a : MarkBlockAsUsed(a, l.appended[p]),
          Loaded(h.free, h.multi, h.block_count),
          {p \in DOMAIN l.appended : l.appended[p] # None})

\* The segments of a header and a log, before the drops in it are replayed.
Content(h, l) == Over(h.segments, l.appended)

Restart ==
  /\ restarts < MaxRestarts
  /\ restarts' = restarts + 1
  /\ \E h \in AfterCrash :
       LET l == ReplayedLog(h)
           content == Content(h, l)
           gone == {p \in l.dropped : p \in DOMAIN content}
           live == DOMAIN content \ gone
       IN  /\ header' = h
           /\ bm' = FoldSet(LAMBDA p, a : MarkBlockAsModified(a, content[p], {}),
                            Replayed(h, l), {p \in gone : content[p] # None})
           /\ mm' = [blocks |-> h.metadata, modified |-> Occupied(h.metadata)]
           /\ segs' = [p \in Segments |->
                         IF p \in live THEN [state |-> "committed", block |-> content[p]]
                         ELSE [state |-> "none", block |-> None]]
           /\ log' = [main |-> l, checkpoint |-> EmptyLog]
  /\ retired' = {} /\ dying' = {} /\ unsynced' = {} /\ previous' = None
  /\ ckpt' = Idle
  /\ UNCHANGED <<early, statements>>

-----------------------------------------------------------------------------

Next ==
  \/ \E p \in Segments : InsertRows(p) \/ DropSegment(p)
  \/ \E ps \in SUBSET Segments : WriteOptimistically(ps)
  \/ \E b \in Blocks : Rollback(b) \/ WriteRowGroupData(b)
  \/ FlushCommit
  \/ RevertCommit
  \/ \E b \in Blocks : ReleaseHandle(b) \/ DestroyHandle(b)
  \/ \E b \in Blocks, skipped \in SUBSET Blocks : StartCheckpoint(b, skipped)
  \/ \E p \in Segments : KeepSegment(p) \/ RewriteSegment(p) \/ ShareBlock(p)
  \/ \E b \in Blocks : WriteTable(b) \/ ReserveFreeListBlock(b)
  \/ WriteUnchangedTable
  \/ MarkMetadata
  \/ FreeListTooLong
  \/ WriteHeader
  \/ FinishCheckpoint
  \/ Restart

Spec == Init /\ [][Next]_vars

-----------------------------------------------------------------------------
(* Properties. *)

TypeOK ==
  /\ bm \in Accounts
  /\ DOMAIN mm.blocks \subseteq Blocks /\ DOMAIN mm.modified \subseteq Blocks
  /\ segs \in [Segments -> [state : {"none", "optimistic", "logging", "committed"},
                            block : Blocks \cup {None}]]
  /\ retired \subseteq Blocks /\ dying \subseteq Blocks /\ early \subseteq Blocks
  /\ unsynced \subseteq Cell
  /\ \A l \in {"main", "checkpoint"} : log[l].appended \in Image

\* What a restart reads from the file, for every outcome of a crash now: the
\* metadata and the segments of the header, and the blocks the log names.
NeededCells ==
  UNION {h.cells \cup {Data(b) : b \in BlocksOf(h.segments)
                                        \cup BlocksOf(ReplayedLog(h).appended)} :
           h \in AfterCrash}

\* A crash at any time finds a whole database: whatever the header it will
\* load and the log it will replay refer to is on disk, lies inside the file
\* and is not on the free list, where the next write could take it.
RecoveryIntact ==
  /\ NeededCells \cap unsynced = {}
  /\ \A c \in NeededCells : c[1] < bm.max_block /\ c[1] \notin bm.free_list

\* No block that some handle refers to is on the free list: a scan never has
\* its block written under it, and "Free block is already registered" is
\* never thrown.
FreeBlocksUnheld == TypeOK /\ bm.free_list \cap Registered = {}

\* No InternalException and no failing D_ASSERT where blocks change their
\* account: no block is freed twice or past the end of the file, counted up
\* while it is free, or made a metadata block twice, and an unchanged table
\* keeps a sub-block that the last checkpoint occupied.  And no checkpoint
\* fails for want of room for its free list (FreeListBlockWriter) unless a
\* transaction took a block after the room was reserved: that one is reachable.
NoInternalError == ~bm.failed /\ (ckpt.pc = "failed" => ckpt.crowded)

References(b) == Cardinality(Sharing(b)) + (IF b \in DOMAIN mm.blocks THEN 1 ELSE 0)

\* VerifyBlocks for block b: exactly one of used, free and soon free, and the
\* multi-use count is the number of references when there are several.
Accounted(b) ==
  /\ \/ References(b) > 0
     \/ b \in bm.free_list \cup bm.free_blocks_in_use \cup bm.modified_blocks
  /\ References(b) > 0 =>
       b \notin bm.free_list \cup bm.free_blocks_in_use \cup bm.modified_blocks
  /\ bm.multi_use_blocks[b] = IF References(b) > 1 THEN References(b) ELSE 0

\* Every block of the file is accounted for, at every step and after every
\* restart, but for the blocks that a commit logged while a checkpoint was
\* on its way to its list of free blocks.
BlocksAccounted == \A b \in 0 .. bm.max_block - 1 : b \in early \/ Accounted(b)
=============================================================================
