-------------------------- MODULE RowVersionManager --------------------------
(***************************************************************************)
(* One vector of a table's rows under concurrent transactions: deletes,    *)
(* appends, stepwise commit, failing commits and rollbacks, clean-up and   *)
(* the checkpoint that compresses and stores the version information       *)
(* (storage/table/row_version_manager.cpp, and the parts of the undo       *)
(* buffer, the transaction manager and the checkpoint that call it).       *)
(*                                                                         *)
(* Each call under version_lock is one step.  A commit or rollback takes   *)
(* one step per undo entry: transaction_lock is held throughout (no        *)
(* transaction starts or ends meanwhile), version_lock is not, so deletes  *)
(* of other transactions, clean-up and compression interleave with it.     *)
(*                                                                         *)
(* The table has an index that vacuum cannot rebuild, so that appends go   *)
(* on in the last vector of a loaded or checkpointed row group             *)
(* (RowGroupCollection::InitializeAppend); without one they would start a  *)
(* new row group.                                                          *)
(***************************************************************************)
EXTENDS ChunkVectorInfo

CONSTANTS
  Txn,          \* transactions, numbered from 1
  InitialRows,  \* rows of the vector that were loaded from disk
  DeleteLists,  \* the row lists a DELETE may hand to the vector
  MaxUndo,      \* bound: undo entries of a transaction
  MaxClock      \* bound: timestamps

ASSUME RowVersionAssumption ==
  /\ Txn \subseteq Nat \ {0}
  /\ InitialRows \in 0 .. VectorSize
  /\ MaxUndo \in Nat
  /\ MaxClock \in 2 .. (TRANSACTION_ID_START - 1)
  /\ DeleteLists \subseteq Seq(Row)
  /\ \A t \in Txn : TRANSACTION_ID_START + t < NOT_DELETED_ID

VARIABLES
  info,        \* vector_info[vector_idx]
  row_count,   \* rows of the vector, those of a flushed append included
  clock,       \* current_start_timestamp
  status,      \* of each transaction
  start_time,
  undo,        \* undo buffer of each transaction
  ending,      \* the transaction that holds transaction_lock to end
  cleanup,     \* bound recorded for a committed transaction's clean-up, or 0
  oldest, newest,  \* {} or {id}: *_uncheckpointed_delete_commit
  needs_check, \* needs_compression_check
  ckpt,        \* the checkpoint: phase, its snapshot bound, the bound it read
  disk,        \* what the last checkpoint stored
  ins, del,    \* reference: insert and delete id of every row, uncompressed
  strayed,     \* history: rows that a conflict gave back although an earlier
               \* call of the same transaction had deleted them
  ghosts       \* history: rows stored as deleted that were not there, of an
               \* append that was reverted

vars == <<info, row_count, clock, status, start_time, undo, ending, cleanup,
          oldest, newest, needs_check, ckpt, disk, ins, del, strayed, ghosts>>

TransactionId(t) == TRANSACTION_ID_START + t
Idle == [txn |-> 0, phase |-> "none", pos |-> 0, id |-> 0]
NoCheckpoint == [phase |-> "none", bound |-> 0, lowest |-> 0]

Init ==
  /\ info = NoInfo
  /\ row_count = InitialRows
  /\ clock = 2
  /\ status = [t \in Txn |-> "new"]
  /\ start_time = [t \in Txn |-> 0]
  /\ undo = [t \in Txn |-> << >>]
  /\ ending = Idle
  /\ cleanup = [t \in Txn |-> 0]
  /\ oldest = {} /\ newest = {}
  /\ needs_check = FALSE
  /\ ckpt = NoCheckpoint
  /\ disk = [type |-> "EMPTY_INFO", mask |-> {}]
  /\ ins = [r \in Row |-> 0]
  /\ del = [r \in Row |-> NOT_DELETED_ID]
  /\ strayed = {} /\ ghosts = {}

View(t) == [bound |-> start_time[t], id |-> TransactionId(t)]
Active(t) == status[t] \in {"active", "failed"}

\* lowest_visibility_bound: of the active transactions, the checkpoint's own
\* included; AllCommitted when there is none.
LowestBound(leaving) ==
  LET starts == {start_time[t] : t \in {u \in Txn : Active(u)} \ leaving}
                \union (IF ckpt.phase = "none" THEN {} ELSE {ckpt.bound})
  IN  IF starts = {} THEN TRANSACTION_ID_START
      ELSE CHOOSE b \in starts : \A c \in starts : b <= c

\* GetVectorInfo: an absent info is created.
Present(i) == [i EXCEPT !.present = TRUE]

-----------------------------------------------------------------------------
\* Transactions are numbered in the order in which they get their ids.
StartTransaction(t) ==
  /\ status[t] = "new" /\ ending = Idle
  /\ \A u \in Txn : u < t => status[u] # "new"
  /\ clock < MaxClock
  /\ status' = [status EXCEPT ![t] = "active"]
  /\ start_time' = [start_time EXCEPT ![t] = clock]
  /\ clock' = clock + 1
  /\ UNCHANGED <<info, row_count, undo, ending, cleanup, oldest, newest,
                 needs_check, ckpt, disk, ins, del, strayed, ghosts>>

\* The rows a DELETE finds were visible to its snapshot when it scanned them:
\* another transaction may have deleted them since, and so may an earlier call
\* for the same statement (DELETE ... USING delivers a row once per match).
MayDelete(t, rows) ==
  \A i \in DOMAIN rows :
    /\ rows[i] < row_count
    /\ \/ Fetch(info, View(t), rows[i])
       \/ DeleteId(info, rows[i]) = TransactionId(t)

\* The rows of earlier calls that a conflict marks alive with its own.
GivenBack(t, new) ==
  {r \in Row : DeleteId(info, r) = TransactionId(t) /\ DeleteId(new, r) = NOT_DELETED_ID}

\* A transaction that has flushed its local storage is committing: it holds
\* the WAL lock until it has ended.
FlushedAppend(t) == \E i \in DOMAIN undo[t] : undo[t][i].type = "INSERT_TUPLE"
WALLockFree(t) == \A u \in Txn \ {t} : Active(u) => ~FlushedAppend(u)

\* VersionDeleteState::Flush: DeleteRows, then PushDelete.
DeleteRows(t, rows) ==
  LET out == Delete(Present(info), TransactionId(t), rows)
  IN  /\ status[t] = "active" /\ ending.txn # t
      /\ ~FlushedAppend(t) /\ Len(undo[t]) < MaxUndo
      /\ MayDelete(t, rows)
      /\ info' = out.info
      /\ needs_check' = TRUE
      /\ status' = IF out.conflict THEN [status EXCEPT ![t] = "failed"] ELSE status
      /\ undo' = IF out.rows = << >> THEN undo
                 ELSE [undo EXCEPT ![t] = Append(@, [type |-> "DELETE_TUPLE",
                                                     rows |-> out.rows])]
      /\ strayed' = strayed \union GivenBack(t, out.info)
      /\ del' = [r \in Row |->
                   IF r \in Elements(out.rows) THEN TransactionId(t)
                   ELSE IF r \in GivenBack(t, out.info) THEN NOT_DELETED_ID ELSE del[r]]
      /\ UNCHANGED <<row_count, clock, start_time, ending, cleanup, oldest,
                     newest, ckpt, disk, ins, ghosts>>

\* The flush of a transaction's local storage, at the start of its commit,
\* before it takes transaction_lock: others may be rolling back.
\* Rows that do not fit go to the next vector.
Fits(end) == end <= VectorSize

\* While a checkpoint is active every append goes to a new row group.
AppendRequiresNewRowGroup == ckpt.phase # "none"

AppendVersionInfo(t, n) ==
  LET end == row_count + n
  IN  /\ status[t] = "active" /\ ~FlushedAppend(t) /\ WALLockFree(t)
      /\ ~AppendRequiresNewRowGroup
      /\ ending = Idle \/ (ending.phase = "rollback" /\ ending.txn # t)
      /\ Len(undo[t]) < MaxUndo
      /\ Fits(end)
      /\ info' = IF row_count = 0 /\ end = VectorSize
                 THEN NewInfo(TransactionId(t), NOT_DELETED_ID)
                 ELSE AppendIds(Present(info), row_count, end, TransactionId(t))
      /\ needs_check' = TRUE
      /\ row_count' = end
      /\ undo' = [undo EXCEPT ![t] = Append(@, [type |-> "INSERT_TUPLE",
                                                start |-> row_count, end |-> end])]
      /\ ins' = [r \in Row |-> IF r \in row_count .. (end - 1)
                               THEN TransactionId(t) ELSE ins[r]]
      /\ UNCHANGED <<clock, status, start_time, ending, cleanup, oldest,
                     newest, ckpt, disk, del, strayed, ghosts>>

-----------------------------------------------------------------------------
(* The end of a transaction, one undo entry per step. *)

CommitTransaction(t) ==
  /\ status[t] = "active" /\ ending = Idle
  /\ undo[t] = << >> \/ WALLockFree(t)
  /\ clock < MaxClock
  /\ ending' = [txn |-> t, phase |-> "commit", pos |-> 1, id |-> clock]
  /\ clock' = clock + 1
  /\ UNCHANGED <<info, row_count, status, start_time, undo, cleanup, oldest,
                 newest, needs_check, ckpt, disk, ins, del, strayed, ghosts>>

RollbackTransaction(t) ==
  /\ Active(t) /\ ending = Idle
  /\ ending' = [txn |-> t, phase |-> "rollback", pos |-> Len(undo[t]),
                id |-> NOT_DELETED_ID]
  /\ UNCHANGED <<info, row_count, clock, status, start_time, undo, cleanup,
                 oldest, newest, needs_check, ckpt, disk, ins, del, strayed,
                 ghosts>>

\* The watermarks {} or {id} of the deletes that no checkpoint has stored.
\* Mutant: the oldest follows the newest.
OldestIsNewest(ids, id) == IF ids = {} \/ \E n \in ids : id > n THEN {id} ELSE ids
Newest(ids, id) == IF ids = {} \/ \E n \in ids : id > n THEN {id} ELSE ids
Oldest(ids, id) == IF ids = {} \/ \E n \in ids : id < n THEN {id} ELSE ids

\* RowVersionManager::CommitDelete with the id of the phase.
WriteDelete(rows, id) ==
  /\ info' = CommitDelete(Present(info), id, rows)
  /\ needs_check' = TRUE
  /\ newest' = Newest(newest, id)
  /\ oldest' = Oldest(oldest, id)
  /\ del' = [r \in Row |-> IF r \in Elements(rows) THEN id ELSE del[r]]
  /\ UNCHANGED <<row_count, ins>>

\* RowVersionManager::CommitAppend
WriteAppend(start, end, id) ==
  /\ info' = CommitAppend(info, id, start, end)
  /\ ins' = [r \in Row |-> IF r \in start .. (end - 1) THEN id ELSE ins[r]]
  /\ UNCHANGED <<row_count, needs_check, newest, oldest, del>>

\* RowVersionManager::RevertAppend: an emptied vector loses its info, in a
\* partly filled one the ids of the reverted rows stay behind.
RevertAppend(start) ==
  /\ info' = IF start = 0 THEN NoInfo ELSE info
  /\ row_count' = start
  /\ ins' = [r \in Row |-> IF r >= start THEN 0 ELSE ins[r]]
  /\ UNCHANGED <<needs_check, newest, oldest, del>>

\* One entry of UndoBuffer::Commit, in order.
CommitEntry ==
  LET t == ending.txn
  IN  /\ ending.phase = "commit" /\ ending.pos <= Len(undo[t])
      /\ LET e == undo[t][ending.pos]
         IN  \/ e.type = "DELETE_TUPLE" /\ WriteDelete(e.rows, ending.id)
             \/ e.type = "INSERT_TUPLE" /\ WriteAppend(e.start, e.end, ending.id)
      /\ ending' = [ending EXCEPT !.pos = @ + 1]
      /\ UNCHANGED <<clock, status, start_time, undo, cleanup, ckpt, disk,
                     strayed, ghosts>>

\* The commit fails (an entry throws, or flushing the WAL does): what was
\* committed is reverted, and the transaction is rolled back.
CommitFails ==
  /\ ending.phase = "commit" /\ undo[ending.txn] # << >>
  /\ ending' = [ending EXCEPT !.phase = "revert", !.pos = @ - 1,
                              !.id = TransactionId(ending.txn)]
  /\ UNCHANGED <<info, row_count, clock, status, start_time, undo, cleanup,
                 oldest, newest, needs_check, ckpt, disk, ins, del, strayed,
                 ghosts>>

\* One entry of RevertCommit (id is the transaction's) or of Rollback (id is
\* NOT_DELETED_ID), in reverse order.
UndoEntry ==
  LET t == ending.txn
  IN  /\ ending.phase \in {"revert", "abort", "rollback"} /\ ending.pos > 0
      /\ LET e == undo[t][ending.pos]
         IN  \/ e.type = "DELETE_TUPLE" /\ WriteDelete(e.rows, ending.id)
             \/ e.type = "INSERT_TUPLE" /\ RevertAppend(e.start)
      /\ ending' = [ending EXCEPT !.pos = @ - 1]
      /\ UNCHANGED <<clock, status, start_time, undo, cleanup, ckpt, disk,
                     strayed, ghosts>>

RevertDone ==
  /\ ending.phase = "revert" /\ ending.pos = 0
  /\ ending' = [ending EXCEPT !.phase = "abort", !.id = NOT_DELETED_ID,
                              !.pos = Len(undo[ending.txn])]
  /\ UNCHANGED <<info, row_count, clock, status, start_time, undo, cleanup,
                 oldest, newest, needs_check, ckpt, disk, ins, del, strayed,
                 ghosts>>

\* RemoveTransaction records the bound that the clean-up of an append will
\* use (a delete leaves nothing to clean up in the version information).
CommitDone ==
  LET t == ending.txn
  IN  /\ ending.phase = "commit" /\ ending.pos = Len(undo[t]) + 1
      /\ status' = [status EXCEPT ![t] = "committed"]
      /\ cleanup' = IF FlushedAppend(t)
                    THEN [cleanup EXCEPT ![t] = LowestBound({t})] ELSE cleanup
      /\ start_time' = [start_time EXCEPT ![t] = 0]
      /\ ending' = Idle
      /\ UNCHANGED <<info, row_count, clock, undo, oldest, newest, needs_check,
                     ckpt, disk, ins, del, strayed, ghosts>>

RollbackDone ==
  LET t == ending.txn
  IN  /\ ending.phase \in {"abort", "rollback"} /\ ending.pos = 0
      /\ status' = [status EXCEPT ![t] = "aborted"]
      /\ start_time' = [start_time EXCEPT ![t] = 0]
      /\ undo' = [undo EXCEPT ![t] = << >>]
      /\ ending' = Idle
      /\ UNCHANGED <<info, row_count, clock, cleanup, oldest, newest,
                     needs_check, ckpt, disk, ins, del, strayed, ghosts>>

\* CleanupAppend for an append of t that filled the vector, at any time after
\* the commit, with the bound recorded then.
CleanupAppend(t) ==
  /\ cleanup[t] # 0
  /\ cleanup' = [cleanup EXCEPT ![t] = 0]
  /\ info' = IF /\ info.present
                /\ \E i \in DOMAIN undo[t] : /\ undo[t][i].type = "INSERT_TUPLE"
                                             /\ undo[t][i].end = VectorSize
                /\ Cleanup(info, cleanup[t])
             THEN NoInfo ELSE info
  /\ UNCHANGED <<row_count, clock, status, start_time, undo, ending, oldest,
                 newest, needs_check, ckpt, disk, ins, del, strayed, ghosts>>

-----------------------------------------------------------------------------
(* The checkpoint (started under the WAL lock): its own read-only          *)
(* transaction stays active, so that the bound it reads once and applies   *)
(* later cannot run ahead of a snapshot.                                   *)

CheckpointStart ==
  /\ ckpt.phase = "none" /\ ending = Idle
  /\ \A u \in Txn : Active(u) => ~FlushedAppend(u)
  /\ clock < MaxClock
  /\ ckpt' = [phase |-> "started", bound |-> clock, lowest |-> 0]
  /\ clock' = clock + 1
  /\ UNCHANGED <<info, row_count, status, start_time, undo, ending, cleanup,
                 oldest, newest, needs_check, disk, ins, del, strayed, ghosts>>

\* LowestVisibilityBound() is an atomic read, without transaction_lock.
CheckpointReadBound ==
  /\ ckpt.phase = "started"
  /\ ckpt' = [ckpt EXCEPT !.phase = "read", !.lowest = LowestBound({})]
  /\ UNCHANGED <<info, row_count, clock, status, start_time, undo, ending,
                 cleanup, oldest, newest, needs_check, disk, ins, del, strayed,
                 ghosts>>

\* CompressVersionInfo of the row group.
CheckpointCompress ==
  LET done == CompressVersionIds(info, ckpt.lowest)
  IN  /\ ckpt.phase = "read"
      /\ info' = IF needs_check /\ info.present THEN done ELSE info
      /\ needs_check' = (needs_check /\ info.present /\ done.recheck)
      /\ ckpt' = [ckpt EXCEPT !.phase = "compressed"]
      /\ UNCHANGED <<row_count, clock, status, start_time, undo, ending,
                     cleanup, oldest, newest, disk, ins, del, strayed, ghosts>>

Below(ids, bound) == ids # {} /\ \A id \in ids : id < bound

\* RowVersionManager::Checkpoint: rewrite what is stored if a delete below
\* the bound has not been stored yet.
CheckpointDeletes ==
  /\ ckpt.phase = "compressed"
  /\ disk' = IF ~Below(oldest, ckpt.bound) THEN disk
             ELSE IF info.present /\ HasDeletes(info, ckpt.bound)
             THEN Write(info, ckpt.bound)
             ELSE [type |-> "EMPTY_INFO", mask |-> {}]
  /\ ghosts' = IF ~Below(oldest, ckpt.bound) THEN ghosts
               ELSE {r \in Row : r >= row_count /\ DeleteId(Read(disk'), r) = 0}
  /\ IF Below(oldest, ckpt.bound) /\ Below(newest, ckpt.bound)
     THEN oldest' = {} /\ newest' = {}
     ELSE UNCHANGED <<oldest, newest>>
  /\ ckpt' = [ckpt EXCEPT !.phase = "written"]
  /\ UNCHANGED <<info, row_count, clock, status, start_time, undo, ending,
                 cleanup, needs_check, ins, del, strayed>>

CheckpointDone ==
  /\ ckpt.phase = "written" /\ ending = Idle
  /\ ckpt' = NoCheckpoint
  /\ UNCHANGED <<info, row_count, clock, status, start_time, undo, ending,
                 cleanup, oldest, newest, needs_check, disk, ins, del, strayed,
                 ghosts>>

Checkpoint ==
  \/ CheckpointStart \/ CheckpointReadBound \/ CheckpointCompress
  \/ CheckpointDeletes \/ CheckpointDone

Next ==
  \/ \E t \in Txn :
       \/ StartTransaction(t)
       \/ \E rows \in DeleteLists : DeleteRows(t, rows)
       \/ \E n \in 1 .. VectorSize : AppendVersionInfo(t, n)
       \/ CommitTransaction(t) \/ RollbackTransaction(t)
       \/ CleanupAppend(t)
  \/ CommitEntry \/ CommitFails \/ UndoEntry \/ RevertDone
  \/ CommitDone \/ RollbackDone
  \/ Checkpoint

Spec == Init /\ [][Next]_vars

-----------------------------------------------------------------------------
Id == 0 .. NOT_DELETED_ID

\* Type invariant: the info record, the transactions and the reference ids.
TypeOK ==
  /\ info.delete_state \in {"CONSTANT", "MASKED", "ARRAY"}
  /\ info.constant_delete_id \in Id /\ info.mask_delete_id \in Id
  /\ info.deleted \in [Row -> Id] /\ info.inserted \in [Row -> Id]
  /\ info.deleted_mask \subseteq Row
  /\ row_count \in 0 .. VectorSize
  /\ clock \in 2 .. MaxClock
  /\ status \in [Txn -> {"new", "active", "failed", "committed", "aborted"}]
  /\ ending.txn \in Txn \union {0} /\ ending.pos \in 0 .. (MaxUndo + 1)
  /\ ins \in [Row -> Id] /\ del \in [Row -> Id]
  /\ strayed \subseteq Row /\ ghosts \subseteq Row

\* The snapshots that exist: active transactions, the checkpoint's, and the
\* one a transaction starting now would get.
Nobody == NOT_DELETED_ID + 1
Snapshots ==
  {View(t) : t \in {u \in Txn : Active(u)}}
  \union (IF ckpt.phase = "none" THEN {} ELSE {[bound |-> ckpt.bound, id |-> Nobody]})
  \union (IF ending = Idle THEN {[bound |-> clock, id |-> Nobody]} ELSE {})

\* Compression, collapsing to constants and masks, dropping the info and
\* conflict handling never change what any snapshot sees: it is what the
\* per-row ids of a plain implementation would show.
VisibilityExact ==
  \A view \in Snapshots, r \in 0 .. (row_count - 1) :
    Fetch(info, view, r) <=> Sees(view, ins[r]) /\ ~Sees(view, del[r])

\* The rows of a running transaction's undo buffer carry its id.
UndoRows(t) == UNION {Elements(undo[t][i].rows) :
                        i \in {j \in DOMAIN undo[t] : undo[t][j].type = "DELETE_TUPLE"}}
UndoOwns(r) ==
  \A t \in Txn : Active(t) /\ ending.txn # t /\ r \in UndoRows(t) =>
    DeleteId(info, r) = TransactionId(t)

\* No two committed transactions have deleted the row, and once one has, the
\* row is gone for every new snapshot.
DeletedOnce(r) ==
  \A t \in Txn : status[t] = "committed" /\ r \in UndoRows(t) =>
    /\ \A u \in Txn \ {t} : status[u] = "committed" => r \notin UndoRows(u)
    /\ DeleteId(info, r) < clock

\* Deletes are kept by the one who made them: conflicts, reverted commits and
\* rollbacks, which overwrite ids without looking at them, neither take over
\* nor bring back a row that another transaction deleted.  The rows that a
\* conflict gave back too many of are left out: see FirstDeleterWins.
DeletesOwned ==
  TypeOK /\ \A r \in Row \ strayed : UndoOwns(r) /\ DeletedOnce(r)

\* First deleter wins, for every row: after a conflict no row is given back
\* that the call had not deleted itself ("unset any deleted tuples we set in
\* this loop", ChunkVectorInfo::Delete), so that no rollback undoes a delete
\* that another transaction has committed.
FirstDeleterWins == \A r \in Row : DeletedOnce(r)

\* What is on disk of a row is what the checkpoint's snapshot sees of it.
StoredRight(r) == DeleteId(Read(disk), r) = 0 <=> del[r] < ckpt.bound

\* A checkpoint leaves on disk exactly the deletes below its bound, of loaded
\* and of appended rows, although it skips the write when its two watermarks
\* say that nothing changed.  Left out are the rows in ghosts (appended anew
\* where the last write found the ids of a reverted append, and stored them as
\* deleted) and in strayed (a rollback may bring back a stored delete).
DiskMatchesBound ==
  ckpt.phase = "written" =>
    \A r \in (0 .. (row_count - 1)) \ (ghosts \union strayed) : StoredRight(r)

\* Snapshot stability: what a running transaction sees of the vector changes
\* only by its own deletes (the rows in strayed are left out).
VisibleRows(t) == {r \in 0 .. (row_count - 1) : Fetch(info, View(t), r)}
SnapshotStableStep ==
  \A t \in Txn :
    Active(t) /\ Active(t)' /\ ending.txn # t /\ undo'[t] = undo[t]
      => VisibleRows(t)' \ strayed' = VisibleRows(t) \ strayed'
SnapshotStable == [][SnapshotStableStep]_vars
=============================================================================
