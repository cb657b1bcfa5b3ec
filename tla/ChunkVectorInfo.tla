--------------------------- MODULE ChunkVectorInfo ---------------------------
(***************************************************************************)
(* The version information of one vector of rows                           *)
(* (storage/table/chunk_info.cpp): an insert id and a delete id per row,   *)
(* stored as a constant, as a mask that shares one delete id, or as an     *)
(* array.  The operators here are the class's methods as functions from an *)
(* info record to a new one; fields that the code frees are set back to    *)
(* their initial value.                                                    *)
(***************************************************************************)
EXTENDS Integers, Sequences, FiniteSets

CONSTANTS
  VectorSize,             \* STANDARD_VECTOR_SIZE
  TRANSACTION_ID_START,   \* ids below are commit ids, ids from here on are
                          \* those of running transactions
  NOT_DELETED_ID          \* the delete id of a row that is not deleted

ASSUME IdAssumption ==
  /\ VectorSize \in Nat \ {0}
  /\ TRANSACTION_ID_START \in Nat
  /\ NOT_DELETED_ID \in Nat
  /\ 0 < TRANSACTION_ID_START
  /\ TRANSACTION_ID_START < NOT_DELETED_ID

Row == 0 .. (VectorSize - 1)

IsCommitted(id) == id < TRANSACTION_ID_START

\* What a snapshot sees: ids below its bound, and its own transaction's id.
Sees(view, id) == id < view.bound \/ id = view.id

-----------------------------------------------------------------------------
NewInfo(insert_id, delete_id) ==
  [present            |-> TRUE,
   delete_state       |-> "CONSTANT",
   constant_delete_id |-> delete_id,
   deleted_mask       |-> {},            \* the rows whose bit says deleted
   mask_delete_id     |-> 0,
   deleted            |-> [r \in Row |-> NOT_DELETED_ID],
   constant_insert    |-> TRUE,          \* HasConstantInsertionId()
   constant_insert_id |-> insert_id,
   inserted           |-> [r \in Row |-> 0],
   recheck            |-> TRUE]

\* A vector without version information: every row is visible to everyone.
NoInfo == [NewInfo(0, NOT_DELETED_ID) EXCEPT !.present = FALSE]

InsertId(info, r) ==
  IF info.constant_insert THEN info.constant_insert_id ELSE info.inserted[r]

DeleteId(info, r) ==
  CASE info.delete_state = "CONSTANT" -> info.constant_delete_id
    [] info.delete_state = "MASKED"   -> IF r \in info.deleted_mask
                                         THEN info.mask_delete_id
                                         ELSE NOT_DELETED_ID
    [] info.delete_state = "ARRAY"    -> info.deleted[r]

\* Fetch, and the rows that GetSelVector selects for a standard scan.
Fetch(info, view, r) ==
  Sees(view, InsertId(info, r)) /\ ~Sees(view, DeleteId(info, r))

-----------------------------------------------------------------------------
DeleteArray(info) == [r \in Row |-> DeleteId(info, r)]

\* FreeDeleteData, followed by the assignment of the constant.
ConstantDeletes(info, id) ==
  [info EXCEPT !.delete_state = "CONSTANT",
               !.constant_delete_id = id,
               !.deleted_mask = {},
               !.deleted = [r \in Row |-> NOT_DELETED_ID]]

\* GetInitializedDeletedPointer (DecompressDeleteMask included), and the
\* write of a new array of delete ids through that pointer.
ArrayDeletes(info, ids) ==
  [info EXCEPT !.delete_state = "ARRAY",
               !.deleted_mask = {},
               !.deleted = ids,
               !.recheck = TRUE]

\* CompressDeleteToMask
MaskedDeletes(info, id) ==
  [info EXCEPT !.delete_state = "MASKED",
               !.deleted_mask = {r \in Row : info.deleted[r] # NOT_DELETED_ID},
               !.mask_delete_id = id,
               !.deleted = [r \in Row |-> NOT_DELETED_ID]]

Elements(rows) == {rows[i] : i \in DOMAIN rows}

\* rows[i] == i for the whole list: PushDelete's is_consecutive, and with all
\* rows of the vector DeletesEntireVector.
IsConsecutive(rows) == \A i \in DOMAIN rows : rows[i] = i - 1
\* Mutant: the length of the list is not looked at.
CoversPrefix(rows) == IsConsecutive(rows)
CoversVector(rows) == Len(rows) = VectorSize /\ IsConsecutive(rows)

-----------------------------------------------------------------------------
(* Delete(transaction_id, rows): the result says whether it threw          *)
(* "Conflict on tuple deletion!", and which rows it deleted (the rows left *)
(* in the compacted array, which go to the undo buffer).                   *)

\* The delete id belongs to someone else.
\* Mutant: only running deleters conflict.
ConflictsWhileRunning(id, tid) ==
  id \notin {tid, NOT_DELETED_ID} /\ ~IsCommitted(id)
Conflicts(id, tid) == id \notin {tid, NOT_DELETED_ID}

\* The first position whose row is deleted by someone else, or Len(rows) + 1.
FirstConflict(ids, tid, rows) ==
  LET bad == {i \in DOMAIN rows : Conflicts(ids[rows[i]], tid)}
  IN  IF bad = {} THEN Len(rows) + 1
      ELSE CHOOSE i \in bad : \A j \in bad : i <= j

\* Position i deletes its row: it was alive, and no earlier position had it.
Deletes(ids, tid, rows, i) ==
  /\ ids[rows[i]] # tid /\ ~Conflicts(ids[rows[i]], tid)
  /\ \A j \in 1 .. (i - 1) : rows[j] # rows[i]

\* The rows deleted by the positions before n, in order (rows[deleted_tuples++]).
DeletedBefore(ids, tid, rows, n) ==
  LET hits == {i \in 1 .. (n - 1) : Deletes(ids, tid, rows, i)}
      nth(k) == CHOOSE i \in hits : Cardinality({j \in hits : j <= i}) = k
  IN  [k \in 1 .. Cardinality(hits) |-> rows[nth(k)]]

\* The array of rows as compaction left it when position n is looked at.
Compacted(ids, tid, rows, n) ==
  LET done == DeletedBefore(ids, tid, rows, n)
  IN  [k \in 1 .. (n - 1) |-> IF k <= Len(done) THEN done[k] ELSE rows[k]]

\* The ids once a conflict at position n is undone: every row that the array
\* holds before n is marked alive again.
UndoConflict(ids, tid, rows, n) ==
  [r \in Row |-> IF r \in Elements(Compacted(ids, tid, rows, n))
                  THEN NOT_DELETED_ID ELSE ids[r]]

DeleteOutcome(info, conflict, rows) ==
  [info |-> info, conflict |-> conflict, rows |-> rows]

ArrayDelete(info, tid, rows) ==
  LET ids == DeleteArray(info)
      n == FirstConflict(ids, tid, rows)
      done == DeletedBefore(ids, tid, rows, n)
  IN  IF n <= Len(rows)
      THEN DeleteOutcome(ArrayDeletes(info, UndoConflict(ids, tid, rows, n)),
                         TRUE, << >>)
      ELSE DeleteOutcome(
             ArrayDeletes(info, [r \in Row |->
               IF r \in Elements(done) THEN tid ELSE ids[r]]),
             FALSE, done)

Delete(info, tid, rows) ==
  LET constant == info.delete_state = "CONSTANT"
      id == info.constant_delete_id
  IN  CASE constant /\ id = tid ->
             DeleteOutcome(info, FALSE, << >>)
        [] constant /\ Conflicts(id, tid) ->
             DeleteOutcome(info, TRUE, << >>)
        [] constant /\ id # tid /\ ~Conflicts(id, tid) /\ CoversVector(rows) ->
             DeleteOutcome([info EXCEPT !.constant_delete_id = tid], FALSE, rows)
        [] OTHER -> ArrayDelete(info, tid, rows)

\* CommitDelete writes id over the rows of an undo entry: a commit id on
\* commit, NOT_DELETED_ID on rollback, the transaction id on a failed commit.
CommitDelete(info, id, rows) ==
  LET ids == [r \in Row |-> IF r \in Elements(rows) THEN id ELSE DeleteId(info, r)]
  IN  CASE CoversVector(rows) -> ConstantDeletes(info, id)
        [] ~CoversVector(rows) /\ info.delete_state = "CONSTANT"
             /\ info.constant_delete_id = id -> info
        [] OTHER -> IF \A r \in Row : ids[r] = id
                    THEN [ConstantDeletes(info, id) EXCEPT !.recheck = TRUE]
                    ELSE ArrayDeletes(info, ids)

-----------------------------------------------------------------------------
(* CompressVersionIds(lowest_visibility_bound) *)

\* The ids of the deleted rows of the array.
DeadRows(info) == {r \in Row : info.deleted[r] # NOT_DELETED_ID}
MaxDeleteId(info) ==
  LET ids == {info.deleted[r] : r \in DeadRows(info)}
  IN  CHOOSE id \in ids : \A other \in ids : other <= id

\* An id that every current and future snapshot sees.
\* Mutant: settled as soon as it is committed.
VisibleOnceCommitted(id, bound) == IsCommitted(id)
VisibleToAll(id, bound) == id < bound

AllVisible(info, bound) ==
  \A r \in DeadRows(info) : VisibleToAll(info.deleted[r], bound)

\* Every delete was committed by one transaction.
OneCommit(info) ==
  LET ids == {info.deleted[r] : r \in DeadRows(info)}
  IN  \A id, other \in ids : id = other /\ IsCommitted(id)

\* The id a mask carries: 0 if visible to all, else the shared commit id.
\* Mutant: the mask always says visible to all.
MaskIdAlwaysZero(info, bound) == 0
MaskId(info, bound) == IF AllVisible(info, bound) THEN 0 ELSE MaxDeleteId(info)

CompressDeletes(info, bound) ==
  CASE info.delete_state # "ARRAY" -> info
    [] info.delete_state = "ARRAY" /\ DeadRows(info) = Row ->
         IF AllVisible(info, bound) THEN ConstantDeletes(info, MaxDeleteId(info))
         ELSE info
    [] info.delete_state = "ARRAY" /\ DeadRows(info) # Row ->
         IF AllVisible(info, bound) \/ OneCommit(info)
         THEN MaskedDeletes(info, MaskId(info, bound))
         ELSE info

CompressInserts(info, bound) ==
  IF ~info.constant_insert /\ \A r \in Row : VisibleToAll(info.inserted[r], bound)
  THEN [info EXCEPT !.constant_insert = TRUE,
                    !.constant_insert_id = 0,
                    !.inserted = [r \in Row |-> 0]]
  ELSE info

\* Something may still compress once the bound advances.
CompressionPending(info) == info.delete_state = "ARRAY" \/ ~info.constant_insert

CompressVersionIds(info, bound) ==
  LET done == CompressInserts(CompressDeletes(info, bound), bound)
  IN  IF info.recheck
      THEN [done EXCEPT !.recheck = CompressionPending(done)]
      ELSE info

-----------------------------------------------------------------------------
\* Append of rows start .. end - 1 by a transaction.
AppendIds(info, start, end, tid) ==
  CASE start = 0 -> [info EXCEPT !.constant_insert_id = tid]
    [] start # 0 /\ info.constant_insert /\ info.constant_insert_id = tid -> info
    [] OTHER ->
         [info EXCEPT !.constant_insert = FALSE,
                      !.inserted = [r \in Row |->
                         IF r \in start .. (end - 1) THEN tid ELSE InsertId(info, r)],
                      !.recheck = TRUE]

CommitAppend(info, id, start, end) ==
  IF info.constant_insert
  THEN [info EXCEPT !.constant_insert_id = id]
  ELSE [info EXCEPT !.inserted = [r \in Row |->
                       IF r \in start .. (end - 1) THEN id ELSE info.inserted[r]],
                    !.recheck = TRUE]

AnyDeleted(info) ==
  info.delete_state # "CONSTANT" \/ info.constant_delete_id # NOT_DELETED_ID

\* The info may be dropped: nothing deleted, all inserts visible to everyone
\* (row 0 is not looked at: the first append carries the lowest id).
\* Mutant: the insert ids are not looked at.
CleanupAnyInsert(info, bound) == ~AnyDeleted(info)
Cleanup(info, bound) ==
  /\ ~AnyDeleted(info)
  /\ IF info.constant_insert THEN info.constant_insert_id < bound
     ELSE \A r \in Row \ {0} : info.inserted[r] < bound

HasDeletes(info, bound) ==
  \/ info.constant_insert /\ ~IsCommitted(info.constant_insert_id)
  \/ AnyDeleted(info) /\ \E r \in Row : DeleteId(info, r) < bound

\* Write and Read: what a checkpoint stores of the vector, and what a load
\* makes of it.  Invisible rows are stored as deleted.
Write(info, bound) ==
  LET visible == {r \in Row :
                    InsertId(info, r) < bound /\ ~(DeleteId(info, r) < bound)}
  IN  CASE visible = Row -> [type |-> "EMPTY_INFO", mask |-> {}]
        [] visible = {}  -> [type |-> "CONSTANT_INFO", mask |-> {}]
        [] OTHER         -> [type |-> "VECTOR_INFO", mask |-> Row \ visible]

Read(stored) ==
  CASE stored.type = "EMPTY_INFO"    -> NoInfo
    [] stored.type = "CONSTANT_INFO" -> [NewInfo(0, 0) EXCEPT !.recheck = FALSE]
    [] stored.type = "VECTOR_INFO"   ->
         [NewInfo(0, NOT_DELETED_ID) EXCEPT !.delete_state = "MASKED",
                                            !.deleted_mask = stored.mask,
                                            !.recheck = FALSE]
=============================================================================
