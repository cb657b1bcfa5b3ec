---------------------------- MODULE UpdateSegment ----------------------------
(***************************************************************************)
(* In-place updates of one vector of a column under concurrent             *)
(* transactions (storage/table/update_segment.cpp, called from             *)
(* standard_column_data.cpp, the undo buffer and the checkpoint).          *)
(*                                                                         *)
(* A column keeps two update segments, one for its values and one for its  *)
(* validity (which rows are not NULL).  The root UpdateInfo of a segment   *)
(* holds the newest value of every updated row, committed or not; behind   *)
(* it a doubly linked chain of UpdateInfos, one per transaction, holds the *)
(* values the transaction overwrote, newest first.  A snapshot reads the   *)
(* root and undoes every UpdateInfo it does not see.                       *)
(*                                                                         *)
(* Each call that holds the segment's lock is one step: a statement        *)
(* updates the values and the validity in two, a commit, a rollback and a  *)
(* clean-up take one per undo entry.                                       *)
(***************************************************************************)
EXTENDS Integers, Sequences, FiniteSets, FiniteSetsExt, TLC

CONSTANTS
  Txn,                   \* transactions, numbered from 1
  VectorSize,            \* STANDARD_VECTOR_SIZE
  Val,                   \* values a column may hold, NULL apart
  NULL,
  InitialColumn,         \* the column as loaded from disk
  Assignments,           \* what an UPDATE may assign: new values of some rows
  MIN_CAPACITY,          \* smallest capacity of a root UpdateInfo (8)
  TRANSACTION_ID_START,
  MaxUpdates,            \* bound: UPDATE statements
  MaxFaults              \* bound: allocations, pins and commits that fail

Row == 0 .. VectorSize - 1
Seg == {"data", "validity"}

ASSUME UpdateSegmentAssumption ==
  /\ Txn \subseteq Nat \ {0} /\ IsFiniteSet(Txn)
  /\ VectorSize \in Nat \ {0}
  /\ NULL \notin Val
  /\ InitialColumn \in [Row -> Val \cup {NULL}]
  /\ \A a \in Assignments : a \in [DOMAIN a -> Val \cup {NULL}] /\ DOMAIN a \subseteq Row
  /\ MIN_CAPACITY \in Nat \ {0}
  /\ TRANSACTION_ID_START \in Nat
  /\ MaxUpdates \in Nat /\ MaxFaults \in Nat

VARIABLES
  column,      \* the column's segments: what is below the updates
  root,        \* root->info[vector_index] of each segment
  info,        \* the UpdateInfos, by pointer
  clock,       \* current_start_timestamp
  status,      \* of each transaction
  start_time,  \* its visibility bound
  commit_id,
  undo,        \* its undo buffer: the segments it created an UpdateInfo for
  updates,     \* statements it ran
  stmt,        \* assignments of its statement still to be made to the validity
  ending,      \* the transaction that holds transaction_lock to end
  cleaned,     \* entries of its undo buffer already cleaned up
  faults,
  disk,        \* what recovery would read: checkpoint and log
  log_start,   \* the same without the commit that is being logged
  assigned     \* reference: the rows each transaction changed, to what

vars == <<column, root, info, clock, status, start_time, commit_id, undo,
          updates, stmt, ending, cleaned, faults, disk, log_start, assigned>>

-----------------------------------------------------------------------------
(* UpdateInfos and the chain *)

Nil == <<"nil", 0>>
RootInfo(g) == <<"root", g>>    \* g counts the reallocations
Node(t) == <<"node", t>>
Pointer == {Nil} \cup {RootInfo(g) : g \in 1 .. VectorSize} \cup {Node(t) : t \in Txn}

MAX_COMMIT_ID == TRANSACTION_ID_START - 1
TransactionId(t) == TRANSACTION_ID_START + t
EmptyTuples == [r \in {} |-> NULL]
NoInfo == [version |-> 0, tuples |-> EmptyTuples, prev |-> Nil, next |-> Nil, max |-> 0]

Sees(t, version) == version < start_time[t] \/ version = TransactionId(t)

\* Walk(s)[n]: the n-th UpdateInfo behind the root, Nil past the end.
Walk(s) ==
  LET walk[n \in 0 .. Cardinality(Txn)] ==
        LET from == IF n = 0 THEN root[s] ELSE walk[n - 1]
        IN  IF from = Nil THEN Nil ELSE info[s][from].next
  IN  walk
Chain(s) == LET walk == Walk(s) IN {walk[n] : n \in DOMAIN walk} \ {Nil}

\* What lies below the updates of a segment, in a column c.  The value of a
\* NULL row is padding.
Padding == NULL
Below(c, s, r) == IF s = "data" THEN c[r] ELSE c[r] # NULL

\* FetchCommitted: the root's values, committed or not.
FetchCommitted(s, r) ==
  IF root[s] # Nil /\ r \in DOMAIN info[s][root[s]].tuples
  THEN info[s][root[s]].tuples[r]
  ELSE Below(column, s, r)

\* FetchUpdates, FetchRows: from newest to oldest, every UpdateInfo that the
\* transaction does not see puts its old values back.
FetchUpdates(t, s, r) ==
  LET walk == Walk(s)
      undone == {n \in DOMAIN walk :
                   /\ walk[n] # Nil
                   /\ ~Sees(t, info[s][walk[n]].version)
                   /\ r \in DOMAIN info[s][walk[n]].tuples}
  IN  IF undone = {} THEN FetchCommitted(s, r)
      ELSE info[s][walk[Max(undone)]].tuples[r]

\* GetCompactCapacity: a power of two, capped at the vector.
NextPowerOfTwo(n) == Min({2 ^ i : i \in 0 .. n} \cap {m \in 1 .. 2 * n : m >= n})
GetCompactCapacity(n) ==
  IF n <= MIN_CAPACITY THEN MIN_CAPACITY
  ELSE Min({NextPowerOfTwo(n), VectorSize})

\* CleanupUpdateInternal: unlink an UpdateInfo from its neighbours.
Unlink(f, p) ==
  [q \in Pointer |->
     CASE q = Nil -> f[q]
       [] q = f[p].prev -> [f[q] EXCEPT !.next = f[p].next]
       [] q = f[p].next -> [f[q] EXCEPT !.prev = f[p].prev]
       [] OTHER -> f[q]]

-----------------------------------------------------------------------------
NoStatement == EmptyTuples
Idle == [txn |-> 0, phase |-> "none", pos |-> 0]

Init ==
  /\ column = InitialColumn
  /\ root = [s \in Seg |-> Nil]
  /\ info = [s \in Seg |-> [p \in Pointer |-> NoInfo]]
  /\ clock = 2
  /\ status = [t \in Txn |-> "new"]
  /\ start_time = [t \in Txn |-> 0]
  /\ commit_id = [t \in Txn |-> 0]
  /\ undo = [t \in Txn |-> << >>]
  /\ updates = [t \in Txn |-> 0]
  /\ stmt = [t \in Txn |-> NoStatement]
  /\ ending = Idle
  /\ cleaned = [t \in Txn |-> 0]
  /\ faults = 0
  /\ disk = [s \in Seg |-> [r \in Row |-> Below(InitialColumn, s, r)]]
  /\ log_start = disk
  /\ assigned = [t \in Txn |-> EmptyTuples]

Active(t) == status[t] \in {"active", "failed", "logged"}

\* Transaction ids are handed out in the order the transactions start.
Begin(t) ==
  /\ status[t] = "new" /\ ending = Idle
  /\ \A u \in Txn : u < t => status[u] # "new"
  /\ status' = [status EXCEPT ![t] = "active"]
  /\ start_time' = [start_time EXCEPT ![t] = clock]
  /\ clock' = clock + 1
  /\ UNCHANGED <<column, root, info, commit_id, undo, updates, stmt, ending,
                 cleaned, faults, disk, log_start, assigned>>

-----------------------------------------------------------------------------
(* Update *)

\* The statistics pass leaves NULLs out of the values, and the first update of
\* a vector leaves out rows that keep their value (get_effective_updates).
EffectiveRows(s, a) ==
  LET rows == IF s = "data" THEN {r \in DOMAIN a : a[r] # NULL} ELSE DOMAIN a
  IN  IF root[s] # Nil THEN rows
      ELSE {r \in rows : Below(a, s, r) # Below(column, s, r)}

\* CheckForConflicts: somebody's update of one of the rows that the
\* transaction does not see.
HasConflict(t, s, rows) ==
  \E p \in Chain(s) :
    /\ info[s][p].version # TransactionId(t)
    /\ info[s][p].version >= start_time[t]
    /\ DOMAIN info[s][p].tuples \cap rows # {}

\* Mutant: the chain keeps pointing back at the old root.
ReallocatedAlone(s, f, n) ==
  LET old == root[s]
      new == RootInfo(old[2] + 1)
      needed == Min({Cardinality(DOMAIN f[old].tuples) + n, VectorSize})
  IN  IF needed <= f[old].max THEN [root |-> old, info |-> f]
      ELSE [root |-> new,
            info |-> [f EXCEPT ![new] =
                        [f[old] EXCEPT !.max = GetCompactCapacity(needed)]]]

\* ReallocateRootInfoIfNeeded: a larger root takes the place of the old one,
\* and the first UpdateInfo of the chain points back at it.
ReallocateRootInfoIfNeeded(s, f, n) ==
  LET old == root[s]
      new == RootInfo(old[2] + 1)
      needed == Min({Cardinality(DOMAIN f[old].tuples) + n, VectorSize})
      moved == [f EXCEPT ![new] = [f[old] EXCEPT !.max = GetCompactCapacity(needed)]]
      first == f[old].next
  IN  IF needed <= f[old].max THEN [root |-> old, info |-> f]
      ELSE [root |-> new,
            info |-> IF first = Nil THEN moved
                     ELSE [moved EXCEPT ![first].prev = new]]

\* The node of the transaction goes to the front of the chain.
LinkNode(f, rt, t) ==
  LET new == [NoInfo EXCEPT !.version = TransactionId(t), !.prev = rt,
                            !.next = f[rt].next, !.max = VectorSize]
      linked == [f EXCEPT ![Node(t)] = new, ![rt].next = Node(t)]
  IN  IF f[rt].next = Nil THEN linked
      ELSE [linked EXCEPT ![f[rt].next].prev = Node(t)]

\* MergeUpdateLoop: values the node does not hold yet move from the root, or
\* from below, into the node; the new values go into the root.
MergeUpdate(f, rt, t, s, a, rows) ==
  LET node == f[Node(t)].tuples
      old(r) == IF r \in DOMAIN f[rt].tuples THEN f[rt].tuples[r]
                ELSE Below(column, s, r)
  IN  [f EXCEPT
        ![Node(t)].tuples = node @@ [r \in rows |-> old(r)],
        ![rt].tuples = [r \in rows |-> Below(a, s, r)] @@ @]

\* The first update of the vector: a root with the new values and a node with
\* the old ones (initialize_update_function).
FirstUpdate(t, s, a, rows) ==
  [info[s] EXCEPT
     ![RootInfo(1)] = [version |-> MAX_COMMIT_ID, prev |-> Nil, next |-> Node(t),
                       tuples |-> [r \in rows |-> Below(a, s, r)],
                       max |-> GetCompactCapacity(Cardinality(rows))],
     ![Node(t)] = [version |-> TransactionId(t), prev |-> RootInfo(1), next |-> Nil,
                   tuples |-> [r \in rows |-> Below(column, s, r)],
                   max |-> VectorSize]]

ApplyUpdate(t, s, a, rows) ==
  IF root[s] = Nil
  THEN [root |-> RootInfo(1), info |-> FirstUpdate(t, s, a, rows)]
  ELSE LET grown == ReallocateRootInfoIfNeeded(s, info[s], Cardinality(rows))
           linked == IF Node(t) \in Chain(s) THEN grown.info
                     ELSE LinkNode(grown.info, grown.root, t)
       IN  [root |-> grown.root,
            info |-> MergeUpdate(linked, grown.root, t, s, a, rows)]

\* One call of UpdateSegment::Update that goes through.
UpdateDone(t, s, a) ==
  LET rows == EffectiveRows(s, a)
      result == ApplyUpdate(t, s, a, rows)
  IN  IF rows = {} THEN UNCHANGED <<root, info, undo>>
      ELSE /\ ~HasConflict(t, s, rows)
           /\ root' = [root EXCEPT ![s] = result.root]
           /\ info' = [info EXCEPT ![s] = result.info]
           /\ undo' = IF Node(t) \in Chain(s) THEN undo
                      ELSE [undo EXCEPT ![t] = Append(@, s)]

\* A call that meets a conflict: the statement fails, the transaction can only
\* be rolled back.
UpdateConflict(t, s, a) ==
  /\ EffectiveRows(s, a) # {} /\ HasConflict(t, s, EffectiveRows(s, a))
  /\ status' = [status EXCEPT ![t] = "failed"]
  /\ stmt' = [stmt EXCEPT ![t] = NoStatement]
  /\ UNCHANGED <<root, info, undo, faults>>

\* An allocation or a pin fails after the undo entry was made and before its
\* node was linked.  In the first update of the values (strings are copied) the
\* node may hold any part of its data by then, in a later one it is empty.
UpdateFails(t, s, a) ==
  LET rows == EffectiveRows(s, a)
  IN  /\ faults < MaxFaults
      /\ rows # {} /\ ~HasConflict(t, s, rows) /\ Node(t) \notin Chain(s)
      /\ root[s] # Nil \/ s = "data"
      /\ faults' = faults + 1
      /\ undo' = [undo EXCEPT ![t] = Append(@, s)]
      /\ info' = [info EXCEPT ![s][Node(t)] =
                    [NoInfo EXCEPT !.version = TransactionId(t), !.max = VectorSize,
                       !.tuples = IF root[s] # Nil THEN EmptyTuples
                                  ELSE [r \in rows |-> Padding]]]
      /\ status' = [status EXCEPT ![t] = "failed"]
      /\ stmt' = [stmt EXCEPT ![t] = NoStatement]
      /\ UNCHANGED root

\* StandardColumnData::Update: first the values.
UpdateData(t) ==
  /\ status[t] = "active" /\ stmt[t] = NoStatement
  /\ MapThenSumSet(LAMBDA u : updates[u], Txn) < MaxUpdates
  /\ \E a \in Assignments :
       \/ /\ UpdateDone(t, "data", a)
          /\ stmt' = [stmt EXCEPT ![t] = a]
          /\ UNCHANGED <<status, faults>>
       \/ UpdateConflict(t, "data", a)
       \/ UpdateFails(t, "data", a)
  /\ updates' = [updates EXCEPT ![t] = @ + 1]
  /\ UNCHANGED <<column, clock, start_time, commit_id, ending, cleaned, disk,
                 log_start, assigned>>

\* Reference: the last of a set of committed transactions that changed a row.
\* A NULL that a concurrent one assigned hides its value, whichever committed
\* first: the values and the validity are checked for conflicts on their own.
Concurrent(t, u) == commit_id[t] >= start_time[u] /\ commit_id[u] >= start_time[t]
LastOf(txns, r) ==
  LET writers == {u \in txns : status[u] = "committed" /\ r \in DOMAIN assigned[u]}
      last == CHOOSE u \in writers : \A w \in writers : commit_id[w] <= commit_id[u]
  IN  IF writers = {} THEN InitialColumn[r]
      ELSE IF \E u \in writers : Concurrent(u, last) /\ assigned[u][r] = NULL
      THEN NULL ELSE assigned[last][r]

\* The value of a row in the snapshot of a transaction.
SnapshotValue(t, r) ==
  IF r \in DOMAIN assigned[t] THEN assigned[t][r]
  ELSE LastOf({u \in Txn : commit_id[u] < start_time[t]}, r)

\* A statement changes the rows that had another value for it.  (To assign the
\* value a row has is no change: the first update of a vector leaves it out,
\* and a concurrent change of the row then meets no conflict.)
Changes(t, a) ==
  [r \in {q \in DOMAIN a : a[q] # SnapshotValue(t, q)} |-> a[r]]

\* Then the validity.
UpdateValidity(t) ==
  /\ status[t] = "active" /\ stmt[t] # NoStatement
  /\ \/ /\ UpdateDone(t, "validity", stmt[t])
        /\ stmt' = [stmt EXCEPT ![t] = NoStatement]
        /\ assigned' = [assigned EXCEPT ![t] = Changes(t, stmt[t]) @@ @]
        /\ UNCHANGED <<status, faults>>
     \/ UpdateConflict(t, "validity", stmt[t]) /\ UNCHANGED assigned
     \/ UpdateFails(t, "validity", stmt[t]) /\ UNCHANGED assigned
  /\ UNCHANGED <<column, clock, start_time, commit_id, updates, ending, cleaned, disk,
                 log_start>>

-----------------------------------------------------------------------------
(* Commit, rollback, clean-up, checkpoint *)

\* WALWriteState::WriteUpdate: the log gets the values of the root for the
\* rows of each entry.  The WAL lock keeps other commits out until this one is
\* through; transaction_lock is not held.
WriteUpdates(t) ==
  /\ status[t] = "active" /\ stmt[t] = NoStatement
  /\ undo[t] # << >>
  /\ \A u \in Txn : status[u] # "logged"
  /\ status' = [status EXCEPT ![t] = "logged"]
  /\ disk' = [s \in Seg |->
                [r \in Row |->
                   IF /\ \E i \in DOMAIN undo[t] : undo[t][i] = s
                      /\ r \in DOMAIN info[s][Node(t)].tuples
                   THEN FetchCommitted(s, r) ELSE disk[s][r]]]
  /\ log_start' = disk
  /\ UNCHANGED <<column, root, info, clock, start_time, commit_id, undo, updates,
                 stmt, ending, cleaned, faults, assigned>>

\* The commit timestamp, taken under transaction_lock.
StartCommit(t) ==
  /\ status[t] = "logged" /\ ending = Idle
  /\ commit_id' = [commit_id EXCEPT ![t] = clock]
  /\ clock' = clock + 1
  /\ ending' = [txn |-> t, phase |-> "commit", pos |-> 1]
  /\ UNCHANGED <<column, root, info, status, start_time, undo, updates, stmt,
                 cleaned, faults, disk, log_start, assigned>>

SetVersion(t, i, v) ==
  info' = [info EXCEPT ![undo[t][i]][Node(t)].version = v]

\* CommitState::CommitEntry, one undo entry; the commit is done after the last.
CommitEntry(t) ==
  /\ ending.txn = t /\ ending.phase = "commit"
  /\ SetVersion(t, ending.pos, commit_id[t])
  /\ IF ending.pos < Len(undo[t])
     THEN /\ ending' = [ending EXCEPT !.pos = @ + 1]
          /\ UNCHANGED <<status, log_start>>
     ELSE /\ ending' = Idle
          /\ status' = [status EXCEPT ![t] = "committed"]
          /\ log_start' = disk
  /\ UNCHANGED <<column, root, clock, start_time, commit_id, undo, updates, stmt,
                 cleaned, faults, disk, assigned>>

\* An entry cannot be committed: the entries before it are set back to the
\* transaction id, the log is cut back, and the transaction is rolled back.
CommitFails(t) ==
  /\ ending.txn = t /\ ending.phase = "commit" /\ faults < MaxFaults
  /\ faults' = faults + 1
  /\ info' = [s \in Seg |->
                IF \E i \in 1 .. ending.pos - 1 : undo[t][i] = s
                THEN [info[s] EXCEPT ![Node(t)].version = TransactionId(t)]
                ELSE info[s]]
  /\ disk' = log_start
  /\ commit_id' = [commit_id EXCEPT ![t] = 0]
  /\ ending' = [txn |-> t, phase |-> "rollback", pos |-> Len(undo[t])]
  /\ status' = [status EXCEPT ![t] = "failed"]
  /\ UNCHANGED <<column, root, clock, start_time, undo, updates, stmt, cleaned,
                 log_start, assigned>>

\* ROLLBACK, or the end of a failed statement's transaction.
StartRollback(t) ==
  /\ status[t] \in {"active", "failed"} /\ stmt[t] = NoStatement
  /\ ending = Idle /\ undo[t] # << >>
  /\ ending' = [txn |-> t, phase |-> "rollback", pos |-> Len(undo[t])]
  /\ status' = [status EXCEPT ![t] = "failed"]
  /\ UNCHANGED <<column, root, info, clock, start_time, commit_id, undo, updates,
                 stmt, cleaned, faults, disk, log_start, assigned>>

\* Mutant: nodes that were never linked are rolled back too.
RolledBackUnlinked(t, s) ==
  LET restored == [info[s] EXCEPT ![root[s]].tuples = info[s][Node(t)].tuples @@ @]
  IN  IF root[s] = Nil THEN info[s] ELSE Unlink(restored, Node(t))

\* UpdateSegment::RollbackUpdate: the old values go back into the root, except
\* those of a node that was never linked.
RolledBack(t, s) ==
  LET f == info[s]
      restored == [f EXCEPT ![root[s]].tuples = f[Node(t)].tuples @@ @]
  IN  IF f[Node(t)].prev = Nil \/ root[s] = Nil THEN f
      ELSE Unlink(restored, Node(t))

Freed(f, t) == [f EXCEPT ![Node(t)] = NoInfo]

\* One entry, from the last to the first; the undo buffer goes with the last.
RollbackEntry(t) ==
  /\ ending.txn = t /\ ending.phase = "rollback"
  /\ LET s == undo[t][ending.pos]
     IN  info' = [info EXCEPT ![s] = Freed(RolledBack(t, s), t)]
  /\ IF ending.pos > 1
     THEN /\ ending' = [ending EXCEPT !.pos = @ - 1]
          /\ UNCHANGED <<status, start_time, undo, assigned>>
     ELSE /\ ending' = Idle
          /\ status' = [status EXCEPT ![t] = "ended"]
          /\ start_time' = [start_time EXCEPT ![t] = 0]
          /\ undo' = [undo EXCEPT ![t] = << >>]
          /\ assigned' = [assigned EXCEPT ![t] = EmptyTuples]
  /\ UNCHANGED <<column, root, clock, commit_id, updates, stmt, cleaned, faults,
                 disk, log_start>>

\* A transaction that updated nothing ends.
End(t) ==
  /\ status[t] \in {"active", "failed"} /\ stmt[t] = NoStatement
  /\ undo[t] = << >> /\ ending = Idle
  /\ status' = [status EXCEPT ![t] = "ended"]
  /\ start_time' = [start_time EXCEPT ![t] = 0]
  /\ UNCHANGED <<column, root, info, clock, commit_id, undo, updates, stmt, ending,
                 cleaned, faults, disk, log_start, assigned>>

\* The clean-up of a commit that every active transaction sees
\* (the transaction manager's rule), one undo entry.
CleanupUpdate(t) ==
  /\ status[t] = "committed" /\ cleaned[t] < Len(undo[t])
  /\ \A u \in Txn : Active(u) => start_time[u] > commit_id[t]
  /\ LET s == undo[t][cleaned[t] + 1]
     IN  info' = [info EXCEPT ![s] = Freed(Unlink(info[s], Node(t)), t)]
  /\ cleaned' = [cleaned EXCEPT ![t] = @ + 1]
  /\ UNCHANGED <<column, root, clock, status, start_time, commit_id, undo, updates,
                 stmt, ending, faults, disk, log_start, assigned>>

\* Mutant: a statement that fails gives the lock back.
HoldsCheckpointLockMutant(t) ==
  /\ status[t] \in {"active", "logged", "committed"}
  /\ updates[t] > 0
  /\ status[t] = "committed" => cleaned[t] < Len(undo[t])

\* The checkpoint rewrites the column from the roots and drops the segments.
\* An updater holds the shared checkpoint lock until it is cleaned up, so none
\* is left; readers may be active.
HoldsCheckpointLock(t) ==
  /\ status[t] \in {"active", "failed", "logged", "committed"}
  /\ updates[t] > 0
  /\ status[t] = "committed" => cleaned[t] < Len(undo[t])

Checkpoint ==
  /\ \A t \in Txn : ~HoldsCheckpointLock(t)
  /\ \E s \in Seg : root[s] # Nil
  /\ column' = [r \in Row |-> IF FetchCommitted("validity", r)
                              THEN FetchCommitted("data", r) ELSE NULL]
  /\ root' = [s \in Seg |-> Nil]
  /\ info' = [s \in Seg |-> [p \in Pointer |-> NoInfo]]
  /\ disk' = [s \in Seg |-> [r \in Row |-> Below(column', s, r)]]
  /\ log_start' = disk'
  /\ UNCHANGED <<clock, status, start_time, commit_id, undo, updates, stmt, ending,
                 cleaned, faults, assigned>>

Next ==
  \/ \E t \in Txn :
       \/ Begin(t) \/ UpdateData(t) \/ UpdateValidity(t) \/ End(t)
       \/ WriteUpdates(t) \/ StartCommit(t) \/ CommitEntry(t) \/ CommitFails(t)
       \/ StartRollback(t) \/ RollbackEntry(t) \/ CleanupUpdate(t)
  \/ Checkpoint

Spec == Init /\ [][Next]_vars

-----------------------------------------------------------------------------
(* Properties *)

TypeOK ==
  /\ column \in [Row -> Val \cup {NULL}]
  /\ \A s \in Seg :
       /\ root[s] \in {Nil} \cup {RootInfo(g) : g \in 1 .. VectorSize}
       /\ \A p \in Pointer :
            /\ DOMAIN info[s][p].tuples \subseteq Row
            /\ Cardinality(DOMAIN info[s][p].tuples) <= info[s][p].max
  /\ status \in [Txn -> {"new", "active", "failed", "logged", "committed", "ended"}]
  /\ clock \in Nat /\ clock < TRANSACTION_ID_START
  /\ ending.txn \in Txn \cup {0}

\* A transaction reads the rows as it changed them and otherwise as the last
\* commit before its start did, whatever commits, rollbacks, failed updates,
\* clean-ups, checkpoints and reallocations happened to the chains of the two
\* segments meanwhile (FetchUpdates).  Where two concurrent transactions both
\* committed a change of the row, one to a value and one to NULL, it is NULL,
\* also if the value was committed last (LastOf): no conflict is found between
\* the first one's update of the values and the second one's of the validity.
SnapshotExact ==
  \A t \in Txn, r \in Row :
    status[t] = "active" /\ stmt[t] = NoStatement =>
      SnapshotValue(t, r) = IF FetchUpdates(t, "validity", r)
                            THEN FetchUpdates(t, "data", r) ELSE NULL

\* What recovery reads of a row is the last committed change of it, as in
\* SnapshotExact: a commit logs the root's values, which nobody else may have
\* changed (WriteUpdate), and the checkpoint stores roots that hold nothing
\* uncommitted.
DiskExact ==
  (\A t \in Txn : status[t] # "logged" /\ ending.phase # "commit") =>
    \A r \in Row :
      LastOf(Txn, r) = IF disk["validity"][r] THEN disk["data"][r] ELSE NULL

\* The chain behind a root is finite, its links agree in both directions, and
\* it holds the nodes of transactions that are not cleaned up and no freed
\* one (Update, ReallocateRootInfoIfNeeded, CleanupUpdateInternal).
ChainIntact ==
  /\ TypeOK
  /\ \A s \in Seg :
       LET walk == Walk(s)
       IN  /\ walk[Cardinality(Txn)] = Nil
           /\ \A n \in DOMAIN walk : walk[n] # Nil =>
                /\ info[s][walk[n]].version # 0
                /\ info[s][walk[n]].prev = IF n = 0 THEN root[s] ELSE walk[n - 1]
           /\ \A t \in Txn : info[s][Node(t)].prev # Nil =>
                \E n \in DOMAIN walk : walk[n] = Node(t)
=============================================================================
