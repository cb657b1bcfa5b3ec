------------------------- MODULE TransactionManager -------------------------
(***************************************************************************)
(* DuckTransactionManager over a persistent database: the timestamps, the  *)
(* active and the recently committed transactions, the cleanup queue, the  *)
(* commit protocol with its automatic checkpoint, and CHECKPOINT / FORCE   *)
(* CHECKPOINT (duck_transaction_manager.cpp, duck_transaction.cpp,         *)
(* SingleFileStorageManager::CreateCheckpoint).                            *)
(*                                                                         *)
(* A section of code under transaction_lock is one action; wherever the    *)
(* code drops that lock, or takes the WAL lock, the cleanup lock or a      *)
(* StorageLock, a new action begins.  The two StorageLocks are used as     *)
(* ReadersWriter describes them: sets of SHARED holders and of EXCLUSIVE   *)
(* holders.  Rows, catalog entries and the WAL's contents are left to      *)
(* other modules; what a transaction changed is the set of kinds of undo   *)
(* entries it holds.                                                       *)
(***************************************************************************)
EXTENDS Integers, Sequences, SequencesExt, FiniteSets

CONSTANTS
  Writer,      \* transactions of connections that may write
  Reader,      \* transactions of read-only meta transactions
  Ckpt,        \* the checkpoint's own read-only transaction
  Client,      \* the connection that runs CHECKPOINT
  NoThread,    \* a mutex without holder
  Kind,        \* kinds of change that writers make
  NumEntries,  \* undo entries of a transaction that made changes
  TRANSACTION_ID_START,  \* first transaction id, above every timestamp
  Automatic,   \* what AutomaticCheckpoint may answer, a set of Booleans
  MaxKinds,    \* bound: kinds of change in one transaction
  MaxStatements, \* bound: CHECKPOINT and FORCE CHECKPOINT statements
  MaxFailures  \* bound: how often Cleanup throws

ASSUME ConstantsAssumption ==
  /\ Writer \cap Reader = {}
  /\ Ckpt \notin Writer \union Reader
  /\ Client \notin Writer \union Reader \union {Ckpt}
  /\ NoThread \notin Writer \union Reader \union {Ckpt, Client}
  /\ Kind \subseteq {"insert", "delete", "index_delete", "update", "create", "drop"}
  /\ NumEntries \in Nat \ {0}
  /\ TRANSACTION_ID_START \in Nat \ {0, 1}
  /\ Automatic \subseteq BOOLEAN
  /\ MaxKinds \in Nat /\ MaxStatements \in Nat
  /\ MaxFailures \in Nat

Txn == Writer \union Reader \union {Ckpt}
Thread == Txn \union {Client}

VARIABLES
  current_start_timestamp,   \* next start or commit timestamp
  active_transactions,       \* started, not yet removed
  lowest_visibility_bound,   \* cached lowest bound of the active ones
  last_commit,
  last_committed_version,    \* of the catalog
  recently_committed_transactions, \* ordered on commit_id
  cleanup_queue,             \* of [transactions, bound]
  pc,                        \* where each transaction's thread is
  start_time, commit_id, catalog_version,
  changes,                   \* kinds of change made by a transaction
  decision,                  \* locals of CommitTransaction
  awaiting_cleanup,          \* transactions whose undo buffer is to be cleaned
  cleaned_up_entries,        \* of each undo buffer
  pass,                      \* entries visited by the running UndoBuffer::Cleanup
  applied,                   \* entries actually cleaned, for the properties
  failures,                  \* how often Cleanup threw
  start_transaction_lock, wal_lock, cleanup_lock,  \* holders of the mutexes
  checkpoint_shared, checkpoint_exclusive,         \* holders of checkpoint_lock
  vacuum_shared, vacuum_exclusive,                 \* holders of vacuum_lock
  client,                    \* where CHECKPOINT is, and its locals
  checkpoint                 \* the running CreateCheckpoint

listVars == <<active_transactions, lowest_visibility_bound,
              recently_committed_transactions, cleanup_queue, awaiting_cleanup>>
clockVars == <<current_start_timestamp, last_commit, last_committed_version>>
txnVars == <<start_time, commit_id, catalog_version, changes>>
cleanVars == <<cleaned_up_entries, pass, applied, failures>>
mutexVars == <<start_transaction_lock, wal_lock, cleanup_lock>>
storageLockVars == <<checkpoint_shared, checkpoint_exclusive,
                     vacuum_shared, vacuum_exclusive>>
ckptVars == <<client, checkpoint>>
vars == <<listVars, clockVars, txnVars, cleanVars, mutexVars, storageLockVars,
          ckptVars, pc, decision>>

-----------------------------------------------------------------------------

\* VisibilityBound: past every commit timestamp, and past everything
AllCommitted == TRANSACTION_ID_START
IncludingUncommitted == TRANSACTION_ID_START + 1

ChangesMade(t) == changes[t] # {}

\* the kinds for which SetModifications takes the shared checkpoint lock,
\* and those for which it takes the shared vacuum lock
NeedsCheckpointLock(k) == k \in {"update", "create", "drop"}
NeedsVacuumLock(k) == k \in {"insert", "delete", "index_delete"}

\* UndoBufferProperties
HasUpdates(t) == "update" \in changes[t]
HasDroppedEntries(t) == "drop" \in changes[t]
HasCatalogChanges(t) == changes[t] \cap {"create", "drop"} # {}
HasIndexDeletes(t) == "index_delete" \in changes[t]

\* Mutant: deletes of indexed rows are forgotten.
StoreTransactionNoIndex(t) == HasUpdates(t) \/ HasCatalogChanges(t)

\* the transactions an older snapshot may still read behind: kept until no
\* active transaction precedes their commit
StoreTransaction(t) == HasUpdates(t) \/ HasIndexDeletes(t) \/ HasCatalogChanges(t)

HasOtherTransactions(t) == active_transactions \ {t} # {}

\* UpdateLowestVisibilityBound over the given active transactions
LowestBoundOf(A) ==
  IF A = {} THEN AllCommitted
            ELSE CHOOSE b \in {start_time[a] : a \in A} :
                   \A a \in A : b <= start_time[a]

NoDecision == [can |-> FALSE, skip |-> FALSE, error |-> FALSE,
               type |-> "FULL_CHECKPOINT"]

NoCheckpoint == [owner |-> NoThread, phase |-> "none",
                 type |-> "FULL_CHECKPOINT"]

\* The constructor gives last_commit no value: until the first commit it may
\* compare either way with any bound.
Init ==
  /\ current_start_timestamp = 2
  /\ active_transactions = {}
  /\ lowest_visibility_bound = IncludingUncommitted
  /\ last_commit \in {0, IncludingUncommitted}
  /\ last_committed_version = 0
  /\ recently_committed_transactions = <<>>
  /\ cleanup_queue = <<>>
  /\ pc = [t \in Txn |-> "none"]
  /\ start_time = [t \in Txn |-> 0]
  /\ commit_id = [t \in Txn |-> 0]
  /\ catalog_version = [t \in Txn |-> 0]
  /\ changes = [t \in Txn |-> {}]
  /\ decision = [t \in Txn |-> NoDecision]
  /\ awaiting_cleanup = {}
  /\ cleaned_up_entries = [t \in Txn |-> 0]
  /\ pass = 0
  /\ applied = [t \in Txn |-> 0]
  /\ failures = 0
  /\ start_transaction_lock = NoThread
  /\ wal_lock = NoThread /\ cleanup_lock = NoThread
  /\ checkpoint_shared = {} /\ checkpoint_exclusive = {}
  /\ vacuum_shared = {} /\ vacuum_exclusive = {}
  /\ client = [at |-> "idle", last_commit |-> 0, type |-> "FULL_CHECKPOINT",
                statements |-> 0]
  /\ checkpoint = NoCheckpoint

-----------------------------------------------------------------------------
(* StartTransaction, SetModifications and the changes of a statement.      *)

\* the part of StartTransaction under transaction_lock
Begin(t) ==
  /\ current_start_timestamp < TRANSACTION_ID_START
  /\ current_start_timestamp' = current_start_timestamp + 1
  /\ start_time' = [start_time EXCEPT ![t] = current_start_timestamp]
  /\ lowest_visibility_bound' = IF active_transactions = {}
                                THEN current_start_timestamp
                                ELSE lowest_visibility_bound
  /\ catalog_version' = [catalog_version EXCEPT ![t] = last_committed_version]
  /\ active_transactions' = active_transactions \union {t}
  /\ pc' = [pc EXCEPT ![t] = "active"]

StartTransaction(t) ==
  /\ t \in Writer \union Reader
  /\ pc[t] = "none"
  /\ t \in Writer => start_transaction_lock = NoThread
  /\ Begin(t)
  /\ UNCHANGED <<last_commit, last_committed_version,
                 recently_committed_transactions, cleanup_queue,
                 awaiting_cleanup, commit_id, changes, decision, cleanVars,
                 mutexVars, storageLockVars, ckptVars>>

\* Both GetSharedLock calls block while the lock is held exclusively.  The
\* statement may change nothing; a catalog change also draws an uncommitted
\* catalog version.
SetModifications(t, k, made) ==
  /\ t \in Writer /\ pc[t] = "active" /\ k \notin changes[t]
  /\ Cardinality(changes[t]) < MaxKinds
  /\ NeedsCheckpointLock(k) /\ t \notin checkpoint_shared => checkpoint_exclusive = {}
  /\ NeedsVacuumLock(k) /\ t \notin vacuum_shared => vacuum_exclusive = {}
  /\ checkpoint_shared' = IF NeedsCheckpointLock(k)
                          THEN checkpoint_shared \union {t} ELSE checkpoint_shared
  /\ vacuum_shared' = IF NeedsVacuumLock(k)
                      THEN vacuum_shared \union {t} ELSE vacuum_shared
  /\ changes' = IF made THEN [changes EXCEPT ![t] = @ \union {k}] ELSE changes
  /\ catalog_version' = IF made /\ k \in {"create", "drop"}
                        THEN [catalog_version EXCEPT ![t] = TRANSACTION_ID_START]
                        ELSE catalog_version
  /\ UNCHANGED <<listVars, clockVars, start_time, commit_id, cleanVars,
                 mutexVars, checkpoint_exclusive, vacuum_exclusive, ckptVars,
                 pc, decision>>

-----------------------------------------------------------------------------
(* RemoveTransaction, SweepCommittedTransactions and QueueCleanup.         *)


\* push_back onto the recently committed transactions
Remember(committed, t) == Append(committed, t)

\* Mutant: the last one is left behind.
SweptCountMutant(committed, id, bound) ==
  LET kept == {i \in DOMAIN committed : id[committed[i]] >= bound}
  IN  IF committed = <<>> THEN 0
      ELSE IF kept = {} THEN Len(committed) - 1
      ELSE (CHOOSE i \in kept : \A j \in kept : i <= j) - 1

\* the prefix of the recently committed transactions that no snapshot with
\* this bound or a later one precedes
SweptCount(committed, id, bound) ==
  LET kept == {i \in DOMAIN committed : id[committed[i]] >= bound}
  IN  IF kept = {} THEN Len(committed)
      ELSE (CHOOSE i \in kept : \A j \in kept : i <= j) - 1

\* Without changes t is destroyed at once, and its StorageLockKeys with it.
KeysAfterRemoval(shared, t) == IF ChangesMade(t) THEN shared ELSE shared \ {t}

\* Removal of t: id is commit_id after the step, store whether an older
\* snapshot may need t.
RemoveTransaction(t, store, id) ==
  LET rest  == active_transactions \ {t}
      bound == LowestBoundOf(rest)
      all   == IF store /\ id[t] # 0
               THEN Remember(recently_committed_transactions, t)
               ELSE recently_committed_transactions
      n     == SweptCount(all, id, bound)
      own   == IF ChangesMade(t) /\ ~(store /\ id[t] # 0) THEN <<t>> ELSE <<>>
      gone  == own \o SubSeq(all, 1, n)
  IN  /\ active_transactions' = rest
      /\ lowest_visibility_bound' = bound
      /\ recently_committed_transactions' = SubSeq(all, n + 1, Len(all))
      /\ awaiting_cleanup' = awaiting_cleanup
                             \union ToSet(SubSeq(all, 1, n))
                             \union (IF store THEN {} ELSE ToSet(own))
      /\ cleanup_queue' = IF gone = <<>> THEN cleanup_queue
                          ELSE Append(cleanup_queue,
                                      [transactions |-> gone, bound |-> bound])
      /\ checkpoint_shared' = KeysAfterRemoval(checkpoint_shared, t)
      /\ vacuum_shared' = KeysAfterRemoval(vacuum_shared, t)

-----------------------------------------------------------------------------
(* CommitTransaction.                                                      *)

\* Mutant: updates do not matter.
GetCheckpointTypeMutant(t) ==
  IF ~HasOtherTransactions(t) THEN "FULL_CHECKPOINT"
  ELSE IF HasDroppedEntries(t) THEN "none"
  ELSE "CONCURRENT_CHECKPOINT"

\* GetCheckpointType: "none" when there may be no checkpoint after all
GetCheckpointType(t) ==
  IF ~HasOtherTransactions(t) THEN "FULL_CHECKPOINT"
  ELSE IF HasUpdates(t) \/ HasDroppedEntries(t) THEN "none"
  ELSE "CONCURRENT_CHECKPOINT"

\* TryGetCheckpointLock: a fresh exclusive key, or the upgrade of the shared one
CanTakeCheckpointLock(t) ==
  /\ checkpoint_exclusive = {}
  /\ checkpoint_shared \subseteq (IF t \in checkpoint_shared THEN {t} ELSE {})

\* without a checkpoint the exclusive checkpoint lock is given up again
KeepCheckpointLock(t, can, X) == IF can THEN X ELSE X \ {t}

\* Mutant: the WAL lock is always released.
KeepWalLockMutant(t, skip) == IF wal_lock = t THEN NoThread ELSE wal_lock

\* a skipped WAL write keeps the WAL lock for the checkpoint
KeepWalLock(t, skip) == IF wal_lock = t /\ ~skip THEN NoThread ELSE wal_lock

\* Mutant: a failed commit counts.
ChangesCatalogMutant(t, ok) == catalog_version[t] >= TRANSACTION_ID_START

\* a successful commit with catalog changes
ChangesCatalog(t, ok) == ok /\ catalog_version[t] >= TRANSACTION_ID_START

\* From GetCommitTimestamp to the release of transaction_lock and, unless the
\* WAL write was skipped, of the WAL lock; d are the locals at this point, and
\* X the holders of the exclusive checkpoint lock.
FinishCommit(t, d, X) ==
  LET ok   == ~d.error
      can  == ok /\ d.can
      skip == can /\ d.skip
      id   == [commit_id EXCEPT ![t] = IF ok THEN current_start_timestamp ELSE 0]
      new_catalog == ChangesCatalog(t, ok)
  IN  /\ current_start_timestamp < TRANSACTION_ID_START
      /\ current_start_timestamp' = current_start_timestamp + 1
      /\ commit_id' = id
      /\ last_commit' = IF ok THEN current_start_timestamp ELSE last_commit
      /\ last_committed_version' = IF new_catalog THEN last_committed_version + 1
                                   ELSE last_committed_version
      /\ catalog_version' = IF new_catalog
                            THEN [catalog_version EXCEPT ![t] = last_committed_version + 1]
                            ELSE catalog_version
      /\ decision' = [decision EXCEPT ![t] = [d EXCEPT !.can = can, !.skip = skip,
                                                      !.error = FALSE]]
      /\ checkpoint_exclusive' = KeepCheckpointLock(t, can, X)
      /\ wal_lock' = KeepWalLock(t, skip)
      /\ RemoveTransaction(t, StoreTransaction(t) \/ d.error, id)
      /\ pc' = [pc EXCEPT ![t] = "cleanup"]
      /\ UNCHANGED <<start_time, changes, cleanVars, start_transaction_lock,
                     cleanup_lock, vacuum_exclusive, ckptVars>>

\* Up to the point where transaction_lock is dropped for the WAL write:
\* pre_error is a failed PreFlushOptimisticBlocks, automatic says whether
\* AutomaticCheckpoint asks for a checkpoint, skip whether the changes are
\* larger than the skip-WAL threshold.
CommitTransaction(t, pre_error, automatic, skip) ==
  LET can == automatic /\ CanTakeCheckpointLock(t)
      X   == IF can THEN {t} ELSE checkpoint_exclusive
      d   == [can |-> can, skip |-> can /\ skip, error |-> pre_error,
              type |-> "FULL_CHECKPOINT"]
  IN  /\ pc[t] = "active"
      /\ t = Ckpt => checkpoint.phase = "committing"
      /\ pre_error \/ automatic => ChangesMade(t)
      /\ skip => can
      /\ IF ChangesMade(t) /\ ~pre_error
         THEN /\ pc' = [pc EXCEPT ![t] = "wal"]
              /\ decision' = [decision EXCEPT ![t] = d]
              /\ checkpoint_exclusive' = X
              /\ UNCHANGED <<listVars, clockVars, txnVars, cleanVars, mutexVars,
                             checkpoint_shared, vacuum_shared, vacuum_exclusive,
                             ckptVars>>
         ELSE FinishCommit(t, d, X)

\* The WAL lock is taken and held; WriteToWAL, unless skipped, may fail.
WriteToWAL(t, fails) ==
  /\ pc[t] = "wal"
  /\ wal_lock = NoThread
  /\ fails => ~decision[t].skip
  /\ wal_lock' = t
  /\ decision' = [decision EXCEPT ![t].error = fails]
  /\ pc' = [pc EXCEPT ![t] = "relock"]
  /\ UNCHANGED <<listVars, clockVars, txnVars, cleanVars, start_transaction_lock,
                 cleanup_lock, storageLockVars, ckptVars>>

\* transaction_lock is taken again: the checkpoint type is decided, then the
\* undo buffer committed, which may fail.
CommitUndoBuffer(t, fails) ==
  LET d    == decision[t]
      type == GetCheckpointType(t)
      e    == [d EXCEPT !.error = d.error \/ fails]
  IN  /\ pc[t] = "relock"
      /\ d.error => ~fails
      /\ IF ~d.error /\ d.can
         THEN IF type = "none"
              THEN /\ ~d.skip
                   /\ FinishCommit(t, [e EXCEPT !.can = FALSE], checkpoint_exclusive)
              ELSE FinishCommit(t, [e EXCEPT !.type = type], checkpoint_exclusive)
         ELSE FinishCommit(t, e, checkpoint_exclusive)

\* The WAL write was skipped, but no checkpoint is possible after all:
\* transaction_lock is dropped again for the WAL write.
Backpedal(t, fails) ==
  /\ pc[t] = "relock"
  /\ ~decision[t].error /\ decision[t].can /\ decision[t].skip
  /\ GetCheckpointType(t) = "none"
  /\ decision' = [decision EXCEPT ![t].can = FALSE, ![t].skip = FALSE,
                                  ![t].error = fails]
  /\ pc' = [pc EXCEPT ![t] = "backpedalled"]
  /\ UNCHANGED <<listVars, clockVars, txnVars, cleanVars, mutexVars,
                 storageLockVars, ckptVars>>

CommitBackpedalled(t, fails) ==
  /\ pc[t] = "backpedalled"
  /\ decision[t].error => ~fails
  /\ FinishCommit(t, [decision[t] EXCEPT !.error = @ \/ fails],
                  checkpoint_exclusive)

\* RollbackTransaction, up to the release of transaction_lock.
RollbackTransaction(t) ==
  /\ t # Ckpt /\ pc[t] = "active"
  /\ RemoveTransaction(t, ChangesMade(t), commit_id)
  /\ pc' = [pc EXCEPT ![t] = "cleanup"]
  /\ UNCHANGED <<clockVars, txnVars, cleanVars, mutexVars, checkpoint_exclusive,
                 vacuum_exclusive, ckptVars, decision>>

-----------------------------------------------------------------------------
(* CleanupTransactions, by the thread that committed or rolled back.       *)

TakeCleanupLock(t) ==
  /\ pc[t] = "cleanup"
  /\ cleanup_lock = NoThread
  /\ cleanup_lock' = t
  /\ pc' = [pc EXCEPT ![t] = "cleaning"]
  /\ UNCHANGED <<listVars, clockVars, txnVars, cleanVars, start_transaction_lock,
                 wal_lock, storageLockVars, ckptVars, decision>>

\* where in the front entry transactions stand whose undo buffers are still to
\* be cleaned, and the first of them
Remaining ==
  LET front == Head(cleanup_queue).transactions
  IN  {i \in DOMAIN front : front[i] \in awaiting_cleanup}
FirstRemaining == Head(cleanup_queue).transactions[Min(Remaining)]

\* Mutant: a new pass starts over.
AlreadyCleanedMutant(u) == FALSE

\* the entry this pass is at was cleaned by an earlier pass
AlreadyCleaned(u) == pass < cleaned_up_entries[u]

\* One entry of UndoBuffer::Cleanup: a new pass skips what an earlier pass,
\* ended by an exception, has cleaned.
CleanupEntry(t) ==
  /\ pc[t] = "cleaning" /\ cleanup_queue # <<>> /\ Remaining # {}
  /\ LET u    == FirstRemaining
         skip == AlreadyCleaned(u)
     IN  /\ applied' = IF skip THEN applied ELSE [applied EXCEPT ![u] = @ + 1]
         /\ cleaned_up_entries' = IF skip THEN cleaned_up_entries
                                  ELSE [cleaned_up_entries EXCEPT ![u] = @ + 1]
         /\ IF pass + 1 < NumEntries
            THEN pass' = pass + 1 /\ UNCHANGED awaiting_cleanup
            ELSE pass' = 0 /\ awaiting_cleanup' = awaiting_cleanup \ {u}
  /\ UNCHANGED <<active_transactions, lowest_visibility_bound,
                 recently_committed_transactions, cleanup_queue, clockVars,
                 txnVars, failures, mutexVars, storageLockVars, ckptVars, pc,
                 decision>>

\* CleanupTransactions returns: on to the automatic checkpoint, or done, with
\* the locals gone
LeaveCleanup(t) ==
  /\ cleanup_lock' = NoThread
  /\ decision' = [decision EXCEPT ![t] = IF @.can THEN @ ELSE NoDecision]
  /\ pc' = [pc EXCEPT ![t] = IF decision[t].can THEN "checkpoint" ELSE "done"]

\* An exception of an entry's cleanup leaves the front entry in the queue.
CleanupThrows(t) ==
  /\ pc[t] = "cleaning" /\ cleanup_queue # <<>> /\ Remaining # {}
  /\ failures < MaxFailures
  /\ failures' = failures + 1
  /\ pass' = 0
  /\ LeaveCleanup(t)
  /\ UNCHANGED <<listVars, clockVars, txnVars, cleaned_up_entries, applied,
                 start_transaction_lock, wal_lock, storageLockVars, ckptVars>>

\* Mutant: only what committed is destroyed.
DestroyedWithMutant(entry) == {u \in ToSet(entry.transactions) : commit_id[u] # 0}

\* what dies with an entry of the cleanup queue
DestroyedWith(entry) == ToSet(entry.transactions)

\* The front entry is popped; its transactions are destroyed, and the
\* StorageLockKeys they own with them.
PopCleanup(t) ==
  /\ pc[t] = "cleaning" /\ cleanup_queue # <<>> /\ Remaining = {}
  /\ cleanup_queue' = Tail(cleanup_queue)
  /\ LET dead == DestroyedWith(Head(cleanup_queue))
     IN  /\ checkpoint_shared' = checkpoint_shared \ dead
         /\ vacuum_shared' = vacuum_shared \ dead
  /\ UNCHANGED <<active_transactions, lowest_visibility_bound,
                 recently_committed_transactions, awaiting_cleanup, clockVars,
                 txnVars, cleanVars, mutexVars, checkpoint_exclusive,
                 vacuum_exclusive, ckptVars, pc, decision>>

CleanupDone(t) ==
  /\ pc[t] = "cleaning" /\ cleanup_queue = <<>>
  /\ LeaveCleanup(t)
  /\ UNCHANGED <<listVars, clockVars, txnVars, cleanVars, start_transaction_lock,
                 wal_lock, storageLockVars, ckptVars>>

-----------------------------------------------------------------------------
(* Checkpoint: the CHECKPOINT and FORCE CHECKPOINT statements.  A plain    *)
(* CHECKPOINT that does not get the lock throws and changes nothing.       *)

CheckpointStatement ==
  /\ client.at = "idle" /\ client.statements < MaxStatements
  /\ checkpoint_exclusive = {} /\ checkpoint_shared = {}
  /\ checkpoint_exclusive' = {Client}
  /\ client' = [client EXCEPT !.at = "locked", !.statements = @ + 1]
  /\ UNCHANGED <<listVars, clockVars, txnVars, cleanVars, mutexVars,
                 checkpoint_shared, vacuum_shared, vacuum_exclusive, checkpoint,
                 pc, decision>>

ForceCheckpoint ==
  /\ client.at = "idle" /\ client.statements < MaxStatements
  /\ start_transaction_lock = NoThread
  /\ start_transaction_lock' = Client
  /\ client' = [client EXCEPT !.at = "spinning", !.statements = @ + 1]
  /\ UNCHANGED <<listVars, clockVars, txnVars, cleanVars, wal_lock, cleanup_lock,
                 storageLockVars, checkpoint, pc, decision>>

\* The loop ends with the lock, or with the exception of InterruptCheck.
ForceLocked ==
  /\ client.at = "spinning"
  /\ checkpoint_exclusive = {} /\ checkpoint_shared = {}
  /\ checkpoint_exclusive' = {Client}
  /\ start_transaction_lock' = NoThread
  /\ client' = [client EXCEPT !.at = "locked"]
  /\ UNCHANGED <<listVars, clockVars, txnVars, cleanVars, wal_lock, cleanup_lock,
                 checkpoint_shared, vacuum_shared, vacuum_exclusive, checkpoint,
                 pc, decision>>

ForceInterrupted ==
  /\ client.at = "spinning"
  /\ start_transaction_lock' = NoThread
  /\ client' = [client EXCEPT !.at = "idle"]
  /\ UNCHANGED <<listVars, clockVars, txnVars, cleanVars, wal_lock, cleanup_lock,
                 storageLockVars, checkpoint, pc, decision>>

\* GetLastCommit() and LowestVisibilityBound() are two unlocked reads.
ReadLastCommit ==
  /\ client.at = "locked"
  /\ client' = [client EXCEPT !.at = "read", !.last_commit = last_commit]
  /\ UNCHANGED <<listVars, clockVars, txnVars, cleanVars, mutexVars,
                 storageLockVars, checkpoint, pc, decision>>

ReadLowestBound ==
  /\ client.at = "read"
  /\ client' = [client EXCEPT !.at = "decided", !.last_commit = 0, !.type =
                  IF client.last_commit >= lowest_visibility_bound
                  THEN "CONCURRENT_CHECKPOINT" ELSE "FULL_CHECKPOINT"]
  /\ UNCHANGED <<listVars, clockVars, txnVars, cleanVars, mutexVars,
                 storageLockVars, checkpoint, pc, decision>>

-----------------------------------------------------------------------------
(* CreateCheckpoint, run by the owner of the exclusive checkpoint lock.    *)

\* TryGetVacuumLock for a full checkpoint, which turns concurrent without it.
\* CHECKPOINT has nothing to do when the WAL is empty (required = FALSE).
CreateCheckpoint(o, type, required) ==
  LET vacuum == /\ type = "FULL_CHECKPOINT"
                /\ vacuum_shared = {} /\ vacuum_exclusive = {}
  IN  /\ vacuum_exclusive' = IF vacuum THEN {o} ELSE vacuum_exclusive
      /\ checkpoint' = [owner |-> o,
                        phase |-> IF required THEN "starting" ELSE "ending",
                        type  |-> IF vacuum THEN "FULL_CHECKPOINT"
                                  ELSE "CONCURRENT_CHECKPOINT"]
      /\ UNCHANGED <<listVars, clockVars, txnVars, cleanVars, mutexVars,
                     checkpoint_shared, checkpoint_exclusive, vacuum_shared,
                     decision>>

AutomaticCheckpoint(t) ==
  /\ pc[t] = "checkpoint"
  /\ pc' = [pc EXCEPT ![t] = "checkpointing"]
  /\ CreateCheckpoint(t, decision[t].type, TRUE)
  /\ UNCHANGED client

ClientCheckpoint(required) ==
  /\ client.at = "decided"
  /\ client' = [client EXCEPT !.at = "checkpointing"]
  /\ CreateCheckpoint(Client, client.type, required)
  /\ UNCHANGED pc

\* options.wal_lock is set when the owner skipped its WAL write
WalLockFree == wal_lock \in {NoThread, checkpoint.owner}

\* WALStartCheckpoint starts the checkpoint's transaction under the WAL lock.
WALStartCheckpoint ==
  /\ checkpoint.phase = "starting"
  /\ WalLockFree
  /\ Begin(Ckpt)
  /\ checkpoint' = [checkpoint EXCEPT !.phase = "writing"]
  /\ UNCHANGED <<last_commit, last_committed_version,
                 recently_committed_transactions, cleanup_queue,
                 awaiting_cleanup, commit_id, changes, decision, cleanVars,
                 mutexVars, storageLockVars, client>>

\* The tables are vacuumed (full checkpoints) and written while the phase is
\* "writing"; then the header, then the WAL is switched under its lock.
WriteTables ==
  /\ checkpoint.phase = "writing"
  /\ checkpoint' = [checkpoint EXCEPT !.phase = "finishing"]
  /\ UNCHANGED <<listVars, clockVars, txnVars, cleanVars, mutexVars,
                 storageLockVars, client, pc, decision>>

WALFinishCheckpoint ==
  /\ checkpoint.phase = "finishing"
  /\ WalLockFree
  /\ checkpoint' = [checkpoint EXCEPT !.phase = "committing"]
  /\ UNCHANGED <<listVars, clockVars, txnVars, cleanVars, mutexVars,
                 storageLockVars, client, pc, decision>>

\* After the checkpoint transaction's commit the function returns, and the
\* lock keys are released on the way out.
EndCheckpoint ==
  /\ \/ checkpoint.phase = "ending"
     \/ checkpoint.phase = "committing" /\ pc[Ckpt] = "done"
  /\ checkpoint' = NoCheckpoint
  /\ vacuum_exclusive' = {}
  /\ checkpoint_exclusive' = {}
  /\ wal_lock' = IF wal_lock = checkpoint.owner THEN NoThread ELSE wal_lock
  /\ client' = IF checkpoint.owner = Client
               THEN [client EXCEPT !.at = "idle", !.type = "FULL_CHECKPOINT"]
               ELSE client
  /\ pc' = [t \in Txn |-> IF t = Ckpt THEN "none"
                          ELSE IF t = checkpoint.owner THEN "done" ELSE pc[t]]
  /\ decision' = [t \in Txn |-> IF t = checkpoint.owner THEN NoDecision
                                ELSE decision[t]]
  /\ UNCHANGED <<listVars, clockVars, txnVars, cleanVars, start_transaction_lock,
                 cleanup_lock, checkpoint_shared, vacuum_shared>>

-----------------------------------------------------------------------------
\* What the thread of transaction t does.
TxnStep(t) ==
  \/ StartTransaction(t)
  \/ \E k \in Kind, made \in BOOLEAN : SetModifications(t, k, made)
  \/ \E e, s \in BOOLEAN, a \in Automatic \union {FALSE} :
       CommitTransaction(t, e, a, s)
  \/ \E f \in BOOLEAN : \/ WriteToWAL(t, f) \/ CommitUndoBuffer(t, f)
                        \/ Backpedal(t, f) \/ CommitBackpedalled(t, f)
  \/ RollbackTransaction(t)
  \/ TakeCleanupLock(t) \/ CleanupEntry(t) \/ CleanupThrows(t)
  \/ PopCleanup(t) \/ CleanupDone(t)
  \/ AutomaticCheckpoint(t)

ClientStep ==
  \/ CheckpointStatement \/ ForceCheckpoint \/ ForceLocked \/ ForceInterrupted
  \/ ReadLastCommit \/ ReadLowestBound
  \/ \E r \in BOOLEAN : ClientCheckpoint(r)

CheckpointStep ==
  \/ WALStartCheckpoint \/ WriteTables \/ WALFinishCheckpoint \/ EndCheckpoint

Next == (\E t \in Txn : TxnStep(t)) \/ ClientStep \/ CheckpointStep

Spec == Init /\ [][Next]_vars

-----------------------------------------------------------------------------
(* Properties.                                                             *)

Timestamp == 0 .. IncludingUncommitted
CheckpointType == {"FULL_CHECKPOINT", "CONCURRENT_CHECKPOINT"}
PcValue == {"none", "active", "wal", "relock", "backpedalled", "cleanup",
            "cleaning", "checkpoint", "checkpointing", "done"}

\* Type invariant.
TypeOK ==
  /\ current_start_timestamp \in 1 .. TRANSACTION_ID_START
  /\ active_transactions \subseteq Txn
  /\ lowest_visibility_bound \in Timestamp
  /\ last_commit \in Timestamp
  /\ last_committed_version \in Nat
  /\ recently_committed_transactions \in Seq(Txn)
  /\ cleanup_queue \in Seq([transactions : Seq(Txn), bound : Timestamp])
  /\ pc \in [Txn -> PcValue]
  /\ start_time \in [Txn -> Timestamp]
  /\ commit_id \in [Txn -> Timestamp]
  /\ catalog_version \in [Txn -> Nat]
  /\ changes \in [Txn -> SUBSET Kind]
  /\ decision \in [Txn -> [can : BOOLEAN, skip : BOOLEAN, error : BOOLEAN,
                           type : CheckpointType]]
  /\ awaiting_cleanup \subseteq Txn
  /\ cleaned_up_entries \in [Txn -> Nat]
  /\ pass \in 0 .. NumEntries
  /\ applied \in [Txn -> Nat]
  /\ failures \in 0 .. MaxFailures
  /\ {start_transaction_lock, wal_lock, cleanup_lock} \subseteq Thread \union {NoThread}
  /\ checkpoint_shared \subseteq Txn /\ vacuum_shared \subseteq Txn
  /\ checkpoint_exclusive \subseteq Thread /\ vacuum_exclusive \subseteq Thread
  /\ client \in [at : {"idle", "spinning", "locked", "read", "decided", "checkpointing"},
                 last_commit : Timestamp, type : CheckpointType,
                 statements : 0 .. MaxStatements]
  /\ checkpoint \in [owner : Thread \union {NoThread},
                     phase : {"none", "starting", "writing", "finishing",
                              "committing", "ending"},
                     type : CheckpointType]

Committed(t) == commit_id[t] # 0
QueuedIn(q) == UNION {ToSet(q[i].transactions) : i \in DOMAIN q}
\* snapshot a reads the state before t's commit
Precedes(a, t) == start_time[a] <= commit_id[t]

\* No old version is thrown away under a reader: an update, index delete or
\* catalog change is cleaned up only when no active transaction started before
\* it committed (the conditions above UndoBuffer::Cleanup, decided by
\* SweepCommittedTransactions and carried out later without the lock).
HasOldVersions(t) == changes[t] \ {"insert", "delete"} # {}
CleanupSparesSnapshots ==
  \A u \in awaiting_cleanup :
    HasOldVersions(u) => /\ Committed(u)
                         /\ \A a \in active_transactions : ~Precedes(a, u)

\* Nothing is kept for longer than a snapshot needs it: whenever committed
\* transactions are waiting, an active transaction precedes the first.
NothingLingers ==
  recently_committed_transactions # <<>> =>
    \E a \in active_transactions : Precedes(a, Head(recently_committed_transactions))

\* Each undo entry of a committed transaction is cleaned exactly once, however
\* often CleanupTransactions is interrupted by an exception; none of a rolled
\* back one is.
Destroyed(t) ==
  /\ ChangesMade(t) /\ t \notin active_transactions
  /\ t \notin ToSet(recently_committed_transactions)
  /\ t \notin QueuedIn(cleanup_queue)
EntriesCleanedOnce ==
  \A t \in Txn :
    /\ applied[t] <= (IF Committed(t) THEN NumEntries ELSE 0)
    /\ Destroyed(t) /\ Committed(t) => applied[t] = NumEntries

\* No checkpoint writes tables while an active transaction still reads from
\* before a committed update or drop: GetCheckpointType refuses, and an updater
\* that is kept for an old snapshot keeps its shared checkpoint lock.
CheckpointSeesSettledUpdates ==
  checkpoint.phase = "writing" =>
    \A u \in Txn, a \in active_transactions :
      Committed(u) /\ (HasUpdates(u) \/ HasDroppedEntries(u)) => ~Precedes(a, u)

\* While the changes of a commit that skipped its WAL write are in no file,
\* nothing commits after it (CommitTransaction keeps the WAL lock until the
\* checkpoint has run).
SkippedWalCommitsLast ==
  \A t, u \in Txn :
    /\ decision[t].skip /\ Committed(t)
    /\ pc[t] \in {"cleanup", "cleaning", "checkpoint", "checkpointing"}
    /\ Committed(u) /\ ChangesMade(u)
    => commit_id[u] <= commit_id[t]

\* A transaction without catalog changes of its own has the catalog version
\* that counts exactly the catalog commits its snapshot contains: two equal
\* versions are two equal catalogs, which prepared statements rely on.
CatalogVersionExact ==
  \A t \in active_transactions :
    ~HasCatalogChanges(t) =>
      catalog_version[t] =
        Cardinality({u \in Txn : /\ Committed(u) /\ HasCatalogChanges(u)
                                 /\ ~Precedes(t, u)})

\* Whatever failed on the way, a system at rest has given every lock back,
\* and what is left of it is well typed.
AtRest ==
  /\ \A t \in Txn : pc[t] \in {"none", "done"}
  /\ client.at = "idle" /\ cleanup_queue = <<>>
LocksReturned ==
  /\ TypeOK
  /\ AtRest => /\ checkpoint_shared = {} /\ checkpoint_exclusive = {}
               /\ vacuum_shared = {} /\ vacuum_exclusive = {}
               /\ wal_lock = NoThread /\ cleanup_lock = NoThread
               /\ start_transaction_lock = NoThread

-----------------------------------------------------------------------------
(* Liveness.  Clients end their transactions; a thread inside the manager  *)
(* or inside a checkpoint runs on, and every mutex has finitely many       *)
(* contenders here.  Nothing forces a client to start or change anything,  *)
(* an exception to be thrown, or FORCE CHECKPOINT to be interrupted.       *)

EndTransaction(t) ==
  \/ \E e, s \in BOOLEAN, a \in Automatic \union {FALSE} : CommitTransaction(t, e, a, s)
  \/ RollbackTransaction(t)

CommitProtocol(t) ==
  \E f \in BOOLEAN : \/ WriteToWAL(t, f) \/ CommitUndoBuffer(t, f)
                     \/ Backpedal(t, f) \/ CommitBackpedalled(t, f)

CleanupProtocol(t) ==
  TakeCleanupLock(t) \/ CleanupEntry(t) \/ PopCleanup(t) \/ CleanupDone(t)

FairSpec ==
  /\ Spec
  /\ \A t \in Txn : /\ WF_vars(EndTransaction(t))
                    /\ WF_vars(CommitProtocol(t))
                    /\ WF_vars(CleanupProtocol(t))
                    /\ WF_vars(AutomaticCheckpoint(t))
  /\ WF_vars(ForceLocked \/ ReadLastCommit \/ ReadLowestBound
             \/ \E r \in BOOLEAN : ClientCheckpoint(r))
  /\ WF_vars(CheckpointStep)

\* Garbage collection completes: once committed, a transaction with changes is
\* eventually cleaned up and destroyed, its StorageLockKeys with it.
EveryCommitCleaned ==
  \A t \in Writer : (Committed(t) /\ ChangesMade(t)) ~> Destroyed(t)

\* FORCE CHECKPOINT waits "until any active transactions are finished", and
\* clients do finish: it does not wait for ever.
ForceCheckpointGetsLock ==
  (client.at = "spinning") ~> (client.at # "spinning")
=============================================================================
