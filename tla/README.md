# TLA+ models of DuckDB's transactional storage and query execution

This directory holds TLA+ models of the parts of DuckDB that decide which data
a transaction sees, which data survives a crash, which blocks stay in memory and
when a query is finished, the TLC configurations that check them, and TLAPS
proofs of the most important results. Every definition is
translated from the source; `PROJECT.json` (`map`) names the lines. Paths below
are relative to the repository root (the engine is in `src/`).

Contents: 1 inventory, 2 modules, 3 runs, 4 fairness, 5 proofs, 6 findings and
limits, 7 what is left out, 8 plan.

## 1. Inventory

### The system

DuckDB is an embedded analytical database. A query passes through the parser,
the binder, the optimizer and the physical planner, which work on private state,
and is then executed by tasks of a thread pool. What many threads and several
runs of the process share is the transactional storage, the buffer pool and the
scheduler:

| Component | State | Operations | Hard behaviour |
|---|---|---|---|
| Storage lock (`storage/storage_lock.cpp`) | reader count, writer flag, ticket counters, sleepers | blocking and trying acquisition, upgrade, release | notification after unlock, barging, starvation |
| Transaction manager (`transaction/duck_transaction_manager.cpp`) | timestamps, active and recently committed transactions, clean-up queue, six locks | start, commit, roll back, clean up, CHECKPOINT, FORCE CHECKPOINT, automatic checkpoint | `transaction_lock` is dropped during WAL writes, clean-up and checkpoints; decisions are used after it |
| Transactions and undo buffers (`transaction/duck_transaction.cpp`, `undo_buffer.cpp`, `commit_state.cpp`, `cleanup_state.cpp`, `rollback_state.cpp`) | undo entries, lock keys | commit entry by entry, revert, roll back, clean up | failures half-way through each |
| Row versions (`storage/table/chunk_info.cpp`, `row_version_manager.cpp`) | insert and delete ids per row in three encodings, checkpoint watermarks | delete, append, commit, revert, clean up, compress, store, load | half-committed vectors, stale bounds, cached flags |
| WAL and recovery (`storage/storage_manager.cpp`, `write_ahead_log.cpp`, `wal_replay.cpp`, `checkpoint_manager.cpp`) | up to three log files, the database header, sizes and iterations in memory | write, flush, truncate, switch logs, merge, replay | crash at any step, also inside recovery; torn writes |
| Block manager (`storage/single_file_block_manager.cpp`, `block_manager.cpp`, `metadata/metadata_manager.cpp`) | headers, free list, block use counts, metadata sub-blocks, handles | allocate, free, share, write header, truncate, reload | blocks referenced by the old header or the WAL must not be reused; optimistic writers run during a checkpoint; late destructors |
| Catalog sets (`catalog/catalog_set.cpp`, `dependency_manager.cpp`) | version chains of entries, two sets of dependencies | create, alter, rename, drop, undo, clean up | write-write conflicts, dependencies between names that do not conflict |
| Update segments (`storage/table/update_segment.cpp`) | per-vector chains of old values | update, fetch, roll back, clean up | same as row versions, other conflict rule |
| Local storage (`storage/local_storage.cpp`, `optimistic_data_writer.cpp`) | a transaction's new rows | append, flush, roll back | blocks written before the commit |
| Index list (`storage/table_index_list.cpp`) | indexes and their checkpoint deltas | append, delete, merge | changes during a checkpoint |
| Buffer pool (`storage/buffer/`) | block states, eviction queue, memory use | pin, unpin, evict, reserve | races between pin, eviction, purge and destruction; failing writes; the limit |
| Scheduler and executor (`parallel/`) | task queues, events, pipelines | schedule, block, interrupt, finish, cancel | wake-ups that come early, errors in any stage, cancellation while tasks run |
| Temporary memory (`storage/temporary_memory_manager.cpp`) | reservations | reserve, grow, shrink | the limit |

Interactions. A connection starts a transaction at the manager; its first write
takes a shared key of `checkpoint_lock` (and of `vacuum_lock` for a delete).
Inserts, deletes and updates write version ids into row groups and push undo entries. Commit
writes the WAL under `wal_lock`, then gives every undo entry its commit id,
leaves the transaction in a list until no snapshot needs its old versions, and
may end in an automatic checkpoint. A checkpoint needs the exclusive
`checkpoint_lock`, switches the WAL under `wal_lock`, writes tables while other
transactions commit into a second log, writes the header, and merges the logs.
Opening a database replays what the last process left. A large insert writes its
blocks before the commit, so the block manager's accounts change under
transactions and checkpoints alike; every block that is read goes through the
buffer pool. A query's pipelines become events, whose tasks the scheduler's
threads and the client run.

What makes each component correct is listed with its run in section 3; what is
hard to test is listed line by line in `PROJECT.json` (`hazards`).

The remaining components (parser, planner, optimizer, operators, functions,
codecs, file systems, C API, extensions, the miniosv port) are listed in
`PROJECT.json` with the reason why they are not modelled.

## 2. Modules

| Module | Models | Built on |
|---|---|---|
| `ReadersWriter` | what a readers-writer lock promises | |
| `StorageLock` | `StorageLockInternals` with its condition variable | refines `ReadersWriter` |
| `StorageLockProofs` | theorems about it | `StorageLock`, TLAPS |
| `ChunkVectorInfo` | the version ids of one vector, as operators on a record | |
| `RowVersionManager` | one vector under concurrent transactions and checkpoints | `ChunkVectorInfo` |
| `RowVersionProofs` | theorems about visibility, deletes, snapshots and stored deletes | `RowVersionManager`, TLAPS |
| `TransactionManager` | `DuckTransactionManager`, locks used as `ReadersWriter` describes them | |
| `TransactionManagerProofs` | theorem about clean-up | `TransactionManager`, TLAPS |
| `TransactionProtocolProofs` | theorems about locks, the sweep, undo entries, catalog versions | `TransactionManagerProofs` |
| `WalRecovery` | log files, header, checkpoint switch-over, recovery | |
| `WalRecoveryProofs` | theorems about durability | `WalRecovery`, TLAPS |
| `UpdateSegment` | the update chains of one vector, values and validity | |
| `CatalogSet` | the version chain of one name, as operators on a sequence | |
| `SnapshotCatalog` | what a catalog promises its transactions | |
| `Catalog` | catalog sets and dependency manager under concurrent transactions | `CatalogSet`, refines `SnapshotCatalog` |
| `BlockAccounts` | the accounts of the block and metadata managers, as operators on records | |
| `BlockManager` | the blocks of a file over transactions, checkpoints and restarts | `BlockAccounts` |
| `PipelineSchedule` | the stage graph of a query plan, as operators | |
| `Executor` | events, tasks, client and worker threads of one statement | `PipelineSchedule` |
| `ExecutorProofs` | theorems about stages, tasks, the end and success | `Executor`, TLAPS |
| `BufferPool` | block memory, eviction queues, reservations and the limit | |
| `BufferPoolProofs` | theorems about contents and queue entries | `BufferPool`, TLAPS |
| `BufferAccountProofs` | theorems about memory, the limit and dead entries | `BufferPoolProofs` |
| `MC*` | model-checking instances: symmetry sets, delete lists, query plans, sizes | |

The models meet at narrow interfaces and are checked separately.
`TransactionManager` says when an undo buffer may be cleaned and when a
checkpoint may run; `RowVersionManager` says what cleaning and checkpointing do
to a vector, with the manager's lock discipline (one transaction ends at a time,
a clean-up runs later with the bound recorded when it was queued) as its
environment, and `UpdateSegment` and `Catalog` do the same for update chains and
catalog entries; `WalRecovery` takes a transaction as one number and asks what
survives, and `BlockManager` takes the log as the set of blocks it names and
asks whether they survive with it. `BufferPool` and `Executor` stand for
themselves.

**StorageLock.** Every critical section under `state_lock` is one action. A
failed predicate puts the thread to sleep (`pc`), a release notifies in a step
of its own because the code notifies after it dropped the mutex, and a woken
thread looks at its predicate in another step, so others may take the mutex in
between. Spurious wake-ups are included. Of the two ticket counters only their
difference matters to a predicate: `pending_writers` is it, and `target` is what
a waiting reader still has to see released, so that the states are finite
without a bound on acquisitions. A thread does not ask a lock whose key
it holds, except for the upgrade.

**ChunkVectorInfo and RowVersionManager.** The record `info` has the fields of
the class: `delete_state` (CONSTANT, MASKED or ARRAY), the constant and masked ids, the arrays, the
flag `recheck`. Operators take and return such records, named as the methods.
`ins` and `del` are a reference implementation without any compression that the
properties compare with. A commit or rollback is one step per undo entry
because `version_lock` is released between them; `transaction_lock` is held
throughout, so no transaction starts or ends meanwhile. The checkpoint is split
where the code can be interleaved: it takes its snapshot, reads the lowest
bound, compresses, stores the deletes. The table is assumed to have an index
that keeps row ids, otherwise appends start a new row group after a reload and
the vector is not appended to. Appends during a checkpoint go to a new row
group (`AppendRequiresNewRowGroup`). A DELETE may be handed any list of rows, a
row repeatedly as a join delivers it. Two history variables name the rows that
the code's own slips touch (section 6): `strayed`, given back by a conflict
although an earlier call had deleted them, and `ghosts`, stored as deleted where
a reverted append had left its ids.

**TransactionManager.** A section under `transaction_lock` is one action; where
the code drops it, or takes another lock, a new action begins. Commit is
`CommitTransaction` (decision, try-upgrade), `WriteToWAL`,
`CommitUndoBuffer` or `Backpedal` and `CommitBackpedalled`, then clean-up
(`TakeCleanupLock`, one step per undo entry, `CleanupThrows`, `PopCleanup`,
`CleanupDone`) and `AutomaticCheckpoint`. Each stage may fail where the code
catches an exception. `Client` runs CHECKPOINT and FORCE CHECKPOINT, whose two
unlocked reads (`ReadLastCommit`, `ReadLowestBound`) are separate steps. What a
transaction changed is a set of kinds (insert, delete, index_delete, update,
create, drop), from which the undo properties follow.

**WalRecovery.** A file is a sequence of entries with the length known to be on
disk; a transaction's data is one entry. A crash keeps the synced part and any
prefix of the rest, the next entry possibly torn. Recovery is split at every
step that changes a file: truncation at a failed marker, merge, sync, move,
remove; a crash may come between any two. `ReadOnlyDatabase` computes what a
read-only connection would find in the same files.

**UpdateSegment.** A column has two segments, values and validity; each has a
root with the newest values and a doubly linked chain of one node per
transaction with the values it overwrote. The operators move roots and nodes as
the code moves pointers, so a link that is forgotten is visible (`ChainIntact`).
An UPDATE is two steps, one per segment, either of which may fail after the undo
entry was made; a transaction logs its updates, commits, rolls back and is
cleaned up entry by entry. `written` records what each transaction wrote, for
the properties only.

**CatalogSet, Catalog, SnapshotCatalog.** A chain is a sequence of entries, newest
first, with tombstones, rename markers and the dummy at the bottom. A statement
reads in its snapshot what it has to change and then changes one key at a time,
because every change takes the write lock on its own; a dependency is two keys,
one per side. Commit gives one entry after the other its commit id and checks
drops and dependencies on the way; a failed check reverts the earlier ones.
`SnapshotCatalog` gives each transaction a private copy and publishes its changes in one step; the refinement maps the committed
entries to `current`, what `GetEntry` finds to `view`, and the entries with the
transaction's id to `dirty`. A commit under way counts as not committed until
it is through, which `transaction_lock` justifies: nobody starts meanwhile.

**BlockAccounts, BlockManager.** The accounts are the five containers of
`SingleFileBlockManager`, one operator per critical section; `failed` records an
InternalException or a violated assertion. Segments are written optimistically
or by a checkpoint to free blocks; handles are destroyed in two steps, because
the destructor runs after the last reference is gone. WriteHeader is two
steps after the reservation of the list's metadata: the free list is captured,
everything is synced and the header is written; the header is synced, modified blocks are released, the file is truncated and
the log is finished. The file is a set of
cells that are on disk or not; the two header slots are `header` and `previous`,
and a crash before the sync may bring back either.

**PipelineSchedule, Executor.** The stage graph is built for a plan as
`parallel/pipeline_schedule.cpp` builds it, and extended by the events that
sinks insert. Each thread
carries the rest of the call it is in as a stack, so that another thread may
come in wherever the code holds no lock; a call of CompleteDependency names the
event that makes it. `MaxThreads` is the largest number of tasks of one event. Tasks are counted references, so
destruction happens on the thread that drops the last one. The client runs
tasks, sees errors, and always ends in CancelTasks and the destruction of the
executor.

**BufferPool.** Pin, Unpin, Allocate and the destructor are split where the
block's lock is not held: making room, each visit of a queue entry, each step of
a purge and the second look at the block are steps of their own. `used` is the memory counter, `th[t].res` a thread's reservation,
`assured` the largest limit a thread may still rely on (a thread may be granted
memory by a limit it read before `SetLimit` changed it). A conversion to a block
of the file is two steps, because it returns its charge and takes it back under
another memory tag without a look at the limit; `overdraft` is what such
conversions had yet to take back when memory was last granted. It fails when
the block has other readers or cannot be written. The queues are sets, as
the concurrent queue orders the entries of one producer only. A purge that
locks a weak pointer, reads the sequence number and drops the reference does it
in one step.

## 3. Runs

| Run | Instance | Shows |
|---|---|---|
| `storage_lock` | 4 threads, any number of acquisitions of each kind | `LockInv`: counters match keys, exclusion, no lost wake-up; refinement of `ReadersWriter`; a waiter is kept out for ever only by writers that overtake it infinitely often (`WaitersServed`) |
| `row_versions` | 3 transactions, a vector of 2 rows with 1 loaded, lists with repeated rows, 2 undo entries each, timestamps to 9 | snapshots see exactly what uncompressed ids would show and do not change; undo entries own their rows and the first deleter wins (`DeletesOwned`); the stored deletes, of loaded and of appended rows, are those below the checkpoint's bound |
| `row_repeated_delete` | 2 transactions, a vector of 3 rows with 2 loaded, lists of up to two rows in any order | expected violation, see section 6 |
| `txn_manager` | 2 writers with 2 undo entries each, automatic checkpoints or none, a CHECKPOINT or FORCE CHECKPOINT, 1 failure or exception in clean-up | nothing a snapshot needs is cleaned, every entry exactly once, not later than possible; the catalog version identifies a catalog; all locks come back, the exclusive checkpoint lock and a kept WAL lock included; no table is written while an older snapshot needs a committed update or drop; a commit that skipped the WAL stays last until its checkpoint |
| `txn_live` | 1 writer, 1 reader, 1 statement | every commit is cleaned up, FORCE CHECKPOINT gets its lock |
| `wal_recovery` | 4 commits, 3 checkpoints of 3 kinds, 2 crashes | acknowledged commits survive and failed ones do not come back; commits come back once and in order; read-only replay agrees |
| `update_segment` | 3 transactions, 3 updates from 6 assignments to 2 rows, 2 values and NULL, 1 fault | snapshots read the last commit before them and their own writes; the log and the checkpoint store what was committed; the chain is linked both ways and holds no freed node |
| `catalog` | 2 writing transactions and a reader, 3 statements, a sequence, a table that uses it and its new name | refinement of `SnapshotCatalog`; no committed dependency dangles; both sides of a dependency agree; undo entries point into their chains |
| `block_manager` | 2 segments, 4 blocks with 3 sub-blocks, 2 statements, 2 checkpoints, 1 crash | what a restart needs is on disk and not free; no block with a handle is free; no internal error, but for a free list that was crowded out (section 6); every block is used, free or soon free |
| `executor` | 3 plans (two join builds and a probe, a union with a parallel pipeline, a finish group), a client, a worker, a waker; 1 blocking task, 1 unfinished task, 1 fault | stages run in order; tasks are run by one thread and none is forgotten; nothing outlives the executor; a success is real; the statement ends |
| `buffer_pool` | 2 threads, a block of the file and a managed buffer, limits 0, 1 and 2, 2 queue insertions after which nothing is pinned, 1 fault, 1 change of the limit | memory is accounted for; pinned blocks stay and contents are never lost; evictable blocks are found; dead entries are counted; the limit holds up to what conversions took back |
| `wal_double_replay` | 2 commits, 2 checkpoints, 3 crashes | expected violation, see section 6 |

Why the bounds are enough. Lock: four threads are a reader,
a writer with a ticket ahead of it, an upgrade and a writer that barges in, at
once, and nothing bounds how often. Rows: one loaded row and one that is
appended, deleted, reverted and appended again, and three transactions for a
deleter, a conflicting deleter and an old snapshot; timestamps to 9 allow two
checkpoints with commits between them. A vector of three rows, two of them
loaded, passes with timestamps to 7 as well. Transactions: two writers give an order of
commits, and the one that is still active an old snapshot for the other's; two
undo entries a clean-up that fails in its middle. WAL: two
crashes allow a crash of a recovery and another commit and checkpoint after it;
the third crash is where `wal_double_replay` starts (`Durability` alone also passes
with four checkpoints and five crashes). Updates: three
transactions are an updater, a later one and an old snapshot; a capacity of one
makes the root grow. Catalog: three statements allow drop, create again and a
dependent, interleaved. Blocks: the second checkpoint reuses what the first one
freed; sub-blocks outlive a checkpoint. Executor: the plans have each kind of
dependency once; one blocking task and one fault meet in every order. Buffer
pool: a limit of one makes each pin evict the other block, a limit of zero
makes every grant wait for what others return; an instance with
three blocks of two sizes, without faults and changes of the limit, passes as well (1.4
million states). The clocks are
bounded in the guards (`MaxClock`, `TRANSACTION_ID_START`), as are statements,
commits, checkpoints, crashes and faults; each bound is a named
constant. `CHECK_DEADLOCK FALSE` is set where everything may have ended (all
transactions, all handles, all statements); `storage_lock`, `wal_recovery` and
`executor` check for deadlock.

Each property of a passing run has a mutant: a definition of the model changed
as a plausible bug would change the code (the operators whose comment says
"Mutant"), under which TLC finds the property violated. Most runs have the type
invariant as the first part of one of their properties.

## 4. Fairness

- `StorageLock!FairSpec`: weak fairness of `Notify` and `Wake` (a thread between unlock
  and notify runs on; a notified thread gets the mutex) and of the releases (keys are
  scoped objects that are destroyed). None on acquisitions, try-locks or
  spurious wake-ups. A notified thread gets the mutex some time, but others
  may have taken the lock by then: `WaitersServed` names these steps.
- `TransactionManager!FairSpec`: weak fairness of ending a transaction, of
  every step inside the commit protocol, clean-up, checkpoint and CHECKPOINT
  statement. None on starting or changing anything, on exceptions, or on
  the interruption of FORCE CHECKPOINT. FORCE CHECKPOINT retries in a loop, which weak
  fairness describes because nobody can start writing while it spins.

- `Executor!Spec`: weak fairness of what each thread does inside a call, of
  taking a task from the queue and running it, of completing asynchronous
  work, and of the client's steps: threads are scheduled, tasks return, and what
  a task blocked on is completed some time. None on faults and interrupts,
  but an interrupted client gives up. The semaphore of the workers and the
  bounded wait of the client are abstracted: a queued task can be taken.

The other specifications state no fairness; their runs check safety only.

## 5. Proofs

`tlapm` checks the eight proof modules; nothing is assumed beyond the named
assumptions on constants, which TLC evaluates in every run. The theorems hold
for every value of the constants. Each inductive invariant was first checked
with TLC on small instances.

| Theorem | Property of a run | Says |
|---|---|---|
| `LockCorrect` (`MutualExclusion`, `WakeupsNotLost`), `ImplementsReadersWriter` | `LockInv`, `ReadersWriterSpec` | writers exclude, no sleeper is forgotten, the lock is a readers-writer lock |
| `CleanupSafe` | `CleanupSparesSnapshots` | no version is cleaned under a snapshot that needs it |
| `SweepIsComplete` | `NothingLingers` | the sweep leaves nothing that no snapshot needs |
| `CleanupIsExact` | `EntriesCleanedOnce` | every undo entry is cleaned exactly once |
| `VersionsAreExact` | `CatalogVersionExact` | catalog versions count the catalog commits a snapshot sees |
| `LocksAreReturned` | `LocksReturned` | who has ended holds no lock |
| `CheckpointsAreSettled` | `CheckpointSeesSettledUpdates` | a checkpoint writes no table with updates some snapshot does not see |
| `SkippedWalIsLast` | `SkippedWalCommitsLast` | nothing commits between a skipped WAL write and its checkpoint |
| `CommitsAreDurable` (`RecoveryCorrect`, `NothingIsLost`, `NothingIsRevived`) | `Durability` | a database that opens after any crashes has every acknowledged commit and none that failed |
| `ContentsAreKept` | `ContentsKept` | a pinned block stays loaded, a temporary one is in memory or in its file |
| `EvictableIsQueued` | `EvictableQueued` | a block without readers can be found for eviction |
| `AccountsCorrect`, `MemoryIsAccounted` | `MemoryAccounted` | the memory counter is what blocks and reservations add up to |
| `LimitIsKept` | `WithinLimit` | what was granted stays within the limit it was checked against |
| `DeadNodesAreCounted` | `DeadNodesCounted` | the counter of a queue is the number of its dead entries |
| `StagesInOrder` (`ExecutorCorrect`) | `PipelineOrder` | no stage runs before the sinks it depends on are complete, inserted events included |
| `NoTaskLostOrDoubled` | `TasksAccounted` | a task is queued, held or parked once, and a parked one will be woken |
| `ExecutorOutlivesItsTasks` | `NothingOutlives` | no task is left when CancelTasks returns, no thread inside a destroyed executor |
| `FinishedIsFinished` | `SuccessIsReal` | a statement reported as finished ran every task of every stage without an error |
| `VisibilityIsExact` | `VisibilityExact` | compressed version information shows what plain ids would |
| `DeletesAreOwned` | `DeletesOwned` | a delete belongs to who made it, the first deleter wins |
| `SnapshotsAreStable` | `SnapshotStable` | what a running transaction sees changes only by its own deletes |
| `CheckpointStoresDeletes` | `DiskMatchesBound` | a checkpoint stores exactly the deletes below its bound |

**StorageLockProofs** (for every finite set of threads and any number of
acquisitions). The inductive invariant `LockInv` has six parts: `TypeOK`;
`CountsKeys` (`read_count` is the number of shared keys, `writer_active` says
whether there is an exclusive one); `Exclusion`; `TicketsExact` (the outstanding
tickets are those of waiting and active writers, and no reader waits for more);
`WaitersHoldNothing`; and `NoLostWakeup`. `Exclusion` alone is not inductive, because a grant looks at the
counters and not at the keys; `NoLostWakeup` needs `WaitersHoldNothing`, or a
release could change what a sleeper's predicate says about itself. From it
follow `MutualExclusion`, `WakeupsNotLost`, and `ImplementsReadersWriter`: the
lock's steps are steps of `ReadersWriter` or leave the keys unchanged.

**TransactionManagerProofs** (for all sets of transactions, kinds of change and
bounds). `CleanupSparesSnapshots`: no undo buffer with updates, index deletes or catalog
changes awaits clean-up while an active transaction started before its commit. The invariant
`CleanupInv` adds to it the types it needs (`CleanupTypes`), that every
timestamp handed out is below the next one (`TimestampsPast`), that a
transaction is active, kept or queued and never two of these (`InOnePlace`), and
that only committed transactions are kept (`KeptCommitted`). The argument:
a removal recomputes the lowest bound without the leaving transaction
(`LowestBoundIsLower`), the sweep takes a prefix below that bound
(`SweptBelowBound`), and a later start gets a timestamp above every commit
(`BeginKeepsInv`).

**TransactionProtocolProofs** adds the commit protocol. `ProtocolInv` extends
`CleanupInv` by

- `LocksInv`: from where a thread is in `CommitTransaction` follows which lock
  it holds (`MutexesHeld`, `ExclusiveHeld`, `CheckpointOwned`), and the locals of
  a commit exist only during it (`DecisionsLocal`). The properties about locks
  speak of threads at rest; the invariant has to say it at every point of the
  code, because a lock that is taken before the WAL is written is returned by
  whichever exit the commit takes, failing ones included.
- `PlacesInv`: a transaction that has ended is kept, queued or gone, each once
  (`PlacesApart`); its keys of the two shared locks live no longer
  (`KeysOwned`); the cached bound is the start time of somebody who is active,
  and the first kept transaction is kept because of it (`BoundAttained`); what
  is no longer kept is behind no snapshot (`GoneIsSettled`). `BoundAttained` is
  what `NothingLingers` needs: the sweep stops at the first transaction that it
  must keep, so the first one alone says that stopping was right.
- `OwnUpdatesSettled`: a commit that goes on to a checkpoint left no updates
  behind for older snapshots; together with `KeysOwned` and the exclusive
  checkpoint lock it yields `CheckpointSeesSettledUpdates`.
- `EntriesInv`: how far the clean-up of each undo buffer is, which a clean-up
  that throws half-way must leave so that it can be resumed and not repeated.
- `VersionCounts`: the committed version is the number of catalog commits, and
  the version an active transaction carries the number of those it sees.

The proof goes action by action; the actions that remove a transaction share
`RemoveTransaction`'s lemmas. `TRANSACTION_ID_START` is at least 2, as it must
be for the first timestamp to be no transaction id.

**WalRecoveryProofs** (for any number of commits, checkpoints and crashes, any
roots). `Durability` (`NothingLost` and `NothingRevived`) speaks of what a restart finds, so
the invariant `RecoveryInv` has to say of every state of the files where the
commits are that a restart will look for:

- `Types` and `Shapes`: a log starts with its version, only its last entry can
  be torn, and only the main log has a marker, one at most.
- `Up`, while the database runs: which log is in use and who may write to it
  (`Control`); the marker is the last but one entry and names a root that is
  not the header's until the header is written (`Marking`); the acknowledged
  commits are in the header or flushed in the part of the log in use that
  neither a crash nor a reverted commit takes away (`Covered`, with `Safe` the
  smaller of the synced length and `wal_size`); the snapshot that the header will
  hold has those before the switch-over (`Snapped`); the commit that is being
  written is nowhere else (`Writing`).
- `Down`, while it does not: the same, of the files that a marker selects:
  main log only, both, or the checkpoint log, and the merged log between its
  steps.
- `Untainted` and `Known`: a failed commit is flushed in no log that counts.

`Safe` is what makes it inductive: an append that fails truncates to
`wal_size`, a crash to the synced length or any longer prefix, and a commit is
acknowledged only after both cover it. The proof follows the file operations
(append, sync, truncate, cut with a torn entry: `CutAt`), each with a lemma on
what becomes of `Flushed`; that a replay finds exactly what is flushed before the
first torn entry is proved with the least index that stops it.
`ReplayedOnce` is not a theorem: three crashes violate it (section 6).

**BufferPoolProofs** (for any sets of blocks and threads, any sizes, limits and
queue parameters). `PoolInv` is `Types`, `ContentsInv`, `Converting` and `QueueInv`.
`ContentsInv` says who may touch a block: `Owned` (the reader count is the
number of threads that have it pinned; a pinned block is loaded), `Dying` (one
thread runs a destructor, no eviction refers to the block any more), `Wanted`
(the block a thread evicts others for, which is not yet or no longer pinned)
and `Spilled`. `Converting` says that a block in conversion is its thread's
only, and that nobody else makes the block it becomes. `ContentsKept` alone breaks when a thread that evicts for a
block resumes, since nothing says that the block is still there. `QueueInv` is
`EntriesApart` (a queue entry is in one queue or in the hands of one thread),
`EntriesMade` (its sequence number has been handed out for its block) and
`EvictableQueued` itself. Dequeueing, visiting, purging in bulk and putting
back are all exchanges of entries between a queue and a thread, so that the
set of entries anywhere changes by at most the one that is dropped as dead, or
the one that is made; a new entry is nowhere yet because its sequence number
is above all that were made. `PoolAssumption`: sizes and the queue parameters
are positive, the limits have a maximum, there are finitely many threads and
blocks.

**BufferAccountProofs** adds what is counted. `AccountInv`: a thread's
reservation at each point of its operation and for what it is
(`Reservations`); a loaded block is charged its size, unless a conversion is
between its two resizes (`Charges`); `Balance`, the
equation itself; `Bounded`, which counts the reservations that were granted and
leaves out those that are still being made room for, since these may exceed the
limit until they are dropped. `Bounded` counts buffers and not charges
(`InBuffers`), because a charge that a conversion takes back would break it: at a grant
the uncharged buffers are `overdraft`, and from then on a conversion changes
neither side. Last, a bound on sequence numbers
(`Sequenced`). `MemoryAccounted` alone does not survive the moment when a block is
loaded with a reservation, since nothing relates the size of the one to the other.
`CountInv`: the counter is allowed to be off at times, and the invariant
says by how much: `dead + |Destroying| = |DeadEntries| + Judged + |Superseding|`,
where a destructor has killed an entry and not counted it yet, a purge
dropped dead entries and not subtracted them yet, and an insertion counts the
entry it is about to replace. `Placed`, `LockedOnce` and `JudgedStart` say that
these corrections belong to the right queue, and to one thread each. A sum is
the number of its units (`Units`, pairs of a member and a number up to its
value), so that its changes are facts about cardinalities (`SumOne`).

**RowVersionProofs** (for any vector size, any transactions, any lists of rows to delete,
in any order and with repetitions, any bounds). The exemptions are row by row:
the rows in `strayed`, and in `ghosts` for what is stored, are those that section
6 is about, and nothing is assumed of the others. `VersionInv` compares the compressed `info` with one insert and one
delete id per row: `InsertsSame` and `DeletesSame` say that the two ids of a row are
equal, or that both are below every floor, where `Floors` are the bounds of
all active snapshots, of the checkpoint, and the clock. That is what compression does to an id: it forgets
a number that every present and future snapshot is above. Floors only move up
(`AdvanceIf`), so the relation survives starts and ends of transactions
(`SameStays`). The other parts say who may write an id without looking at the
one that is there:

- `Owners`: the rows in the undo buffer of a running transaction carry its id,
  or its commit id for the entries its commit has already written, up to where
  the failing commit or the rollback has got (`OwnedRows`); no row is in two
  entries (`EntriesApart`); the rows of committed transactions are behind the clock, and
  behind a commit under way (`CommittedRows`). This is what makes
  `CommitDelete`'s blind write give back only own rows.
- `OneAppend`, `Appending`, `Fresh`, `FreshAlive`, `Inserted`: at most one append is under way, it is the last
  undo entry, its rows are at the end of the vector, nobody can see them or has
  deleted them, and insert ids ascend, which is why a constant may replace them.
- `Cleaning`: what a recorded bound allows a clean-up to drop is still settled
  when the clean-up runs later.
- `Ending`, `Bounds`: the commit id is the last timestamp, and during a commit
  and its reversal no snapshot lies between it and the clock.

The lemmas on operators state what each representation shows:
`DeleteIsExact` (the array delete with its undone conflict writes exactly the
rows it reports), `CommitDeleteIds`, `CompressIds`, `AppendIdsIs`,
`CommitAppendIs`. `SnapshotStable` is proved on the reference ids, which
`VisibilityExact` makes equivalent in both states: what another transaction
writes replaces an id that the snapshot does not see by another that it does
not see (`OthersUnseen`).

The last part of the module is about what is stored, of loaded and of appended
rows (`StoredCorrect`). A checkpoint skips a vector when its watermarks say that no delete below the
bound is missing on disk. `DiskInv` says what the watermarks have to mean:
every committed delete of a row outside `strayed` (`Kept`) that is not on disk, or on
disk only as a ghost (`Known`), lies between oldest
and newest (`Pending`); what is on disk is below the bound of the checkpoint
under way and of every later one, and is not the id of a commit that may still
be reverted (`StoredSettled`, for which `CheckpointFirst` places the bound
before such a commit); an absent info has no deletes (`AbsentAlive`); no append
is under way while a checkpoint runs (`RowsSettled`, because invisible rows are
stored as deleted). Clearing both watermarks is right only because *newest* too is
below the bound. `WriteIs` and `HasDeletesIs` are the conversions to and from
the stored form.

**ExecutorProofs** (for any plans, any number of workers and wakers, any number
of tasks per event, any bounds). `ExecutorInv` is `TaskInv`, which knows nothing
of the plan's dependencies, and `EventInv`.

`TaskInv` follows the references to a task through the stacks of calls:

- `Shapes`: the executor's lock is held, and a task descheduled, only at the top
  of a stack, and a worker's call ends in dropping its reference; `Holding`:
  what a thread holds while it executes, between two slices and after
  `CancelTasks` has begun.
- `Counted`: `executor_tasks` is the number of tasks that are referenced
  somewhere, none when `CancelTasks` is through, and no thread is in a call when
  the executor is destroyed. `Fresh`: tasks belong to events that have begun.
- `OwnedOnce`: a task is in one place of the queue, or held by one thread, or
  parked in `to_be_rescheduled_tasks`. `Remembered`: a parked or descheduling
  task of a statement that is not cancelled is in the list of a blockable state
  or in the hands of somebody who will wake it. `TasksAccounted` follows
  from the two; it alone does not survive `AddToBeRescheduled`, since a
  wake-up may have gone by when the task is parked.

`EventInv` counts. An event is scheduled when its counter of met dependencies reaches
the number of dependencies, and the counter says nothing about *which* were
met. `Dependencies` says it: the counter is the number of dependencies that are
done and have made their call (`Reported`), where a finish event that had
another inserted is done when that one is, and its call is made by the
inserted event. `CallsMade` makes it exact: a call of CompleteDependency in
progress comes from a finished event, goes to one that depends on it, and is
made once. A call carries the caller in the model for this reason; two
callers of one event were the same stack entry otherwise. `Scheduling`: an event
has no tasks before it has begun, tasks that finished and tasks that exist
are no more than it was given, and it finishes when they are as many.
`Completion`: `completed_pipelines` counts complete events whose
FinalizeFinish is through. `PipelineOrder` follows because every dependency of
an event that has begun is done; `SuccessIsReal` because all base pipelines are
complete and every stage lies before one of them in the graph.

`ExecutorAssumption`: threads are finitely many and distinct, and plans are
what `MetaPipeline` builds (`IsPlan`): pipelines refer to pipelines of the plan,
a meta-pipeline has one base, and the head of a finish group is neither the
base nor in another group, since only the two joins that create a meta-pipeline for both
sides call `AddFinishEvent`, once. Nothing is assumed of the dependencies
between meta-pipelines, not even that they are acyclic: a cyclic plan would never
finish, but run nothing out of order.

Only TLC checks, and why:

- all liveness properties: fairness is out of the prover's reach;
- `ReplayedOnce` and `ReadOnlyAgrees` of the log files: the first holds up to
  two crashes only, and no invariant of single steps sees the number of crashes
  that lie ahead;
- what the `update_segment`, `catalog` and `block_manager` runs
  show, the refinement of `SnapshotCatalog` included. The three are built
  on folds over sequences and sets (the undo of a list of updates, the steps of
  a DROP CASCADE, the blocks of all handles), whose results the installed
  provers cannot reason about by induction.

## 6. Findings and limits

`wal_double_replay` (bug): a crash of recovery between moving the merged log and
deleting the checkpoint log, then a checkpoint whose marker is synced before the
left-over log is deleted, then a crash: commits are replayed twice. The run
`wal_recovery`, with two crashes, cannot reach it. `ReadOnlyAgrees` fails at
three crashes as well, in the same files.

`row_repeated_delete` (bug): a delete that meets a conflict marks every earlier
row of its list as alive, also rows that an earlier call of the same
transaction deleted (`chunk_info.cpp:414`), as DELETE ... USING may
hand them over twice (`row_group.cpp:2190`). The row stays in the undo buffer; another
transaction deletes it and commits, and the rollback of the first brings it
back. `DeletesOwned`, `SnapshotStable` and `DiskMatchesBound` leave out just the
rows this has happened to (`strayed`).

Some behaviour was met while modelling that the runs do not cover, or that a
property or an instance leaves out on purpose:

- A full checkpoint is decided under `transaction_lock` and tries the vacuum lock
  only after it was released and the clean-up was done
  (`duck_transaction_manager.cpp:369`). What it vacuums may still be visible to a
  reader that started in between. `CheckpointSeesSettledUpdates` is
  about updates and drops only.
- After an exception in the clean-up nothing retries until the next commit or
  rollback, which FORCE CHECKPOINT keeps out; `txn_live` therefore has
  `MaxFailures = 0`.
- A reverted append leaves its ids in the vector, a checkpoint stores those rows
  as deleted, and an append into the same slots does not make the next checkpoint
  rewrite the stored deletes: that "the blocks on disk are current"
  (`row_version_manager.cpp:252`) is not so then. `DiskMatchesBound` leaves out
  the rows this has happened to (`ghosts`) and no other appended ones.
- "Neither side can starve the other" (`storage_lock.cpp:15`) holds up to the
  order in which threads take the mutex: the predicate of a writer does not look at tickets
  and `TryGetExclusiveLock` at none either, so writers that take the mutex before a
  notified waiter does may overtake it again and again. `WaitersServed` says
  that nothing else keeps a waiter out.
- A torn first transaction is left in the log with a size of 0 in memory; a
  checkpoint then neither marks nor removes the file, and the next open refuses
  it as one iteration behind (`storage_manager.cpp:278`). `WalRecovery` has this
  as the mode "refused"; `NothingLost` is about databases that open.
- Setting a row to a value that is not NULL leaves the validity segment alone when nothing
  changes there (`update_segment.cpp:1408`), so that a concurrent transaction that
  sets the row to NULL finds no conflict, although a test has
  "conflicts when we update values that have been updated AFTER we started"
  (`test/sql/update/test_update_many_updaters_nulls.test:102`). Both commit, and
  the row is NULL also if the value was committed last. `SnapshotExact` and
  `DiskExact` say so (`LastOf`) instead of leaving such rows out.
- A commit that logs its blocks while a checkpoint is on its way to the list of free blocks
  makes the header name them neither as free nor as used
  (`write_ahead_log.cpp:511`). `BlocksAccounted` exempts these blocks (`early`);
  that they are not lost is `RecoveryIntact`'s concern; that they leak
  is not caught.
- The list of free blocks may outgrow the metadata reserved for it when an
  optimistic writer takes a block in between
  (`single_file_block_manager.cpp:1305`, an InternalException); the model has the step
  (`FreeListTooLong`), after which the checkpoint fails. `NoInternalError` says
  that this is the only way to that exception (`crowded`), and that there is no other.
- A conversion to a block of the file that changes the memory tag resizes its
  charge to zero and back without a look at the limit (`block_handle.cpp:76-81`).
  A check in between (`buffer_pool.cpp:404`) grants the same memory to another
  thread. `WithinLimit` bounds the excess by what was uncharged at the last
  grant (`overdraft`); without it the run finds the limit exceeded.

## 7. What is left out

- A checkpoint that throws invalidates the database; in `WalRecovery` this is a
  crash, in `TransactionManager` it is not modelled. In-memory databases
  (VACUUM_ONLY checkpoints) and fatal errors inside a rollback are not either.
- `WalRecovery` takes file creation, rename, removal, truncation and the header write as
  atomic and durable. Encryption and log versions without checksums are left
  out. A torn entry is one that the file ends in; an entry of full length with
  wrong bytes fails its checksum and makes the open fail, which is not modelled.
- `RowVersionManager` has one vector, so a statement that spans vectors is
  several statements; scans with committed-only or omit-deletes modes are left
  out, and updates are in `UpdateSegment`, with one vector as well.
- `UpdateSegment` leaves out update statistics, which only widen, and nested
  columns, which forward to the same code.
- `Catalog` leaves out owned objects, triggers, default entries, OR REPLACE and
  IF NOT EXISTS. The instance renames the table and not the sequence it uses:
  the commit check of a drop skips renamed entries.
- `BlockManager` takes one unit per entry of the list of free blocks and the
  header write as atomic. Both headers are read with a checksum that throws
  (`single_file_block_manager.cpp:709`), so a torn write of one is not recovered from;
  neither that nor a torn rewrite of a metadata block is modelled. Sub-blocks of
  a metadata block are counted, and their reuse is checked block by block. Handles of
  metadata blocks are not counted as registered.
- `Executor` leaves out external inputs, recursive common table expressions, the
  parking of the producers of a streamed result, changing the number of threads,
  and the `TaskExecutor` of a single operator. The blockable state of a source and
  of a sink is one per pipeline, and every finish group has its own finish event.
  Under `scheduler_process_partial`, off by default, workers and the client put
  an unfinished task back into the queue (`task_scheduler.cpp:134`,
  `executor.cpp:476`); here a worker runs its task to the end and the client keeps
  it. After a failed Schedule an event counts as `finished` for
  `PipelineOrder` without having run; `SuccessIsReal` covers that case.
- `BufferPool` leaves out tiny buffers, prefetching in batches, reallocation,
  memory of the allocator and of extensions, age-based purging and the layout of
  temporary files; the object cache is empty. The per-core caches of the memory
  counter are abstracted. Changes of 32 KiB or more bypass them
  (`buffer_pool.cpp:651`), so this is exact for the default block size; with blocks of
  16 KiB (`MIN_BLOCK_ALLOC_SIZE`) the check at line 404 may miss up to 32 KiB
  per core. A block keeps its size: the shrinking of a variable-size
  block after it is loaded (`standard_buffer_manager.cpp:410-415`) is left out.
  The six queues of managed buffers (`buffer_pool.cpp:313-318`) are one; a
  block's queue is chosen while it is pinned and does not change.
- Short windows of `BufferPool` that are merged into one step: between
  RegisterMemory and the pin of Allocate the new block is loaded, unpinned and
  known to its creator only; the strong reference that IsDeadNode takes
  (`buffer_pool.cpp:48`) is dropped in the same step, so a purge runs no destructor; a
  purge that cannot allocate its producer token (`buffer_pool.cpp:249`) and
  loses the entries in its hands is left out. Whether a conversion changes the tag is left
  open. One whose write fails leaves the old block to `DropHandle`.
- Memory order: fields that are read without a lock are atomics in the code;
  reads are separate steps in the model.

## 8. Plan

Done: the storage lock, the transaction manager, row versions, WAL recovery,
update segments, the catalog, the block manager, the executor and the buffer
pool, with the proofs above.

Proofs: `UndoEntriesLive` of the catalog; `FreeBlocksUnheld` of the block accounts, once their folds are
stated as sets.

Models: index deltas during a checkpoint, the transaction-local rows of local
storage, transactions over several attached databases, torn headers. The cost
formula of the temporary memory manager is floating point and stays out.
