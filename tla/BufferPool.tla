----------------------------- MODULE BufferPool -----------------------------
(***************************************************************************)
(* The buffer pool and the memory of its blocks: pinning and unpinning      *)
(* (standard_buffer_manager.cpp), the state of a block's memory             *)
(* (buffer/block_handle.cpp), the reservations, the eviction queues with    *)
(* their dead-node counters, and the memory limit (buffer/buffer_pool.cpp). *)
(*                                                                         *)
(* A block's fields change under the block's lock, which the model holds   *)
(* across steps only inside AddToEvictionQueue and a conversion (Locked);  *)
(* the purge reads sequence numbers without it.  An eviction works without *)
(* any lock between two queue entries and holds a strong reference (ref) to*)
(* the block it is about to visit, so a block its owner dropped may be     *)
(* destroyed by the evicting thread.  The eviction queues are sets: the    *)
(* concurrent queue orders the entries of one producer only.               *)
(***************************************************************************)
EXTENDS Integers, FiniteSets, FiniteSetsExt

CONSTANTS
    Persistent,      \* block memories of blocks in the database file
    Temporary,       \* block memories of managed buffers
    Size,            \* the allocation size of each
    Threads,
    Limits,          \* values of the memory_limit setting
    InsertInterval,  \* EvictionQueue::INSERT_INTERVAL
    PurgeMultiplier, \* EvictionQueue::PURGE_SIZE_MULTIPLIER
    EarlyOut,        \* EvictionQueue::EARLY_OUT_MULTIPLIER
    AliveMultiplier, \* EvictionQueue::ALIVE_NODE_MULTIPLIER
    CanDestroy,      \* managed buffers allocated with can_destroy
    MaxInserts,      \* bound: queue entries after which nothing is pinned
    MaxFaults,       \* bound: failed reads and writes
    MaxLimits,       \* bound: changes of the limit
    NoBlock, NoThread

Blocks == Persistent \cup Temporary

VARIABLES
    mem,      \* BlockMemory: state, readers, sequence number, charge, ...
    spilled,  \* temporary blocks whose contents are in a temporary file
    queues,   \* the entries of each eviction queue
    dead,     \* EvictionQueue::total_dead_nodes
    inserts,  \* EvictionQueue::evict_queue_insertions, modulo the interval
    purger,   \* the owner of EvictionQueue::purge_lock
    used,     \* BufferPool::memory_usage
    limit,    \* BufferPool::maximum_memory
    tempDir,  \* whether temporary_directory.path is set, or already in use
    pins,     \* the BufferHandles each thread holds
    dying,    \* the block whose destructor a thread is to run
    th,       \* what each thread is doing
    assured,  \* history: the limit the granted memory was checked against
    overdraft, \* history: what conversions had yet to take back, at a grant
    faults, limitChanges

poolVars == <<queues, dead, inserts, purger, used, limit>>
history == <<assured, overdraft>>
vars == <<mem, spilled, poolVars, tempDir, pins, dying, th, history, faults,
          limitChanges>>

ASSUME PoolAssumption ==
    /\ Persistent \cap Temporary = {}
    /\ Size \in [Blocks -> Nat \ {0}]
    /\ NoBlock \notin Blocks /\ NoThread \notin Threads
    /\ IsFiniteSet(Threads) /\ IsFiniteSet(Blocks)
    /\ MaxInserts \in Nat
    /\ Limits \subseteq Nat /\ \E most \in Limits : \A l \in Limits : l <= most
    /\ InsertInterval \in Nat \ {0} /\ PurgeMultiplier \in Nat \ {0}
    /\ AliveMultiplier > 1

\* The queues in the order in which EvictBlocks visits them: the blocks of
\* files, the managed buffers, and the object cache, which holds nothing here.
BlockQueue == 1
ManagedQueue == 2
ObjectCache == 3
QueueOf(b) == IF b \in Persistent THEN BlockQueue ELSE ManagedQueue

PurgeSize == InsertInterval * PurgeMultiplier

\* The sum of f over S, as the number of units the members of S stand for.
Units(f, S) == UNION {{x} \X (1..f[x]) : x \in S}
Sum(f, S) == Cardinality(Units(f, S))

-----------------------------------------------------------------------------
(* Threads and blocks *)

Idle == [pc |-> "idle", op |-> "none", blk |-> NoBlock, need |-> 0,
         lim |-> 0, old |-> 0, q |-> 0, res |-> 0, node |-> <<NoBlock, 0>>,
         batch |-> {}, alive |-> {}, deadCount |-> 0, left |-> 0]

Absent == [life |-> "none", loaded |-> FALSE, readers |-> 0, seq |-> 0,
           entry |-> FALSE, charge |-> 0, upon |-> "BLOCK", owned |-> FALSE]

Init ==
    /\ mem = [b \in Blocks |-> Absent]
    /\ spilled = {}
    /\ queues = [q \in 1..3 |-> {}]
    /\ dead = [q \in 1..3 |-> 0]
    /\ inserts = [q \in 1..3 |-> 0]
    /\ purger = [q \in 1..3 |-> NoThread]
    /\ used = 0
    /\ limit = Max(Limits)
    /\ tempDir \in {"unset", "set"}
    /\ pins = [t \in Threads |-> {}]
    /\ dying = [t \in Threads |-> NoBlock]
    /\ th = [t \in Threads |-> Idle]
    /\ assured = Max(Limits)
    /\ overdraft = 0
    /\ faults = 0
    /\ limitChanges = 0

\* A thread runs a pending destructor before anything else.
At(t, pc) == th[t].pc = pc /\ dying[t] = NoBlock

Node(b) == <<b, mem[b].seq>>

\* A weak pointer to the memory of b can still be locked.
Alive(b) == mem[b].life = "live" /\ \A t \in Threads : dying[t] # b

\* The block lock is held across steps by AddToEvictionQueue, and by a
\* conversion the lock of the old block.
Locked(b) ==
    \E t \in Threads : th[t].pc \in {"enqueue", "convert"} /\ th[t].blk = b

\* The blocks in conversion whose charge is resized to zero.
Uncharged ==
    {th[t].blk : t \in {u \in Threads : /\ th[u].pc = "convert"
                                       /\ mem[th[u].blk].charge = 0}}

\* The strong references an eviction holds.
Referenced(b, T) == \E t \in T : th[t].pc = "visit" /\ th[t].node[1] = b

\* BlockMemory::MustWriteToTemporaryFile and CanReload.
MustKeep(b) == mem[b].upon = "BLOCK"

\* BlockMemory::CanUnload.
CanUnload(b) ==
    CASE ~mem[b].loaded -> "ALREADY_UNLOADED"
      [] mem[b].loaded /\ mem[b].readers > 0 -> "PINNED"
      [] mem[b].loaded /\ mem[b].readers = 0
            /\ b \in Temporary /\ MustKeep(b) /\ tempDir = "unset"
            -> "NO_TEMP_DIRECTORY"
      [] OTHER -> "CAN_UNLOAD"

\* Dropping a strong reference to b, the last one runs the destructor.
DropReference(t, b, others) ==
    dying' = IF ~mem'[b].owned /\ ~Referenced(b, others)
             THEN [dying EXCEPT ![t] = b] ELSE dying

-----------------------------------------------------------------------------
(* EvictBlocks: make room for a reservation *)

\* EvictBlocksOrThrow reads maximum_memory once, as an argument.
StartEviction(t, op, b, need, lim, old) ==
    th' = [th EXCEPT ![t] = [Idle EXCEPT !.pc = "reserve", !.op = op, !.blk = b,
                                         !.need = need, !.lim = lim,
                                         !.old = old, !.q = BlockQueue]]

\* The memory of t is granted: used is within the limit t was given, and does
\* not count what a conversion is about to take back.
Grant(t) ==
    /\ th' = [th EXCEPT ![t].pc = "granted", ![t].node = Idle.node,
                        ![t].res = th[t].need]
    /\ assured' = IF th[t].op = "limit2" THEN th[t].lim
                  ELSE Max({assured, th[t].lim})
    /\ overdraft' = Sum(Size, Uncharged)

\* Mutant: the memory is reserved after the limit is checked.
EvictReserveMutant(t) ==
    /\ At(t, "reserve")
    /\ used' = used + th[t].need
    /\ \/ used <= th[t].lim /\ Grant(t)
       \/ used > th[t].lim /\ UNCHANGED history
          /\ th' = [th EXCEPT ![t].pc = "iterate", ![t].res = th[t].need]
    /\ UNCHANGED <<mem, spilled, queues, dead, inserts, purger, limit, tempDir,
                   pins, dying, faults, limitChanges>>

\* EvictBlocksInternal: reserve first, and look whether that already fits.
EvictReserve(t) ==
    /\ At(t, "reserve")
    /\ used' = used + th[t].need
    /\ \/ used' <= th[t].lim /\ Grant(t)
       \/ used' > th[t].lim /\ UNCHANGED history
          /\ th' = [th EXCEPT ![t].pc = "iterate", ![t].res = th[t].need]
    /\ UNCHANGED <<mem, spilled, queues, dead, inserts, purger, limit, tempDir,
                   pins, dying, faults, limitChanges>>

\* IterateUnloadableBlocks: take an entry; the weak pointer of a destroyed
\* block does not lock and its entry was counted as dead.
EvictDequeue(t) ==
    /\ At(t, "iterate")
    /\ \E n \in queues[th[t].q] :
         /\ queues' = [queues EXCEPT ![th[t].q] = @ \ {n}]
         /\ \/ Alive(n[1]) /\ UNCHANGED dead
               /\ th' = [th EXCEPT ![t].pc = "visit", ![t].node = n]
            \/ ~Alive(n[1]) /\ UNCHANGED th
               /\ dead' = [dead EXCEPT ![th[t].q] = @ - 1]
    /\ UNCHANGED <<mem, spilled, inserts, purger, used, limit, tempDir, pins,
                   dying, history, faults, limitChanges>>

\* What a thread does when EvictBlocks ends without a grant: it throws, and
\* SetLimit goes back to the limit before unless it was left by an exception.
GiveUp(t, thrown) ==
    /\ th' = [th EXCEPT ![t] = Idle]
    /\ limit' = IF th[t].op = "limit2" /\ ~thrown THEN th[t].old ELSE limit

\* A queue did not yield enough: the reservation is resized to zero, and the
\* next queue is tried.
NextQueue(t) ==
    /\ th[t].q # ObjectCache
    /\ th' = [th EXCEPT ![t].pc = "reserve", ![t].q = @ + 1, ![t].res = 0,
                        ![t].node = Idle.node]
    /\ UNCHANGED limit

\* No entry is left, also not in the hands of a purge (TryDequeueWithLock).
EvictExhausted(t) ==
    /\ At(t, "iterate")
    /\ queues[th[t].q] = {} /\ purger[th[t].q] = NoThread
    /\ used' = used - th[t].res
    /\ NextQueue(t) \/ (th[t].q = ObjectCache /\ GiveUp(t, FALSE))
    /\ UNCHANGED <<mem, spilled, queues, dead, inserts, purger, tempDir, pins,
                   dying, history, faults, limitChanges>>

\* UnloadAndTakeBlock, once the contents are safe.
Unloaded(m) == [m EXCEPT !.loaded = FALSE, !.charge = 0]

\* The visited entry was superseded by a newer one, which counted it as dead.
VisitStale(t, b) ==
    /\ th[t].node # Node(b)
    /\ dead' = [dead EXCEPT ![th[t].q] = @ - 1]
    /\ th' = [th EXCEPT ![t].pc = "iterate", ![t].node = Idle.node]
    /\ UNCHANGED <<mem, spilled, queues, used, limit, tempDir, history, faults>>

\* The block is pinned or unloaded: its next unpin adds a new entry.
VisitUnevictable(t, b) ==
    /\ th[t].node = Node(b)
    /\ CanUnload(b) \in {"PINNED", "ALREADY_UNLOADED"}
    /\ mem' = [mem EXCEPT ![b].entry = FALSE]
    /\ th' = [th EXCEPT ![t].pc = "iterate", ![t].node = Idle.node]
    /\ UNCHANGED <<spilled, queues, dead, used, limit, tempDir, history, faults>>

\* Without a temporary directory the entry goes back and the queue is left.
VisitNoTempDirectory(t, b) ==
    /\ th[t].node = Node(b)
    /\ CanUnload(b) = "NO_TEMP_DIRECTORY"
    /\ mem' = [mem EXCEPT ![b].entry = TRUE]
    /\ queues' = [queues EXCEPT ![th[t].q] = @ \cup {th[t].node}]
    /\ used' = used - th[t].res
    /\ NextQueue(t)
    /\ UNCHANGED <<spilled, dead, tempDir, history, faults>>

\* The buffer of a block of the wanted size is taken over as it is.
TakesBuffer(t, b) == th[t].op \in {"pin", "allocate"} /\ Size[b] = th[t].need

\* After an unload: is what the thread was asked for available?
AfterUnload(t, b) ==
    /\ used' = used - mem[b].charge
    /\ \/ TakesBuffer(t, b) /\ UNCHANGED history
          /\ th' = [th EXCEPT ![t].pc = "granted", ![t].node = Idle.node]
       \/ ~TakesBuffer(t, b) /\ used' <= th[t].lim /\ Grant(t)
       \/ ~TakesBuffer(t, b) /\ used' > th[t].lim /\ UNCHANGED history
          /\ th' = [th EXCEPT ![t].pc = "iterate", ![t].node = Idle.node]

\* Mutant: the contents of a temporary block are not written out.
VisitUnloadMutant(t, b) ==
    /\ th[t].node = Node(b)
    /\ CanUnload(b) = "CAN_UNLOAD"
    /\ mem' = [mem EXCEPT ![b] = [Unloaded(@) EXCEPT !.entry = FALSE]]
    /\ AfterUnload(t, b)
    /\ UNCHANGED <<spilled, queues, dead, limit, tempDir, faults>>

\* Unload the block, writing the contents of a temporary one (which puts the
\* temporary directory to use), and see whether that was enough.
VisitUnload(t, b) ==
    /\ th[t].node = Node(b)
    /\ CanUnload(b) = "CAN_UNLOAD"
    /\ mem' = [mem EXCEPT ![b] = [Unloaded(@) EXCEPT !.entry = FALSE]]
    /\ IF b \in Temporary /\ MustKeep(b)
       THEN spilled' = spilled \cup {b} /\ tempDir' = "used"
       ELSE UNCHANGED <<spilled, tempDir>>
    /\ AfterUnload(t, b)
    /\ UNCHANGED <<queues, dead, limit, faults>>

\* Mutant: the entry of a block that could not be written is lost.
VisitWriteFailsMutant(t, b) ==
    /\ th[t].node = Node(b)
    /\ CanUnload(b) = "CAN_UNLOAD" /\ b \in Temporary /\ MustKeep(b)
    /\ faults < MaxFaults /\ faults' = faults + 1
    /\ mem' = [mem EXCEPT ![b].entry = FALSE]
    /\ used' = used - th[t].res
    /\ GiveUp(t, TRUE)
    /\ tempDir' \in {tempDir, "used"}
    /\ UNCHANGED <<spilled, queues, dead, history>>

\* Writing the temporary file throws: the entry is given back, and the
\* reservation ends with its scope.
VisitWriteFails(t, b) ==
    /\ th[t].node = Node(b)
    /\ CanUnload(b) = "CAN_UNLOAD" /\ b \in Temporary /\ MustKeep(b)
    /\ faults < MaxFaults /\ faults' = faults + 1
    /\ mem' = [mem EXCEPT ![b].entry = TRUE]
    /\ queues' = [queues EXCEPT ![th[t].q] = @ \cup {th[t].node}]
    /\ used' = used - th[t].res
    /\ GiveUp(t, TRUE)
    /\ tempDir' \in {tempDir, "used"}
    /\ UNCHANGED <<spilled, dead, history>>

\* The visit of one block under its lock, then the reference is dropped.
EvictVisit(t) ==
    /\ At(t, "visit")
    /\ LET b == th[t].node[1] IN
         /\ ~Locked(b)
         /\ \/ VisitStale(t, b)
            \/ VisitUnevictable(t, b)
            \/ VisitNoTempDirectory(t, b)
            \/ VisitUnload(t, b)
            \/ VisitWriteFails(t, b)
         /\ DropReference(t, b, Threads \ {t})
    /\ UNCHANGED <<inserts, purger, pins, limitChanges>>

-----------------------------------------------------------------------------
(* Allocate and Pin *)

MoreInserts == Sum([b \in Blocks |-> mem[b].seq], Blocks) < MaxInserts

\* RegisterBlock: a handle for a block of the file, not loaded.
RegisterBlock(t, b) ==
    /\ At(t, "idle") /\ b \in Persistent
    /\ mem[b].life = "none"
    /\ \A u \in Threads : th[u].node[1] # b
    /\ mem' = [mem EXCEPT ![b].life = "live", ![b].owned = TRUE]
    /\ UNCHANGED <<spilled, poolVars, tempDir, pins, dying, th, history, faults,
                   limitChanges>>

\* Allocate: RegisterMemory makes room for a new managed buffer.
Allocate(t, b) ==
    /\ At(t, "idle") /\ b \in Temporary
    /\ mem[b].life = "none"
    /\ \A u \in Threads : th[u].blk # b
    /\ MoreInserts
    /\ StartEviction(t, "allocate", b, Size[b], limit, 0)
    /\ UNCHANGED <<mem, spilled, poolVars, tempDir, pins, dying, history,
                   faults, limitChanges>>

\* The new block takes the reservation over and is pinned by its creator.
Allocated(t) ==
    /\ At(t, "granted") /\ th[t].op = "allocate"
    /\ LET b == th[t].blk IN
         mem' = [mem EXCEPT ![b] =
                   [Absent EXCEPT !.life = "live", !.owned = TRUE,
                                  !.loaded = TRUE, !.readers = 1,
                                  !.charge = th[t].res,
                                  !.upon = IF b \in CanDestroy THEN "EVICTION"
                                           ELSE "BLOCK"]]
    /\ pins' = [pins EXCEPT ![t] = @ \cup {th[t].blk}]
    /\ th' = [th EXCEPT ![t] = Idle]
    /\ UNCHANGED <<spilled, poolVars, tempDir, dying, history, faults,
                   limitChanges>>

Pinned(t, b) ==
    /\ mem' = [mem EXCEPT ![b].readers = @ + 1]
    /\ pins' = [pins EXCEPT ![t] = @ \cup {b}]

\* Pin: a loaded block only gets another reader.
Pin(t, b) ==
    /\ At(t, "idle")
    /\ mem[b].owned /\ b \notin pins[t] /\ ~Locked(b)
    /\ MoreInserts
    /\ \/ mem[b].loaded /\ Pinned(t, b) /\ UNCHANGED th
       \/ ~mem[b].loaded /\ UNCHANGED <<mem, pins>>
          /\ StartEviction(t, "pin", b, Size[b], limit, 0)
    /\ UNCHANGED <<spilled, poolVars, tempDir, dying, history, faults,
                   limitChanges>>

\* Mutant: the reservation is kept when another thread loaded the block.
PinLoadedMutant(t) ==
    /\ At(t, "granted") /\ th[t].op = "pin"
    /\ LET b == th[t].blk IN
         mem[b].loaded /\ ~Locked(b) /\ Pinned(t, b)
    /\ th' = [th EXCEPT ![t] = Idle]
    /\ UNCHANGED <<spilled, poolVars, tempDir, dying, history, faults,
                   limitChanges>>

\* Pin after the eviction: somebody else loaded the block in the meantime.
PinLoaded(t) ==
    /\ At(t, "granted") /\ th[t].op = "pin"
    /\ LET b == th[t].blk IN
         mem[b].loaded /\ ~Locked(b) /\ Pinned(t, b)
    /\ used' = used - th[t].res
    /\ th' = [th EXCEPT ![t] = Idle]
    /\ UNCHANGED <<spilled, queues, dead, inserts, purger, limit, tempDir,
                   dying, history, faults, limitChanges>>

\* Pin after the eviction: Load reads the block, whose temporary file goes.
PinLoad(t) ==
    /\ At(t, "granted") /\ th[t].op = "pin"
    /\ LET b == th[t].blk IN
         /\ ~mem[b].loaded /\ ~Locked(b) /\ MustKeep(b)
         /\ mem' = [mem EXCEPT ![b].loaded = TRUE, ![b].readers = 1,
                               ![b].charge = th[t].res]
         /\ pins' = [pins EXCEPT ![t] = @ \cup {b}]
         /\ spilled' = spilled \ {b}
    /\ th' = [th EXCEPT ![t] = Idle]
    /\ UNCHANGED <<poolVars, tempDir, dying, history, faults,
                   limitChanges>>

\* The buffer was destroyed on eviction, or reading it throws: the
\* reservation is returned.
PinFails(t) ==
    /\ At(t, "granted") /\ th[t].op = "pin"
    /\ LET b == th[t].blk IN
         /\ ~mem[b].loaded /\ ~Locked(b)
         /\ \/ ~MustKeep(b) /\ UNCHANGED faults
            \/ MustKeep(b) /\ faults < MaxFaults /\ faults' = faults + 1
    /\ used' = used - th[t].res
    /\ th' = [th EXCEPT ![t] = Idle]
    /\ UNCHANGED <<mem, spilled, queues, dead, inserts, purger, limit, tempDir,
                   pins, dying, history, limitChanges>>

-----------------------------------------------------------------------------
(* Unpin and the eviction queue *)

\* Mutant: the superseded entry is not counted as dead.
CountSupersededMutant(b) == 0

\* AddToEvictionQueue counts the entry that is about to be superseded.
CountSuperseded(b) == IF mem[b].entry THEN 1 ELSE 0

\* Destroying a BufferHandle: the last reader queues the block or drops its
\* buffer.
Release(t, b) ==
    /\ At(t, "idle") /\ b \in pins[t] /\ ~Locked(b)
    /\ pins' = [pins EXCEPT ![t] = @ \ {b}]
    /\ LET one == [mem EXCEPT ![b].readers = @ - 1] IN
         \/ /\ mem[b].readers > 1
            /\ mem' = one /\ UNCHANGED <<dead, used, th>>
         \/ /\ mem[b].readers = 1 /\ mem[b].upon # "UNPIN"
            /\ mem' = one /\ UNCHANGED used
            /\ dead' = [dead EXCEPT ![QueueOf(b)] = @ + CountSuperseded(b)]
            /\ th' = [th EXCEPT ![t].pc = "enqueue", ![t].blk = b]
         \/ /\ mem[b].readers = 1 /\ mem[b].upon = "UNPIN"
            /\ mem' = [one EXCEPT ![b] = Unloaded(@)]
            /\ used' = used - mem[b].charge
            /\ UNCHANGED <<dead, th>>
    /\ UNCHANGED <<spilled, queues, inserts, purger, limit, tempDir, dying,
                   history, limitChanges>>

Unpin(t, b) == Release(t, b) /\ UNCHANGED faults

\* The entry is published; every InsertInterval-th insertion starts a purge.
Insert(t, b) ==
    LET q == QueueOf(b) IN
    /\ queues' = [queues EXCEPT ![q] = @ \cup {<<b, mem[b].seq + 1>>}]
    /\ inserts' = [inserts EXCEPT ![q] = (@ + 1) % InsertInterval]
    /\ th' = [th EXCEPT ![t] =
                 IF inserts'[q] = 0
                 THEN [Idle EXCEPT !.pc = "purge", !.blk = b, !.q = q]
                 ELSE Idle]

\* AddToEvictionQueue, second half: bump the sequence number and insert.
Enqueue(t) ==
    /\ At(t, "enqueue")
    /\ Insert(t, th[t].blk)
    /\ mem' = [mem EXCEPT ![th[t].blk].seq = @ + 1, ![th[t].blk].entry = TRUE]
    /\ UNCHANGED <<spilled, dead, purger, used, limit, tempDir, pins, dying,
                   history, faults, limitChanges>>

\* SetDestroyBufferUpon by the owner, without the block's lock: a buffer that
\* is not needed again, or a pinned file block whose handle was replaced.
SetDestroyBufferUpon(t, b) ==
    /\ At(t, "idle") /\ mem[b].owned
    /\ b \in Persistent => b \in pins[t]
    /\ mem' = [mem EXCEPT ![b].upon = IF b \in Temporary THEN "UNPIN"
                                      ELSE "EVICTION"]
    /\ mem' # mem
    /\ UNCHANGED <<spilled, poolVars, tempDir, pins, dying, th, history, faults,
                   limitChanges>>

-----------------------------------------------------------------------------
(* BlockManager::ConvertToPersistent, destructive: a temporary block that its *)
(* caller has pinned becomes the new block p of the file                      *)

Convertible(t, b, p) ==
    /\ At(t, "idle") /\ b \in pins[t] /\ b \in Temporary /\ p \in Persistent
    /\ mem[b].upon = "BLOCK" /\ ~Locked(b)
    /\ mem[p].life = "none" /\ Size[b] = Size[p]
    /\ \A u \in Threads : th[u].node[1] # p

\* Other readers are an InternalException, or writing the block fails: p is
\* dropped again and so is the handle that the caller passed on.
ConvertFails(t, b, p) ==
    /\ Convertible(t, b, p)
    /\ \/ mem[b].readers > 1 /\ UNCHANGED faults
       \/ mem[b].readers = 1 /\ faults < MaxFaults /\ faults' = faults + 1
    /\ Release(t, b)

\* The block is written under its lock; if p has another memory tag, which
\* the model leaves open, the charge is resized to zero, ...
ConvertToPersistent(t, b, p) ==
    /\ Convertible(t, b, p)
    /\ mem[b].readers = 1
    /\ \A u \in Threads : th[u].blk # b
    /\ \/ UNCHANGED <<mem, used>>
       \/ /\ mem' = [mem EXCEPT ![b].charge = 0]
          /\ used' = used - mem[b].charge
    /\ th' = [th EXCEPT ![t].pc = "convert", ![t].blk = b, ![t].node = <<p, 0>>]
    /\ UNCHANGED <<spilled, queues, dead, inserts, purger, limit, tempDir, pins,
                   dying, history, faults, limitChanges>>

\* ... and back under the new tag, without a look at the limit.  Buffer and
\* charge move to p, the old block goes, and p is about to be queued.
Converted(t) ==
    /\ At(t, "convert")
    /\ LET b == th[t].blk
           p == th[t].node[1]
       IN /\ used' = used + (Size[b] - mem[b].charge)
          /\ mem' = [mem EXCEPT
                       ![p] = [Absent EXCEPT !.life = "live", !.owned = TRUE,
                                             !.loaded = TRUE, !.charge = Size[b]],
                       ![b] = [Unloaded(@) EXCEPT !.owned = FALSE]]
          /\ pins' = [pins EXCEPT ![t] = @ \ {b}]
          /\ th' = [th EXCEPT ![t] = [Idle EXCEPT !.pc = "enqueue", !.blk = p]]
          /\ DropReference(t, b, Threads)
    /\ UNCHANGED <<spilled, queues, dead, inserts, purger, limit, tempDir,
                   history, faults, limitChanges>>

-----------------------------------------------------------------------------
(* EvictionQueue::Purge *)

\* Only one thread purges a queue, and only one that is long enough.
Purge(t) ==
    /\ At(t, "purge")
    /\ LET size == Cardinality(queues[th[t].q]) IN
         \/ /\ purger[th[t].q] # NoThread \/ size < PurgeSize * EarlyOut
            /\ th' = [th EXCEPT ![t] = Idle]
            /\ UNCHANGED purger
         \/ /\ purger[th[t].q] = NoThread /\ size >= PurgeSize * EarlyOut
            /\ purger' = [purger EXCEPT ![th[t].q] = t]
            /\ th' = [th EXCEPT ![t].pc = "bulk", ![t].left = size \div PurgeSize]
    /\ UNCHANGED <<mem, spilled, queues, dead, inserts, used, limit, tempDir,
                   pins, dying, history, faults, limitChanges>>

\* PurgeIteration: dequeue in bulk.
PurgeDequeue(t) ==
    /\ At(t, "bulk")
    /\ LET queue == queues[th[t].q]
           n == Min({PurgeSize, Cardinality(queue)})
       IN \E batch \in kSubset(n, queue) :
            /\ queues' = [queues EXCEPT ![th[t].q] = @ \ batch]
            /\ th' = [th EXCEPT ![t].pc = "judge", ![t].batch = batch]
    /\ UNCHANGED <<mem, spilled, dead, inserts, purger, used, limit, tempDir,
                   pins, dying, history, faults, limitChanges>>

\* IsDeadNode, without the block's lock.
IsDeadNode(n) == ~Alive(n[1]) \/ n # Node(n[1])

PurgeJudge(t) ==
    /\ At(t, "judge")
    /\ \E n \in th[t].batch :
         th' = [th EXCEPT ![t].batch = @ \ {n},
                          ![t].alive = IF IsDeadNode(n) THEN @ ELSE @ \cup {n},
                          ![t].deadCount = IF IsDeadNode(n) THEN @ + 1 ELSE @]
    /\ UNCHANGED <<mem, spilled, poolVars, tempDir, pins, dying, history,
                   faults, limitChanges>>

\* The end of an iteration, and of the purge if it did enough.  (That the
\* queue cannot allocate the producer token of the purge is left out.)
PurgeFinish(t) ==
    /\ At(t, "judge") /\ th[t].batch = {}
    /\ LET q == th[t].q IN
         /\ dead' = [dead EXCEPT ![q] = @ - th[t].deadCount]
         /\ queues' = [queues EXCEPT ![q] = @ \cup th[t].alive]
         /\ LET size == Cardinality(queues'[q])
                \* the counter is unsigned: a value below zero is large
                deads == IF dead'[q] < 0 THEN size ELSE Min({dead'[q], size})
                enough == \/ size < PurgeSize * EarlyOut
                          \/ (size - deads) * (AliveMultiplier - 1) > deads
                          \/ th[t].left = 1
            IN \/ /\ enough
                  /\ purger' = [purger EXCEPT ![q] = NoThread]
                  /\ th' = [th EXCEPT ![t] = Idle]
               \/ /\ ~enough
                  /\ th' = [th EXCEPT ![t].pc = "bulk", ![t].left = @ - 1,
                                      ![t].alive = {}, ![t].deadCount = 0]
                  /\ UNCHANGED purger
    /\ UNCHANGED <<mem, spilled, inserts, used, limit, tempDir, pins, dying,
                   history, faults, limitChanges>>

-----------------------------------------------------------------------------
(* Destruction *)

\* The owner drops its handle of a block nobody has pinned.
DropHandle(t, b) ==
    /\ At(t, "idle") /\ mem[b].owned
    /\ \A u \in Threads : b \notin pins[u] /\ th[u].blk # b
    /\ mem' = [mem EXCEPT ![b].owned = FALSE]
    /\ DropReference(t, b, Threads)
    /\ UNCHANGED <<spilled, poolVars, tempDir, pins, th, history, faults,
                   limitChanges>>

\* ~BlockMemory: a live entry becomes a dead one, the charge is returned and
\* the temporary file deleted.
Destroy(t) ==
    /\ dying[t] # NoBlock
    /\ LET b == dying[t] IN
         /\ dead' = [dead EXCEPT ![QueueOf(b)] =
                        IF mem[b].entry THEN @ + 1 ELSE @]
         /\ used' = used - mem[b].charge
         /\ mem' = [mem EXCEPT ![b] = [Unloaded(@) EXCEPT !.life = "gone"]]
         /\ spilled' = spilled \ {b}
    /\ dying' = [dying EXCEPT ![t] = NoBlock]
    /\ UNCHANGED <<queues, inserts, purger, limit, tempDir, pins, th, history,
                   faults, limitChanges>>

-----------------------------------------------------------------------------
(* Settings *)

\* The directory can be set, changed and emptied until it is used.
SetTemporaryDirectory ==
    /\ tempDir # "used"
    /\ tempDir' \in {"unset", "set"}
    /\ UNCHANGED <<mem, spilled, poolVars, pins, dying, th, history, faults,
                   limitChanges>>

\* SetLimit, under limit_lock: evict down to the new limit, ...
SetLimit(t) ==
    /\ At(t, "idle") /\ limitChanges < MaxLimits
    /\ \A u \in Threads : th[u].op \notin {"limit1", "limit2"}
    /\ \E l \in Limits :
         l # limit /\ StartEviction(t, "limit1", NoBlock, 0, l, 0)
    /\ limitChanges' = limitChanges + 1
    /\ UNCHANGED <<mem, spilled, poolVars, tempDir, pins, dying, history,
                   faults>>

\* ... set it, evict again ...
LimitChanged(t) ==
    /\ At(t, "granted") /\ th[t].op = "limit1"
    /\ limit' = th[t].lim
    /\ StartEviction(t, "limit2", NoBlock, 0, th[t].lim, limit)
    /\ UNCHANGED <<mem, spilled, queues, dead, inserts, purger, used, tempDir,
                   pins, dying, history, faults, limitChanges>>

\* ... and keep it if that succeeded.
LimitKept(t) ==
    /\ At(t, "granted") /\ th[t].op = "limit2"
    /\ th' = [th EXCEPT ![t] = Idle]
    /\ UNCHANGED <<mem, spilled, poolVars, tempDir, pins, dying, history,
                   faults, limitChanges>>

-----------------------------------------------------------------------------
Evict(t) == EvictReserve(t) \/ EvictDequeue(t) \/ EvictExhausted(t) \/ EvictVisit(t)
PinEnds(t) == PinLoaded(t) \/ PinLoad(t) \/ PinFails(t)
PurgeStep(t) == Purge(t) \/ PurgeDequeue(t) \/ PurgeJudge(t) \/ PurgeFinish(t)

Next ==
    \/ SetTemporaryDirectory
    \/ \E t \in Threads :
         \/ Evict(t) \/ Allocated(t) \/ PinEnds(t) \/ Enqueue(t)
         \/ PurgeStep(t) \/ Destroy(t) \/ Converted(t)
         \/ SetLimit(t) \/ LimitChanged(t) \/ LimitKept(t)
         \/ \E b \in Blocks :
              \/ RegisterBlock(t, b) \/ Allocate(t, b) \/ Pin(t, b)
              \/ Unpin(t, b) \/ SetDestroyBufferUpon(t, b) \/ DropHandle(t, b)
              \/ \E p \in Persistent : \/ ConvertToPersistent(t, b, p)
                                       \/ ConvertFails(t, b, p)

Spec == Init /\ [][Next]_vars

-----------------------------------------------------------------------------
(* Properties *)

Ops == {"none", "pin", "allocate", "limit1", "limit2"}
Pcs == {"idle", "reserve", "iterate", "visit", "granted", "enqueue", "convert",
        "purge", "bulk", "judge"}

\* Every queue entry, also one a thread has taken out and not yet judged.
Entries ==
    (UNION {queues[q] : q \in 1..3})
    \cup (UNION {th[t].batch \cup th[t].alive : t \in Threads})
    \cup {th[t].node : t \in {u \in Threads : th[u].pc = "visit"}}

\* Types, and the readers of a block are the handles threads hold.
TypeOK ==
    /\ \A b \in Blocks :
         /\ mem[b].life \in {"none", "live", "gone"}
         /\ mem[b].upon \in {"BLOCK", "EVICTION", "UNPIN"}
         /\ mem[b].seq \in 0..MaxInserts + Cardinality(Threads)
         /\ mem[b].owned =>
              mem[b].readers = Cardinality({t \in Threads : b \in pins[t]})
    /\ spilled \subseteq Temporary
    /\ \A t \in Threads : th[t].pc \in Pcs /\ th[t].op \in Ops
    /\ limit \in Limits /\ tempDir \in {"unset", "set", "used"}

\* used is what the loaded blocks are charged plus the reservations of
\* threads that are making room: a reservation is returned on every way out of
\* a pin that lost the race, failed or was denied, and a charge leaves with
\* the buffer it stands for.  Only a conversion that changes the memory tag
\* leaves a buffer uncharged, between its two resizes.
MemoryAccounted ==
    /\ TypeOK
    /\ used = Sum([b \in Blocks |-> mem[b].charge], Blocks)
              + Sum([t \in Threads |-> th[t].res], Threads)
    /\ \A b \in Blocks :
         mem[b].charge = IF mem[b].loaded /\ b \notin Uncharged THEN Size[b] ELSE 0

\* A pinned block stays loaded whatever is evicted around it, and the contents
\* of a temporary block that is still needed are either in memory or in
\* its temporary file, never in both and never in neither.
ContentsKept ==
    /\ \A t \in Threads : \A b \in pins[t] : mem[b].loaded /\ Alive(b)
    /\ \A b \in Temporary :
         mem[b].owned /\ mem[b].upon = "BLOCK" =>
            (mem[b].loaded <=> b \notin spilled)
    /\ \A b \in spilled : mem[b].life = "live"

\* A loaded block without readers can be found for eviction: its live entry is
\* in the queue, or in the hands of a thread that will look at it, and
\* has_queue_entry tells whether there is one.
EvictableQueued ==
    \A b \in Blocks : mem[b].life = "live" =>
        /\ Alive(b) => (mem[b].entry <=> Node(b) \in Entries)
        /\ mem[b].loaded /\ mem[b].readers = 0 => mem[b].entry \/ Locked(b)

\* The dead-node counter of a queue is the number of its dead entries whenever
\* no thread is at work, and at no time has it been decremented more often
\* than incremented, but for the blocks whose destructor is about to run.
DeadNodesCounted ==
    /\ (\A t \in Threads : th[t] = Idle /\ dying[t] = NoBlock) =>
         \A q \in 1..3 :
            dead[q] = Cardinality({n \in queues[q] : IsDeadNode(n)})
    /\ \A q \in 1..3 :
         dead[q] >= -Cardinality({t \in Threads : /\ dying[t] # NoBlock
                                                  /\ QueueOf(dying[t]) = q})

\* Blocks in memory and granted reservations stay within the limit: two
\* threads cannot both be granted the last free memory.  A thread may be
\* granted memory by a limit it read before a change.  The one excess is what
\* conversions took back after the last grant had counted it as free.
WithinLimit ==
    Sum([b \in Blocks |-> mem[b].charge], Blocks)
    + Sum([t \in Threads |-> IF th[t].pc = "granted" THEN th[t].res ELSE 0],
          Threads) <= assured + overdraft
=============================================================================
