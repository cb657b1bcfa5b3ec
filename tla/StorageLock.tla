----------------------------- MODULE StorageLock -----------------------------
(***************************************************************************)
(* The phase-fair read-write lock of storage/storage_lock.cpp, which guards*)
(* checkpoints against writing transactions, vacuuming against scans,      *)
(* update segments, indexes and table data against their checkpoints.      *)
(*                                                                         *)
(* Every critical section under state_lock is one action.  The condition   *)
(* variable is modelled: a thread whose predicate fails goes to sleep, a   *)
(* release notifies in a later step (after the mutex is dropped), and a    *)
(* notified thread re-evaluates its predicate in a step of its own, so that*)
(* other threads may take the mutex in between.                            *)
(*                                                                         *)
(* The counters writer_tickets and writers_done only grow, and the code    *)
(* only compares differences of them, so the model keeps the differences:  *)
(* pending_writers = writer_tickets - writers_done, and for each reader the*)
(* releases it still waits for, target - writers_done or 0.  No number of  *)
(* acquisitions is bounded.                                                *)
(***************************************************************************)
EXTENDS Integers, FiniteSets

CONSTANT
  Thread       \* the threads (or transactions) that take keys of this lock

ASSUME ThreadAssumption == IsFiniteSet(Thread)

VARIABLES
  read_count, writer_active,
  pending_writers,   \* writer_tickets - writers_done
  pc,          \* where each thread is: "idle" is outside every lock method
  target,      \* GetSharedLock's target, less writers_done
  awake,       \* waiters that were notified and will look at their predicate
  shared,      \* threads holding a SHARED key
  exclusive    \* threads holding an EXCLUSIVE key

vars == <<read_count, writer_active, pending_writers, pc, target, awake,
          shared, exclusive>>

Init ==
  /\ read_count = 0
  /\ writer_active = FALSE
  /\ pending_writers = 0
  /\ pc = [t \in Thread |-> "idle"]
  /\ target = [t \in Thread |-> 0]
  /\ awake = {}
  /\ shared = {}
  /\ exclusive = {}

Waiting(t) == pc[t] \in {"wait_exclusive", "wait_shared"}

\* The two predicates handed to state_cv.wait.
\* Mutant: a reader ignores tickets.
MayWrite == ~writer_active /\ read_count = 0
MayReadPastTickets(goal) == ~writer_active
MayRead(goal) == ~writer_active /\ goal = 0

\* The conditions of the upgrade and of the notification of a shared release.
\* Mutants: other readers are not looked at; the last but one notifies.
MayUpgradeAmongReaders == ~writer_active
MayUpgrade == ~writer_active /\ read_count = 1
NotifyBeforeLast(remaining) == remaining = 1
NotifyOnRelease(remaining) == remaining = 0

\* A waiter whose predicate holds now.
Ready(t) ==
  \/ pc[t] = "wait_exclusive" /\ MayWrite
  \/ pc[t] = "wait_shared" /\ MayRead(target[t])

GrantExclusive(t) ==
  /\ writer_active' = TRUE
  /\ exclusive' = exclusive \union {t}
  /\ UNCHANGED <<read_count, shared>>

GrantShared(t) ==
  /\ read_count' = read_count + 1
  /\ shared' = shared \union {t}
  /\ UNCHANGED <<writer_active, exclusive>>

TakeTicket == pending_writers' = pending_writers + 1

\* writers_done++: there is one writer less for every reader to wait for.
WriterDone ==
  /\ pending_writers' = pending_writers - 1
  /\ target' = [t \in Thread |-> IF target[t] = 0 THEN 0 ELSE target[t] - 1]

NoKey(t) == t \notin shared /\ t \notin exclusive

\* The caller registers, and either gets its key at once or falls asleep.
\* A caller holds no key of this lock: a second blocking request by a holder
\* would wait for itself.
GetExclusiveLock(t) ==
  /\ pc[t] = "idle" /\ NoKey(t)
  /\ TakeTicket
  /\ \/ /\ MayWrite
        /\ GrantExclusive(t)
        /\ UNCHANGED pc
     \/ /\ ~MayWrite
        /\ pc' = [pc EXCEPT ![t] = "wait_exclusive"]
        /\ UNCHANGED <<read_count, writer_active, shared, exclusive>>
  /\ UNCHANGED <<target, awake>>

GetSharedLock(t) ==
  /\ pc[t] = "idle" /\ NoKey(t)
  /\ target' = [target EXCEPT ![t] = pending_writers]
  /\ \/ /\ MayRead(pending_writers)
        /\ GrantShared(t)
        /\ UNCHANGED pc
     \/ /\ ~MayRead(pending_writers)
        /\ pc' = [pc EXCEPT ![t] = "wait_shared"]
        /\ UNCHANGED <<read_count, writer_active, shared, exclusive>>
  /\ UNCHANGED <<pending_writers, awake>>

\* Successful non-blocking acquisitions; an attempt that fails changes nothing.
TryGetExclusiveLock(t) ==
  /\ pc[t] = "idle" /\ NoKey(t)
  /\ MayWrite
  /\ TakeTicket
  /\ GrantExclusive(t)
  /\ UNCHANGED <<pc, target, awake>>

\* The only reader gets the exclusive key next to its shared one.
TryUpgradeCheckpointLock(t) ==
  /\ pc[t] = "idle" /\ t \in shared
  /\ MayUpgrade
  /\ TakeTicket
  /\ GrantExclusive(t)
  /\ UNCHANGED <<pc, target, awake>>

\* Under state_lock; notify_all comes later, in Notify.
ReleaseExclusiveLock(t) ==
  /\ pc[t] = "idle" /\ t \in exclusive
  /\ writer_active' = FALSE
  /\ WriterDone
  /\ exclusive' = exclusive \ {t}
  /\ pc' = [pc EXCEPT ![t] = "notify"]
  /\ UNCHANGED <<read_count, awake, shared>>

\* Only the last reader notifies.
ReleaseSharedLock(t) ==
  /\ pc[t] = "idle" /\ t \in shared
  /\ read_count' = read_count - 1
  /\ shared' = shared \ {t}
  /\ pc' = IF NotifyOnRelease(read_count') THEN [pc EXCEPT ![t] = "notify"] ELSE pc
  /\ UNCHANGED <<writer_active, pending_writers, target, awake, exclusive>>

\* state_cv.notify_all(), after the mutex was dropped.
Notify(t) ==
  /\ pc[t] = "notify"
  /\ pc' = [pc EXCEPT ![t] = "idle"]
  /\ awake' = awake \union {u \in Thread : Waiting(u)}
  /\ UNCHANGED <<read_count, writer_active, pending_writers, target, shared,
                 exclusive>>

\* A notified waiter holds the mutex again and re-evaluates its predicate:
\* it returns with its key, or goes back to sleep.
WakeExclusive(t) ==
  /\ t \in awake /\ pc[t] = "wait_exclusive"
  /\ MayWrite
  /\ GrantExclusive(t)
  /\ pc' = [pc EXCEPT ![t] = "idle"]
  /\ awake' = awake \ {t}
  /\ UNCHANGED <<pending_writers, target>>

WakeShared(t) ==
  /\ t \in awake /\ pc[t] = "wait_shared"
  /\ MayRead(target[t])
  /\ GrantShared(t)
  /\ pc' = [pc EXCEPT ![t] = "idle"]
  /\ awake' = awake \ {t}
  /\ UNCHANGED <<pending_writers, target>>

SleepAgain(t) ==
  /\ t \in awake /\ ~Ready(t)
  /\ awake' = awake \ {t}
  /\ UNCHANGED <<read_count, writer_active, pending_writers, pc, target, shared,
                 exclusive>>

Wake(t) == WakeExclusive(t) \/ WakeShared(t) \/ SleepAgain(t)

\* A condition variable may wake a sleeper without a notification.
SpuriousWake(t) ==
  /\ Waiting(t) /\ t \notin awake
  /\ awake' = awake \union {t}
  /\ UNCHANGED <<read_count, writer_active, pending_writers, pc, target, shared,
                 exclusive>>

Next ==
  \E t \in Thread :
    \/ GetExclusiveLock(t) \/ GetSharedLock(t)
    \/ TryGetExclusiveLock(t) \/ TryUpgradeCheckpointLock(t)
    \/ ReleaseExclusiveLock(t) \/ ReleaseSharedLock(t)
    \/ Notify(t) \/ Wake(t) \/ SpuriousWake(t)

Spec == Init /\ [][Next]_vars

\* A runnable thread runs: it notifies, takes the mutex after a wake-up, and a
\* holder destroys its keys.  Requests and spurious wake-ups owe nothing.
Fairness ==
  \A t \in Thread :
    /\ WF_vars(Notify(t))
    /\ WF_vars(Wake(t))
    /\ WF_vars(ReleaseExclusiveLock(t))
    /\ WF_vars(ReleaseSharedLock(t))

FairSpec == Spec /\ Fairness

-----------------------------------------------------------------------------
\* Type invariant of the lock's fields and of its callers' locals.
TypeOK ==
  /\ read_count \in Nat
  /\ writer_active \in BOOLEAN
  /\ pending_writers \in Nat
  /\ pc \in [Thread -> {"idle", "wait_exclusive", "wait_shared", "notify"}]
  /\ target \in [Thread -> Nat]
  /\ awake \subseteq Thread
  /\ shared \subseteq Thread
  /\ exclusive \subseteq Thread

\* Mutual exclusion of keys: next to an EXCLUSIVE key there is no other
\* exclusive key, and no SHARED key but the upgraded one of the same holder.
Exclusion ==
  \A t \in exclusive : exclusive = {t} /\ shared \subseteq {t}

\* The counters agree with the keys handed out (their destructors rely on it).
CountsKeys ==
  /\ read_count = Cardinality(shared)
  /\ writer_active <=> exclusive # {}

\* Every outstanding ticket is that of a registered or active writer, and a
\* reader waits for no more releases than such writers will make.
Writers == exclusive \union {t \in Thread : pc[t] = "wait_exclusive"}
TicketsExact ==
  /\ pending_writers = Cardinality(Writers)
  /\ \A t \in Thread : target[t] <= pending_writers

\* No lost wake-up: a sleeping waiter whose predicate holds will be notified,
\* although ReleaseSharedLock notifies for the last reader only and both
\* releases notify after they dropped the mutex.
NoLostWakeup ==
  \A t \in Thread :
    Ready(t) /\ t \notin awake => \E u \in Thread : pc[u] = "notify"

\* Who waits holds nothing, and only waiters are woken.
WaitersHoldNothing ==
  /\ \A t \in Thread : Waiting(t) => NoKey(t)
  /\ \A t \in awake : Waiting(t)

\* The inductive invariant: the keys, the counters, the tickets and the sleepers
\* together.
LockInv ==
  /\ TypeOK /\ CountsKeys /\ Exclusion /\ TicketsExact
  /\ WaitersHoldNothing /\ NoLostWakeup

\* The abstract readers-writer lock this lock implements.
RW == INSTANCE ReadersWriter
ReadersWriterSpec == RW!Spec

\* Steps by which a writer takes the lock while thread t waits: any of them
\* when t waits for the EXCLUSIVE key, and when t waits for a SHARED key the
\* ones in front of a reader that no longer has a registered writer ahead.
OvertakesWriter(t) ==
  pc[t] = "wait_exclusive" /\ ~writer_active /\ writer_active' /\ t \notin exclusive'
OvertakesReader(t) == Ready(t) /\ pc[t] = "wait_shared" /\ writer_active'

\* What the tickets promise a waiter when nothing bounds the acquisitions
\* ("neither side can starve the other", storage_lock.cpp): readers alone never
\* starve a writer, and a reader outlasts every writer registered before it.  A
\* waiter is kept out for ever only by writers that, again and again, take the
\* mutex before the notified waiter does, which is up to the mutex: the ticket
\* of a waiter does not stop TryGetExclusiveLock, nor another writer.
WaitersServed ==
  \A t \in Thread :
    /\ []<>(pc[t] # "wait_exclusive") \/ []<><<OvertakesWriter(t)>>_vars
    /\ []<>(pc[t] # "wait_shared") \/ []<><<OvertakesReader(t)>>_vars
=============================================================================
