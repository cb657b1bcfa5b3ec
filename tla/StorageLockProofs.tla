-------------------------- MODULE StorageLockProofs --------------------------
(***************************************************************************)
(* Proofs about StorageLock for any finite set of threads: the inductive   *)
(* invariant LockInv, mutual exclusion, absence of lost wake-ups, and the  *)
(* implementation of the abstract ReadersWriter lock.                      *)
(***************************************************************************)
EXTENDS StorageLock, FiniteSetTheorems, TLAPS

\* Adding a holder to the readers, or removing one, moves their count by one
\* (what read_count++ and read_count-- rely on).
LEMMA ReaderCount ==
  ASSUME TypeOK, NEW t \in Thread
  PROVE  /\ IsFiniteSet(shared)
         /\ Cardinality(shared) \in Nat
         /\ t \notin shared =>
              Cardinality(shared \union {t}) = Cardinality(shared) + 1
         /\ t \in shared =>
              /\ Cardinality(shared \ {t}) = Cardinality(shared) - 1
              /\ Cardinality(shared) >= 1
         /\ Cardinality(shared) = 0 <=> shared = {}
<1>1. IsFiniteSet(shared)
  BY ThreadAssumption, FS_Subset DEF TypeOK
<1>2. Cardinality(shared) \in Nat
  BY <1>1, FS_CardinalityType
<1>3. t \notin shared => Cardinality(shared \union {t}) = Cardinality(shared) + 1
  BY <1>1, FS_AddElement
<1>4. t \in shared => Cardinality(shared \ {t}) = Cardinality(shared) - 1
  BY <1>1, FS_RemoveElement
<1>5. Cardinality(shared) = 0 <=> shared = {}
  BY <1>1, FS_EmptySet
<1> QED BY <1>1, <1>2, <1>3, <1>4, <1>5

\* The upgrade's test read_count = 1 means that its caller is the only reader.
LEMMA OnlyReader ==
  ASSUME TypeOK, CountsKeys, NEW t \in shared, read_count = 1
  PROVE  shared = {t}
<1>1. IsFiniteSet(shared)
  BY ThreadAssumption, FS_Subset DEF TypeOK
<1>2. PICK x : shared = {x}
  BY <1>1, FS_Singleton DEF CountsKeys
<1> QED BY <1>2

\* Registering a writer, or seeing one off, moves their count by one.
LEMMA WriterCount ==
  ASSUME TypeOK, NEW t \in Thread
  PROVE  /\ Cardinality(Writers) \in Nat
         /\ t \notin Writers =>
              Cardinality(Writers \union {t}) = Cardinality(Writers) + 1
         /\ t \in Writers =>
              /\ Cardinality(Writers \ {t}) = Cardinality(Writers) - 1
              /\ Cardinality(Writers) >= 1
<1>1. IsFiniteSet(Writers)
  BY ThreadAssumption, FS_Subset DEF TypeOK, Writers
<1>2. Cardinality(Writers) \in Nat
  BY <1>1, FS_CardinalityType
<1>3. t \notin Writers => Cardinality(Writers \union {t}) = Cardinality(Writers) + 1
  BY <1>1, FS_AddElement
<1>4. t \in Writers => Cardinality(Writers \ {t}) = Cardinality(Writers) - 1
  BY <1>1, FS_RemoveElement
<1>5. Cardinality(Writers) = 0 <=> Writers = {}
  BY <1>1, FS_EmptySet
<1> QED BY <1>2, <1>3, <1>4, <1>5

\* Tickets stay exact: a step that takes one adds a writer, the release that
\* returns one removes it, and no other step changes who is a writer.
LEMMA TicketsStep ==
  ASSUME TypeOK, CountsKeys, Exclusion, WaitersHoldNothing, TicketsExact, [Next]_vars
  PROVE  /\ pending_writers' \in Nat
         /\ target' \in [Thread -> Nat]
         /\ TicketsExact'
<1> USE DEF TicketsExact
<1>1. ASSUME Writers' = Writers, pending_writers' = pending_writers,
             target' = target
      PROVE  pending_writers' \in Nat /\ target' \in [Thread -> Nat] /\ TicketsExact'
  BY <1>1 DEF TypeOK
<1>2. ASSUME NEW t \in Thread, t \notin Writers, Writers' = Writers \union {t},
             TakeTicket, target' = target
      PROVE  pending_writers' \in Nat /\ target' \in [Thread -> Nat] /\ TicketsExact'
  <2>1. pending_writers' = Cardinality(Writers') /\ pending_writers' \in Nat
    BY <1>2, WriterCount DEF TakeTicket
  <2>2. \A u \in Thread : target'[u] <= pending_writers'
    BY <1>2 DEF TakeTicket, TypeOK
  <2> QED BY <1>2, <2>1, <2>2 DEF TypeOK
<1>3. CASE UNCHANGED vars
  BY <1>1, <1>3 DEF vars, Writers
<1>4. CASE Next
  <2> PICK t \in Thread :
        \/ GetExclusiveLock(t) \/ GetSharedLock(t)
        \/ TryGetExclusiveLock(t) \/ TryUpgradeCheckpointLock(t)
        \/ ReleaseExclusiveLock(t) \/ ReleaseSharedLock(t)
        \/ Notify(t) \/ Wake(t) \/ SpuriousWake(t)
    BY <1>4 DEF Next
  <2>1. CASE GetExclusiveLock(t)
    <3>1. t \notin Writers
      BY <2>1 DEF GetExclusiveLock, NoKey, Writers
    <3>2. Writers' = Writers \union {t}
      BY <2>1 DEF GetExclusiveLock, GrantExclusive, Writers, TypeOK
    <3> QED BY <1>2, <2>1, <3>1, <3>2 DEF GetExclusiveLock
  <2>2. CASE GetSharedLock(t)
    <3>1. Writers' = Writers
      BY <2>2 DEF GetSharedLock, GrantShared, Writers, TypeOK
    <3>2. target' \in [Thread -> Nat] /\ \A u \in Thread : target'[u] <= pending_writers
      BY <2>2 DEF GetSharedLock, TypeOK
    <3> QED BY <2>2, <3>1, <3>2 DEF GetSharedLock, TypeOK
  <2>3. CASE TryGetExclusiveLock(t) \/ TryUpgradeCheckpointLock(t)
    <3>1. t \notin Writers
      BY <2>3 DEF TryGetExclusiveLock, TryUpgradeCheckpointLock, MayWrite, MayUpgrade,
         CountsKeys, Writers
    <3>2. Writers' = Writers \union {t}
      BY <2>3 DEF TryGetExclusiveLock, TryUpgradeCheckpointLock, GrantExclusive, Writers
    <3>3. TakeTicket /\ target' = target
      BY <2>3 DEF TryGetExclusiveLock, TryUpgradeCheckpointLock
    <3> QED BY <1>2, <3>1, <3>2, <3>3
  <2>4. CASE ReleaseExclusiveLock(t)
    <3>1. t \in Writers /\ Writers' = Writers \ {t}
      BY <2>4 DEF ReleaseExclusiveLock, Writers, TypeOK
    <3>2. pending_writers' = Cardinality(Writers') /\ pending_writers' \in Nat
      BY <2>4, <3>1, WriterCount DEF ReleaseExclusiveLock, WriterDone
    <3>3. \A u \in Thread : target'[u] \in Nat /\ target'[u] <= pending_writers'
      BY <2>4, <3>2 DEF ReleaseExclusiveLock, WriterDone, TypeOK
    <3>4. target' \in [Thread -> Nat]
      BY <2>4, <3>3 DEF ReleaseExclusiveLock, WriterDone
    <3> QED BY <3>2, <3>3, <3>4
  <2>5. CASE ReleaseSharedLock(t) \/ Notify(t)
    <3>1. Writers' = Writers
      BY <2>5 DEF ReleaseSharedLock, Notify, Writers, TypeOK
    <3> QED BY <1>1, <2>5, <3>1 DEF ReleaseSharedLock, Notify
  <2>6. CASE Wake(t)
    <3>1. Writers' = Writers
      BY <2>6 DEF Wake, WakeExclusive, WakeShared, SleepAgain, GrantExclusive,
         GrantShared, Writers, TypeOK
    <3> QED BY <1>1, <2>6, <3>1 DEF Wake, WakeExclusive, WakeShared, SleepAgain
  <2>7. CASE SpuriousWake(t)
    BY <1>1, <2>7 DEF SpuriousWake, Writers
  <2> QED BY <2>1, <2>2, <2>3, <2>4, <2>5, <2>6, <2>7
<1> QED BY <1>3, <1>4

\* The type invariant and the key bookkeeping survive every step.
LEMMA KeysStep ==
  ASSUME TypeOK, CountsKeys, Exclusion, WaitersHoldNothing, TicketsExact, [Next]_vars
  PROVE  TypeOK' /\ CountsKeys' /\ Exclusion' /\ WaitersHoldNothing'
<1> USE DEF CountsKeys, Exclusion, WaitersHoldNothing, Waiting, NoKey
<1>1. CASE UNCHANGED vars
  BY <1>1 DEF vars, TypeOK
<1>2. CASE Next
  <2> PICK t \in Thread :
        \/ GetExclusiveLock(t) \/ GetSharedLock(t)
        \/ TryGetExclusiveLock(t) \/ TryUpgradeCheckpointLock(t)
        \/ ReleaseExclusiveLock(t) \/ ReleaseSharedLock(t)
        \/ Notify(t) \/ Wake(t) \/ SpuriousWake(t)
    BY <1>2 DEF Next
  <2>t. pending_writers' \in Nat /\ target' \in [Thread -> Nat]
    BY TicketsStep
  <2>0. /\ Cardinality(shared) \in Nat
        /\ t \notin shared =>
             Cardinality(shared \union {t}) = Cardinality(shared) + 1
        /\ t \in shared =>
             /\ Cardinality(shared \ {t}) = Cardinality(shared) - 1
             /\ Cardinality(shared) >= 1
        /\ Cardinality(shared) = 0 <=> shared = {}
    BY ReaderCount
  <2>1. CASE GetExclusiveLock(t)
    <3>1. TypeOK'
      <4>2. CASE MayWrite
        BY <2>t, <2>1, <4>2 DEF GetExclusiveLock, GrantExclusive, TypeOK
      <4>3. CASE ~MayWrite
        BY <2>t, <2>1, <4>3 DEF GetExclusiveLock, TypeOK
      <4> QED BY <4>2, <4>3
    <3>2. CountsKeys'
      BY <2>0, <2>1 DEF GetExclusiveLock, TakeTicket, GrantExclusive, MayWrite, TypeOK
    <3>3. Exclusion'
      BY <2>0, <2>1 DEF GetExclusiveLock, TakeTicket, GrantExclusive, MayWrite
    <3>4. WaitersHoldNothing'
      BY <2>0, <2>1 DEF GetExclusiveLock, TakeTicket, GrantExclusive, MayWrite, TypeOK
    <3> QED BY <3>1, <3>2, <3>3, <3>4
  <2>2. CASE GetSharedLock(t)
    <3>1. TypeOK'
      BY <2>t, <2>0, <2>2 DEF GetSharedLock, GrantShared, MayRead, TypeOK
    <3>2. CountsKeys'
      BY <2>0, <2>2 DEF GetSharedLock, GrantShared, MayRead, TypeOK
    <3>3. Exclusion'
      BY <2>0, <2>2 DEF GetSharedLock, GrantShared, MayRead
    <3>4. WaitersHoldNothing'
      BY <2>0, <2>2 DEF GetSharedLock, GrantShared, MayRead, TypeOK
    <3> QED BY <3>1, <3>2, <3>3, <3>4
  <2>3. CASE TryGetExclusiveLock(t)
    <3>1. TypeOK'
      BY <2>t, <2>0, <2>3 DEF TryGetExclusiveLock, TakeTicket, GrantExclusive, MayWrite, TypeOK
    <3>2. CountsKeys'
      BY <2>0, <2>3 DEF TryGetExclusiveLock, TakeTicket, GrantExclusive, MayWrite, TypeOK
    <3>3. Exclusion'
      BY <2>0, <2>3 DEF TryGetExclusiveLock, TakeTicket, GrantExclusive, MayWrite
    <3>4. WaitersHoldNothing'
      BY <2>0, <2>3 DEF TryGetExclusiveLock, TakeTicket, GrantExclusive, MayWrite, TypeOK
    <3> QED BY <3>1, <3>2, <3>3, <3>4
  <2>4. CASE TryUpgradeCheckpointLock(t)
    <3>1. shared = {t}
      BY <2>4, OnlyReader DEF TryUpgradeCheckpointLock, MayUpgrade
    <3> QED
      BY <2>t, <3>1, <2>4 DEF TryUpgradeCheckpointLock, TakeTicket, GrantExclusive, MayUpgrade, TypeOK
  <2>5. CASE ReleaseExclusiveLock(t)
    <3>1. TypeOK'
      <4>1. pc' \in
              [Thread -> {"idle", "wait_exclusive", "wait_shared", "notify"}]
        BY <2>5 DEF ReleaseExclusiveLock, TypeOK
      <4> QED BY <2>t, <4>1, <2>5, Zenon DEF ReleaseExclusiveLock, TypeOK
    <3>2. exclusive' = {} /\ shared' = shared /\ writer_active' = FALSE
      BY <2>5 DEF ReleaseExclusiveLock
    <3>3. CountsKeys' /\ Exclusion'
      BY <3>2, <2>5 DEF ReleaseExclusiveLock
    <3>4. WaitersHoldNothing'
      BY <3>2, <2>5 DEF ReleaseExclusiveLock, TypeOK
    <3> QED BY <3>1, <3>3, <3>4
  <2>6. CASE ReleaseSharedLock(t)
    <3>1. TypeOK'
      BY <2>t, <2>0, <2>6 DEF ReleaseSharedLock, NotifyOnRelease, TypeOK
    <3>2. CountsKeys'
      BY <2>0, <2>6 DEF ReleaseSharedLock, NotifyOnRelease, TypeOK
    <3>3. Exclusion'
      BY <2>0, <2>6 DEF ReleaseSharedLock, NotifyOnRelease
    <3>4. WaitersHoldNothing'
      BY <2>0, <2>6 DEF ReleaseSharedLock, NotifyOnRelease, TypeOK
    <3> QED BY <3>1, <3>2, <3>3, <3>4
  <2>7. CASE Notify(t)
    BY <2>t, <2>7 DEF Notify, TypeOK
  <2>8. CASE Wake(t)
    <3>1. CASE WakeExclusive(t)
      BY <2>t, <2>0, <3>1 DEF WakeExclusive, GrantExclusive, MayWrite, TypeOK
    <3>2. CASE WakeShared(t)
      BY <2>t, <2>0, <3>2 DEF WakeShared, GrantShared, MayRead, TypeOK
    <3>3. CASE SleepAgain(t)
      BY <3>3 DEF SleepAgain, TypeOK
    <3> QED BY <2>8, <3>1, <3>2, <3>3 DEF Wake
  <2>9. CASE SpuriousWake(t)
    BY <2>9 DEF SpuriousWake, TypeOK
  <2> QED BY <2>1, <2>2, <2>3, <2>4, <2>5, <2>6, <2>7, <2>8, <2>9
<1> QED BY <1>1, <1>2

\* No step leaves a ready sleeper without a notification on its way.
LEMMA WakeupStep ==
  ASSUME LockInv, [Next]_vars
  PROVE  NoLostWakeup'
<1> USE DEF LockInv, NoLostWakeup, Ready, MayWrite, MayRead
<1>1. CASE UNCHANGED vars
  BY <1>1 DEF vars
<1>2. CASE Next
  <2> PICK t \in Thread :
        \/ GetExclusiveLock(t) \/ GetSharedLock(t)
        \/ TryGetExclusiveLock(t) \/ TryUpgradeCheckpointLock(t)
        \/ ReleaseExclusiveLock(t) \/ ReleaseSharedLock(t)
        \/ Notify(t) \/ Wake(t) \/ SpuriousWake(t)
    BY <1>2 DEF Next
  <2>1. CASE GetExclusiveLock(t)
    BY <2>1 DEF GetExclusiveLock, TakeTicket, GrantExclusive, TypeOK
  <2>2. CASE GetSharedLock(t)
    BY <2>2 DEF GetSharedLock, GrantShared, TypeOK
  <2>3. CASE TryGetExclusiveLock(t)
    BY <2>3 DEF TryGetExclusiveLock, TakeTicket, GrantExclusive, TypeOK
  <2>4. CASE TryUpgradeCheckpointLock(t)
    BY <2>4 DEF TryUpgradeCheckpointLock, TakeTicket, GrantExclusive, MayUpgrade, TypeOK
  <2>5. CASE ReleaseExclusiveLock(t)
    BY <2>5 DEF ReleaseExclusiveLock, TypeOK
  <2>6. CASE ReleaseSharedLock(t)
    BY <2>6 DEF ReleaseSharedLock, NotifyOnRelease, TypeOK
  <2>7. CASE Notify(t)
    BY <2>7 DEF Notify, Waiting, TypeOK
  <2>8. CASE Wake(t)
    <3>1. CASE WakeExclusive(t)
      BY <3>1 DEF WakeExclusive, GrantExclusive, TypeOK
    <3>2. CASE WakeShared(t)
      BY <3>2 DEF WakeShared, GrantShared, TypeOK
    <3>3. CASE SleepAgain(t)
      BY <3>3 DEF SleepAgain, TypeOK
    <3> QED BY <2>8, <3>1, <3>2, <3>3 DEF Wake
  <2>9. CASE SpuriousWake(t)
    BY <2>9 DEF SpuriousWake, TypeOK
  <2> QED BY <2>1, <2>2, <2>3, <2>4, <2>5, <2>6, <2>7, <2>8, <2>9
<1> QED BY <1>1, <1>2

\* A lock that was just constructed satisfies the invariant.
LEMMA InitLockInv == Init => LockInv
<1> SUFFICES ASSUME Init PROVE LockInv
  OBVIOUS
<1>1. TypeOK
  BY DEF Init, TypeOK
<1>2. CountsKeys
  BY FS_EmptySet DEF Init, CountsKeys
<1>3. TicketsExact
  <2>1. Writers = {}
    BY DEF Init, Writers
  <2> QED BY <2>1, FS_EmptySet DEF Init, TicketsExact
<1>4. Exclusion /\ WaitersHoldNothing /\ NoLostWakeup
  BY DEF Init, Exclusion, WaitersHoldNothing, NoLostWakeup, Waiting, NoKey, Ready
<1> QED BY <1>1, <1>2, <1>3, <1>4 DEF LockInv

\* LockInv is an invariant of every execution of the lock.
THEOREM LockCorrect == Spec => []LockInv
<1>1. LockInv /\ [Next]_vars => LockInv'
  BY TicketsStep, KeysStep, WakeupStep DEF LockInv
<1> QED BY <1>1, InitLockInv, PTL DEF Spec

\* Mutual exclusion of StorageLock keys, upgrades included.
THEOREM MutualExclusion == Spec => []Exclusion
BY LockCorrect, PTL DEF LockInv

\* A ready sleeper is never forgotten by the condition variable.
THEOREM WakeupsNotLost == Spec => []NoLostWakeup
BY LockCorrect, PTL DEF LockInv

\* StorageLock implements the abstract readers-writer lock.
THEOREM ImplementsReadersWriter == Spec => ReadersWriterSpec
<1>1. Init => RW!Init
  BY DEF Init, RW!Init
<1>2. LockInv /\ [Next]_vars => [RW!Next]_(RW!vars)
  <2> SUFFICES ASSUME LockInv, [Next]_vars
               PROVE  [RW!Next]_(RW!vars)
    OBVIOUS
  <2> USE DEF LockInv, RW!vars
  <2>1. CASE UNCHANGED vars
    BY <2>1 DEF vars
  <2>2. CASE Next
    <3> PICK t \in Thread :
          \/ GetExclusiveLock(t) \/ GetSharedLock(t)
          \/ TryGetExclusiveLock(t) \/ TryUpgradeCheckpointLock(t)
          \/ ReleaseExclusiveLock(t) \/ ReleaseSharedLock(t)
          \/ Notify(t) \/ Wake(t) \/ SpuriousWake(t)
      BY <2>2 DEF Next
    <3>0. read_count = 0 => shared = {}
      BY ReaderCount DEF CountsKeys
    <3>1. ASSUME MayWrite, GrantExclusive(t)
          PROVE  RW!AcquireExclusive(t)
      BY <3>0, <3>1 DEF MayWrite, GrantExclusive, CountsKeys, RW!AcquireExclusive
    <3>2. ASSUME NEW goal, MayRead(goal), GrantShared(t), t \notin shared
          PROVE  RW!AcquireShared(t)
      BY <3>2 DEF MayRead, GrantShared, CountsKeys, RW!AcquireShared
    <3>3. CASE GetExclusiveLock(t)
      BY <3>1, <3>3 DEF GetExclusiveLock, RW!Next
    <3>4. CASE GetSharedLock(t)
      BY <3>2, <3>4 DEF GetSharedLock, NoKey, RW!Next
    <3>5. CASE TryGetExclusiveLock(t)
      BY <3>1, <3>5 DEF TryGetExclusiveLock, RW!Next
    <3>6. CASE TryUpgradeCheckpointLock(t)
      <4>1. shared = {t}
        BY <3>6, OnlyReader DEF TryUpgradeCheckpointLock, MayUpgrade
      <4> QED
        BY <4>1, <3>6 DEF TryUpgradeCheckpointLock, GrantExclusive, MayUpgrade,
           CountsKeys, RW!AcquireExclusive, RW!Next
    <3>7. CASE ReleaseExclusiveLock(t)
      BY <3>7 DEF ReleaseExclusiveLock, Exclusion, RW!Release, RW!Next
    <3>8. CASE ReleaseSharedLock(t)
      BY <3>8 DEF ReleaseSharedLock, RW!Release, RW!Next
    <3>9. CASE Notify(t) \/ SpuriousWake(t)
      BY <3>9 DEF Notify, SpuriousWake
    <3>10. CASE Wake(t)
      <4>1. NoKey(t)
        BY <3>10 DEF Wake, WakeExclusive, WakeShared, SleepAgain, WaitersHoldNothing
      <4>2. CASE WakeExclusive(t)
        BY <3>1, <4>2 DEF WakeExclusive, RW!Next
      <4>3. CASE WakeShared(t)
        BY <3>2, <4>1, <4>3 DEF WakeShared, NoKey, RW!Next
      <4>4. CASE SleepAgain(t)
        BY <4>4 DEF SleepAgain
      <4> QED BY <3>10, <4>2, <4>3, <4>4 DEF Wake
    <3> QED
      BY <3>3, <3>4, <3>5, <3>6, <3>7, <3>8, <3>9, <3>10
  <2> QED BY <2>1, <2>2
<1> QED BY <1>1, <1>2, LockCorrect, PTL DEF Spec, ReadersWriterSpec, RW!Spec
=============================================================================
