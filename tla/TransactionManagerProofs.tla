---------------------- MODULE TransactionManagerProofs ----------------------
(***************************************************************************)
(* Proofs about TransactionManager, for any set of transactions and any    *)
(* bounds: the clean-up of undo buffers never takes a version away from an *)
(* active snapshot.                                                        *)
(***************************************************************************)
EXTENDS TransactionManager, WellFoundedInduction, TLAPS

-----------------------------------------------------------------------------
(* The inductive invariant.                                                *)

\* the types that the argument uses
CleanupTypes ==
  /\ current_start_timestamp \in Nat
  /\ active_transactions \in SUBSET Txn
  /\ start_time \in [Txn -> Nat]
  /\ commit_id \in [Txn -> Nat]
  /\ changes \in [Txn -> SUBSET Kind]
  /\ pc \in [Txn -> PcValue]
  /\ recently_committed_transactions \in Seq(Txn)
  /\ awaiting_cleanup \in SUBSET Txn

\* every timestamp handed out lies below the next one
TimestampsPast ==
  \A t \in Txn : /\ start_time[t] < current_start_timestamp
                 /\ commit_id[t] < current_start_timestamp

\* A transaction is in one place: running, or kept, or waiting for its
\* clean-up; one that has not started is nowhere, and the checkpoint's
\* transaction, which changes nothing, is only ever running.
Running(t) == pc[t] \in {"active", "wal", "relock", "backpedalled"}
IsKept(t) == \E i \in DOMAIN recently_committed_transactions :
               recently_committed_transactions[i] = t
InOnePlace ==
  \A t \in Txn :
    /\ Running(t) => t \in active_transactions
    /\ t \in active_transactions => t \notin awaiting_cleanup /\ ~IsKept(t)
    /\ pc[t] = "none" => t \notin awaiting_cleanup /\ ~IsKept(t)
    /\ t = Ckpt => t \notin awaiting_cleanup /\ ~IsKept(t)

\* what is kept has committed; what changed nothing is never kept
KeptCommitted ==
  /\ \A i \in DOMAIN recently_committed_transactions :
       Committed(recently_committed_transactions[i])
  /\ changes[Ckpt] = {}

CleanupInv ==
  /\ CleanupTypes
  /\ TimestampsPast
  /\ InOnePlace
  /\ KeptCommitted
  /\ CleanupSparesSnapshots

-----------------------------------------------------------------------------
(* Lemmas about the operators.                                             *)

\* A non-empty set of natural numbers has a least element.
LEMMA LeastExists ==
  ASSUME NEW T \in SUBSET Nat, T # {}
  PROVE  \E x \in T : \A y \in T : x <= y
<1> DEFINE R == {ss \in Nat \X Nat : ss[1] < ss[2]}
<1>1. IsWellFoundedOn(R, Nat)
  BY NatLessThanWellFounded, Zenon DEF OpToRel
<1>2. \A x, y \in Nat : y < x => <<y, x>> \in R
  OBVIOUS
<1> HIDE DEF R
<1>3. PICK x \in T : \A y \in T : ~(<<y, x>> \in R)
  BY <1>1, WFMin
<1>4. \A y \in T : ~(y < x)
  BY <1>2, <1>3
<1> QED BY <1>4

\* UpdateLowestVisibilityBound computes a lower bound of the start times of
\* the transactions it looks at.
LEMMA LowestBoundIsLower ==
  ASSUME NEW A \in SUBSET Txn, start_time \in [Txn -> Nat]
  PROVE  /\ LowestBoundOf(A) \in Nat
         /\ \A a \in A : LowestBoundOf(A) <= start_time[a]
<1>1. CASE A = {}
  BY <1>1, ConstantsAssumption DEF LowestBoundOf, AllCommitted
<1>2. CASE A # {}
  <2> DEFINE S == {start_time[a] : a \in A}
  <2>1. S \in SUBSET Nat /\ S # {}
    BY <1>2
  <2>2. \E b \in S : \A y \in S : b <= y
    <3> HIDE DEF S
    <3> QED BY <2>1, LeastExists
  <2>3. \E b \in S : \A a \in A : b <= start_time[a]
    BY <2>2
  <2>4. LowestBoundOf(A) = CHOOSE b \in S : \A a \in A : b <= start_time[a]
    BY <1>2 DEF LowestBoundOf
  <2>5. LowestBoundOf(A) \in S /\ \A a \in A : LowestBoundOf(A) <= start_time[a]
    <3> HIDE DEF S
    <3> QED BY <2>3, <2>4
  <2> QED BY <2>1, <2>5
<1> QED BY <1>1, <1>2

\* SweepCommittedTransactions takes a prefix of the list, all of which
\* committed below the bound.
LEMMA SweptBelowBound ==
  ASSUME NEW committed \in Seq(Txn), NEW id \in [Txn -> Nat], NEW bound \in Nat
  PROVE  /\ SweptCount(committed, id, bound) \in 0 .. Len(committed)
         /\ \A i \in 1 .. SweptCount(committed, id, bound) :
              id[committed[i]] < bound
<1> DEFINE kept == {i \in DOMAIN committed : id[committed[i]] >= bound}
           n == SweptCount(committed, id, bound)
<1>0. DOMAIN committed = 1 .. Len(committed) /\ Len(committed) \in Nat
      /\ \A i \in 1 .. Len(committed) : committed[i] \in Txn
  OBVIOUS
<1>1. CASE kept = {}
  <2>1. n = Len(committed)
    BY <1>1 DEF SweptCount
  <2>2. \A i \in 1 .. Len(committed) : ~(id[committed[i]] >= bound)
    BY <1>0, <1>1
  <2>3. \A i \in 1 .. Len(committed) : id[committed[i]] < bound
    BY <1>0, <2>2
  <2> QED BY <1>0, <2>1, <2>3
<1>2. CASE kept # {}
  <2>1. kept \in SUBSET Nat
    BY <1>0
  <2>2. \E i \in kept : \A j \in kept : i <= j
    <3> HIDE DEF kept
    <3> QED BY <1>2, <2>1, LeastExists
  <2>3. n = (CHOOSE i \in kept : \A j \in kept : i <= j) - 1
    BY <1>2 DEF SweptCount
  <2> DEFINE k == CHOOSE i \in kept : \A j \in kept : i <= j
  <2>4. k \in kept /\ \A j \in kept : k <= j
    <3> HIDE DEF kept
    <3> QED BY <2>2
  <2>5. k \in 1 .. Len(committed) /\ n = k - 1
    BY <1>0, <2>3, <2>4
  <2>6. ASSUME NEW i \in 1 .. n PROVE id[committed[i]] < bound
    <3>1. i \in 1 .. Len(committed) /\ i < k
      <4> HIDE DEF k, kept, n
      <4> QED BY <1>0, <2>5
    <3>2. i \notin kept
      <4> HIDE DEF k, kept, n
      <4> QED BY <1>0, <2>1, <2>4, <2>5, <3>1
    <3>3. ~(id[committed[i]] >= bound)
      BY <1>0, <3>1, <3>2
    <3>4. id[committed[i]] \in Nat
      BY <1>0, <3>1
    <3> QED BY <3>3, <3>4
  <2>7. n \in 0 .. Len(committed)
    <3> HIDE DEF k, kept, n
    <3> QED BY <1>0, <2>5
  <2> QED BY <2>6, <2>7
<1> QED BY <1>1, <1>2

-----------------------------------------------------------------------------
(* RemoveTransaction, once for commits and rollbacks.                      *)

\* Whatever a removal lets the clean-up have, or keeps, is the transaction
\* itself or was there before; what it lets the clean-up have is needed by
\* none of the transactions that stay active.
LEMMA RemovalSparesSnapshots ==
  ASSUME CleanupInv, NEW t \in Txn, t \in active_transactions,
         NEW store \in BOOLEAN, NEW id \in [Txn -> Nat],
         \A u \in Txn : u # t => id[u] = commit_id[u],
         ~store => ~HasOldVersions(t),
         store /\ id[t] # 0 => ChangesMade(t),
         RemoveTransaction(t, store, id)
  PROVE  /\ active_transactions' = active_transactions \ {t}
         /\ recently_committed_transactions' \in Seq(Txn)
         /\ awaiting_cleanup' \in SUBSET Txn
         /\ \A i \in DOMAIN recently_committed_transactions' :
              id[recently_committed_transactions'[i]] # 0
         /\ \A u \in Txn : u \in awaiting_cleanup' \/ IsKept(u)'
              => u \in awaiting_cleanup \/ IsKept(u) \/ (u = t /\ ChangesMade(t))
         /\ \A u \in awaiting_cleanup' : HasOldVersions(u) =>
              /\ id[u] # 0
              /\ \A a \in active_transactions' : ~(start_time[a] <= id[u])
<1> DEFINE old   == recently_committed_transactions
           rest  == active_transactions \ {t}
           bound == LowestBoundOf(rest)
           stays == store /\ id[t] # 0
           all   == IF stays THEN Append(old, t) ELSE old
           n     == SweptCount(all, id, bound)
           own   == IF ChangesMade(t) /\ ~stays THEN <<t>> ELSE <<>>
<1>0. /\ old \in Seq(Txn) /\ awaiting_cleanup \in SUBSET Txn
      /\ rest \in SUBSET Txn /\ start_time \in [Txn -> Nat]
      /\ t \notin awaiting_cleanup /\ ~IsKept(t)
  BY DEF CleanupInv, CleanupTypes, InOnePlace
<1>1. /\ bound \in Nat
      /\ \A a \in rest : bound <= start_time[a]
  BY <1>0, LowestBoundIsLower
<1>2. all \in Seq(Txn)
  BY <1>0
<1>3. \A i \in 1 .. Len(all) :
        /\ all[i] \in Txn
        /\ id[all[i]] # 0
        /\ IsKept(all[i]) \/ (all[i] = t /\ ChangesMade(t))
  <2>1. \A i \in 1 .. Len(old) :
          old[i] \in Txn /\ IsKept(old[i]) /\ commit_id[old[i]] # 0
    BY <1>0 DEF CleanupInv, KeptCommitted, Committed, IsKept
  <2>2. \A i \in 1 .. Len(old) : old[i] # t
    BY <1>0, <2>1
  <2>3. \A i \in 1 .. Len(old) : id[old[i]] # 0
    BY <2>1, <2>2
  <2>4. CASE stays
    <3>1. /\ Len(all) = Len(old) + 1 /\ all[Len(old) + 1] = t
          /\ \A i \in 1 .. Len(old) : all[i] = old[i]
      BY <1>0, <2>4
    <3>2. id[t] # 0 /\ ChangesMade(t)
      BY <2>4
    <3> HIDE DEF all
    <3>3. ASSUME NEW i \in 1 .. Len(all)
          PROVE  i \in 1 .. Len(old) \/ i = Len(old) + 1
      BY <1>0, <3>1
    <3> QED BY <2>1, <2>3, <3>1, <3>2, <3>3
  <2>5. CASE ~stays
    BY <2>1, <2>3, <2>5
  <2> QED BY <2>4, <2>5
<1>4. /\ n \in 0 .. Len(all)
      /\ \A i \in 1 .. n : id[all[i]] < bound
  <2> HIDE DEF all, bound
  <2> QED BY <1>1, <1>2, SweptBelowBound
<1>5. /\ active_transactions' = rest
      /\ recently_committed_transactions' = SubSeq(all, n + 1, Len(all))
      /\ awaiting_cleanup' = awaiting_cleanup \union ToSet(SubSeq(all, 1, n))
                             \union (IF store THEN {} ELSE ToSet(own))
  BY DEF RemoveTransaction, Remember
<1> HIDE DEF all, n, bound
<1>6. ASSUME NEW u, u \in ToSet(SubSeq(all, 1, n))
      PROVE  \E i \in 1 .. n : u = all[i]
  BY <1>2, <1>4, <1>6 DEF ToSet
<1>7. ASSUME NEW u \in ToSet(own) PROVE u = t /\ ChangesMade(t)
  BY DEF ToSet
<1>8. /\ recently_committed_transactions' \in Seq(Txn)
      /\ \A i \in DOMAIN recently_committed_transactions' :
           \E j \in 1 .. Len(all) : recently_committed_transactions'[i] = all[j]
  <2>1. n \in Nat /\ Len(all) \in Nat /\ n <= Len(all)
    BY <1>2, <1>4
  <2>2. /\ SubSeq(all, n + 1, Len(all)) \in Seq(Txn)
        /\ Len(SubSeq(all, n + 1, Len(all))) = Len(all) - n
        /\ \A i \in 1 .. Len(all) - n :
             SubSeq(all, n + 1, Len(all))[i] = all[n + i]
    BY <1>2, <1>3, <2>1
  <2>3. \A i \in 1 .. Len(all) - n : n + i \in 1 .. Len(all)
    BY <2>1
  <2>4. DOMAIN recently_committed_transactions' = 1 .. Len(all) - n
    BY <1>5, <2>2
  <2> QED BY <1>5, <2>2, <2>3, <2>4
<1>9. ASSUME NEW u \in Txn, u \in awaiting_cleanup' \/ IsKept(u)'
      PROVE  u \in awaiting_cleanup \/ IsKept(u) \/ (u = t /\ ChangesMade(t))
  <2>1. CASE u \in awaiting_cleanup'
    <3>1. CASE u \in ToSet(SubSeq(all, 1, n))
      BY <1>3, <1>4, <1>6, <3>1
    <3>2. CASE u \in ToSet(own)
      BY <1>7, <3>2
    <3> QED BY <1>5, <2>1, <3>1, <3>2
  <2>2. CASE IsKept(u)'
    <3>1. \E j \in 1 .. Len(all) : u = all[j]
      BY <1>8, <2>2 DEF IsKept
    <3> QED BY <1>3, <3>1
  <2> QED BY <1>9, <2>1, <2>2
<1>10. ASSUME NEW u \in awaiting_cleanup', HasOldVersions(u)
       PROVE  /\ u \in Txn /\ id[u] # 0
              /\ \A a \in rest : ~(start_time[a] <= id[u])
  <2>1. CASE u \in awaiting_cleanup
    <3>1. u \in Txn /\ u # t
      BY <1>0, <2>1
    <3>2. /\ commit_id[u] # 0
          /\ \A a \in active_transactions : ~(start_time[a] <= commit_id[u])
      BY <2>1, <1>10 DEF CleanupInv, CleanupSparesSnapshots, Committed, Precedes
    <3> QED BY <3>1, <3>2
  <2>2. CASE u \in ToSet(SubSeq(all, 1, n))
    <3>1. PICK i \in 1 .. n : u = all[i]
      BY <1>6, <2>2
    <3>2. u \in Txn /\ id[u] # 0 /\ id[u] < bound /\ id[u] \in Nat
      BY <1>3, <1>4, <3>1
    <3>3. ASSUME NEW a \in rest PROVE ~(start_time[a] <= id[u])
      <4>1. start_time[a] \in Nat /\ bound <= start_time[a]
        BY <1>0, <1>1
      <4> QED BY <1>1, <3>2, <4>1
    <3> QED BY <3>2, <3>3
  <2>3. CASE ~store /\ u \in ToSet(own)
    <3>1. u = t
      BY <1>7, <2>3
    <3> QED BY <1>10, <2>3, <3>1
  <2> QED BY <1>5, <2>1, <2>2, <2>3
<1>11. awaiting_cleanup' \in SUBSET Txn
  <2>1. ToSet(SubSeq(all, 1, n)) \in SUBSET Txn
    BY <1>3, <1>4, <1>6
  <2>2. ToSet(own) \in SUBSET Txn
    BY <1>7
  <2> QED BY <1>0, <1>5, <2>1, <2>2
<1>12. \A i \in DOMAIN recently_committed_transactions' :
         id[recently_committed_transactions'[i]] # 0
  BY <1>3, <1>8
<1> QED BY <1>5, <1>8, <1>9, <1>10, <1>11, <1>12

-----------------------------------------------------------------------------
(* The steps, by what they do to the invariant.                            *)

\* The removal of t, by a commit with the new commit_id or by a rollback.
LEMMA RemovalKeepsInv ==
  ASSUME CleanupInv, NEW t \in Txn, t \in active_transactions,
         NEW store \in BOOLEAN,
         ~store => ~HasOldVersions(t),
         store /\ commit_id'[t] # 0 => ChangesMade(t),
         RemoveTransaction(t, store, commit_id'),
         commit_id' \in [Txn -> Nat],
         \A u \in Txn : u # t => commit_id'[u] = commit_id[u],
         current_start_timestamp' \in Nat,
         current_start_timestamp <= current_start_timestamp',
         commit_id'[t] < current_start_timestamp',
         pc' = [pc EXCEPT ![t] = "cleanup"],
         UNCHANGED <<start_time, changes>>
  PROVE  CleanupInv'
<1>0. CleanupTypes /\ TimestampsPast /\ InOnePlace /\ KeptCommitted
  BY DEF CleanupInv
<1>1. /\ active_transactions' = active_transactions \ {t}
      /\ recently_committed_transactions' \in Seq(Txn)
      /\ awaiting_cleanup' \in SUBSET Txn
      /\ \A i \in DOMAIN recently_committed_transactions' :
           commit_id'[recently_committed_transactions'[i]] # 0
      /\ \A u \in Txn : u \in awaiting_cleanup' \/ IsKept(u)'
           => u \in awaiting_cleanup \/ IsKept(u) \/ (u = t /\ ChangesMade(t))
      /\ \A u \in awaiting_cleanup' : HasOldVersions(u) =>
           /\ commit_id'[u] # 0
           /\ \A a \in active_transactions' : ~(start_time[a] <= commit_id'[u])
  BY RemovalSparesSnapshots
<1>2. CleanupTypes'
  BY <1>0, <1>1 DEF CleanupTypes, PcValue
<1>3. TimestampsPast'
  <2> SUFFICES ASSUME NEW u \in Txn
               PROVE  /\ start_time[u] < current_start_timestamp'
                      /\ commit_id'[u] < current_start_timestamp'
    BY DEF TimestampsPast
  <2>1. /\ start_time[u] \in Nat /\ commit_id[u] \in Nat
        /\ current_start_timestamp \in Nat
        /\ start_time[u] < current_start_timestamp
        /\ commit_id[u] < current_start_timestamp
    BY <1>0 DEF CleanupTypes, TimestampsPast
  <2> QED BY <2>1
<1>4. InOnePlace'
  <2> SUFFICES ASSUME NEW u \in Txn
               PROVE  /\ Running(u)' => u \in active_transactions'
                      /\ u \in active_transactions' \/ pc'[u] = "none" \/ u = Ckpt
                           => u \notin awaiting_cleanup' /\ ~IsKept(u)'
    BY DEF InOnePlace
  <2>1. CASE u = t
    <3>1. pc'[u] = "cleanup"
      BY <1>0, <2>1 DEF CleanupTypes
    <3>2. u = Ckpt => ~ChangesMade(t)
      BY <1>0, <2>1 DEF KeptCommitted, ChangesMade
    <3>3. u \notin awaiting_cleanup /\ ~IsKept(u)
      BY <1>0, <2>1 DEF InOnePlace
    <3> QED BY <1>1, <2>1, <3>1, <3>2, <3>3 DEF Running
  <2>2. CASE u # t
    <3>1. pc'[u] = pc[u]
      BY <1>0, <2>2 DEF CleanupTypes
    <3> QED BY <1>0, <1>1, <2>2, <3>1 DEF InOnePlace, Running
  <2> QED BY <2>1, <2>2
<1>5. KeptCommitted'
  BY <1>0, <1>1 DEF KeptCommitted, Committed
<1>6. CleanupSparesSnapshots'
  BY <1>1 DEF CleanupSparesSnapshots, Committed, Precedes, HasOldVersions
<1> QED BY <1>2, <1>3, <1>4, <1>5, <1>6 DEF CleanupInv

\* StoreTransaction covers every kind of change with old versions.
LEMMA StoredIfOldVersions ==
  ASSUME NEW t \in Txn, changes[t] \in SUBSET Kind, HasOldVersions(t)
  PROVE  StoreTransaction(t)
<1>1. PICK k \in changes[t] : k \notin {"insert", "delete"}
  BY DEF HasOldVersions
<1>2. k \in {"index_delete", "update", "create", "drop"}
  BY <1>1, ConstantsAssumption
<1> QED BY <1>1, <1>2 DEF StoreTransaction, HasUpdates, HasIndexDeletes, HasCatalogChanges

\* The end of a commit keeps the inductive invariant.
LEMMA FinishCommitKeepsInv ==
  ASSUME CleanupInv, NEW t \in Txn, Running(t), NEW d, NEW X, FinishCommit(t, d, X)
  PROVE  CleanupInv'
<1>0. CleanupTypes /\ TimestampsPast /\ InOnePlace
  BY DEF CleanupInv
<1>1. t \in active_transactions
  BY <1>0 DEF InOnePlace
<1>2. current_start_timestamp \in Nat /\ current_start_timestamp # 0
  <2>1. start_time[t] \in Nat /\ start_time[t] < current_start_timestamp
    BY <1>0 DEF CleanupTypes, TimestampsPast
  <2> QED BY <1>0, <2>1 DEF CleanupTypes
<1>3. /\ current_start_timestamp' = current_start_timestamp + 1
      /\ commit_id' = [commit_id EXCEPT
                         ![t] = IF ~d.error THEN current_start_timestamp ELSE 0]
      /\ RemoveTransaction(t, StoreTransaction(t) \/ d.error, commit_id')
      /\ pc' = [pc EXCEPT ![t] = "cleanup"]
      /\ UNCHANGED <<start_time, changes>>
  BY DEF FinishCommit
<1> DEFINE store == StoreTransaction(t) \/ d.error
<1>4. store \in BOOLEAN
  OBVIOUS
<1>5. ~store => ~HasOldVersions(t)
  BY <1>0, StoredIfOldVersions DEF CleanupTypes
<1>6. /\ commit_id' \in [Txn -> Nat]
      /\ \A u \in Txn : u # t => commit_id'[u] = commit_id[u]
      /\ commit_id'[t] = IF ~d.error THEN current_start_timestamp ELSE 0
  BY <1>0, <1>2, <1>3 DEF CleanupTypes
<1>7. store /\ commit_id'[t] # 0 => ChangesMade(t)
  BY <1>6 DEF StoreTransaction, HasUpdates, HasIndexDeletes, HasCatalogChanges, ChangesMade
<1>8. /\ current_start_timestamp' \in Nat
      /\ current_start_timestamp <= current_start_timestamp'
      /\ commit_id'[t] < current_start_timestamp'
  BY <1>2, <1>3, <1>6
<1>9. RemoveTransaction(t, store, commit_id')
  BY <1>3
<1> HIDE DEF store
<1> QED BY <1>1, <1>3, <1>4, <1>5, <1>6, <1>7, <1>8, <1>9, RemovalKeepsInv

\* A transaction that is neither kept nor to be cleaned up begins: it starts
\* after everything that has committed.
LEMMA BeginKeepsInv ==
  ASSUME CleanupInv, NEW t \in Txn, t \notin awaiting_cleanup, ~IsKept(t), Begin(t),
         UNCHANGED <<recently_committed_transactions, awaiting_cleanup,
                     commit_id, changes>>
  PROVE  CleanupInv'
<1>0. /\ CleanupTypes /\ TimestampsPast /\ InOnePlace /\ KeptCommitted
      /\ CleanupSparesSnapshots
  BY DEF CleanupInv
<1>1. /\ current_start_timestamp' = current_start_timestamp + 1
      /\ start_time' = [start_time EXCEPT ![t] = current_start_timestamp]
      /\ active_transactions' = active_transactions \union {t}
      /\ pc' = [pc EXCEPT ![t] = "active"]
  BY DEF Begin
<1>2. CleanupTypes'
  BY <1>0, <1>1 DEF CleanupTypes, PcValue
<1>3. TimestampsPast'
  BY <1>0, <1>1 DEF CleanupTypes, TimestampsPast
<1>4. InOnePlace'
  BY <1>0, <1>1 DEF InOnePlace, Running, IsKept, CleanupTypes
<1>5. KeptCommitted'
  BY <1>0 DEF KeptCommitted, Committed
<1>6. CleanupSparesSnapshots'
  <2> SUFFICES ASSUME NEW u \in awaiting_cleanup, HasOldVersions(u),
                      NEW a \in active_transactions \union {t}
               PROVE  Committed(u) /\ ~(start_time'[a] <= commit_id[u])
    BY <1>0, <1>1 DEF CleanupSparesSnapshots, Committed, HasOldVersions, Precedes
  <2>1. /\ Committed(u)
        /\ \A b \in active_transactions : ~(start_time[b] <= commit_id[u])
    BY <1>0 DEF CleanupSparesSnapshots, Precedes
  <2>2. /\ u \in Txn /\ commit_id[u] \in Nat
        /\ commit_id[u] < current_start_timestamp
        /\ current_start_timestamp \in Nat
    BY <1>0 DEF CleanupTypes, TimestampsPast
  <2>3. CASE a = t
    BY <1>0, <1>1, <2>1, <2>2, <2>3 DEF CleanupTypes
  <2>4. CASE a # t
    BY <1>0, <1>1, <2>1, <2>4 DEF CleanupTypes
  <2> QED BY <2>3, <2>4
<1> QED BY <1>2, <1>3, <1>4, <1>5, <1>6 DEF CleanupInv

\* Only an active transaction changes anything.
LEMMA SetModificationsKeepsInv ==
  ASSUME CleanupInv, NEW t \in Txn, NEW k \in Kind, NEW made \in BOOLEAN,
         SetModifications(t, k, made)
  PROVE  CleanupInv'
<1>0. /\ CleanupTypes /\ TimestampsPast /\ InOnePlace /\ KeptCommitted
      /\ CleanupSparesSnapshots
  BY DEF CleanupInv
<1>1. /\ t # Ckpt /\ pc[t] = "active"
      /\ UNCHANGED <<listVars, clockVars, start_time, commit_id, pc>>
      /\ changes' = IF made THEN [changes EXCEPT ![t] = @ \union {k}] ELSE changes
  BY ConstantsAssumption DEF SetModifications
<1>2. t \notin awaiting_cleanup
  BY <1>0, <1>1 DEF InOnePlace, Running
<1>3. \A u \in Txn : u # t => changes'[u] = changes[u]
  BY <1>0, <1>1 DEF CleanupTypes
<1>4. CleanupTypes'
  BY <1>0, <1>1 DEF CleanupTypes, listVars, clockVars
<1>5. TimestampsPast' /\ InOnePlace'
  BY <1>0, <1>1 DEF TimestampsPast, InOnePlace, Running, IsKept, listVars, clockVars
<1>6. KeptCommitted'
  BY <1>0, <1>1, <1>3 DEF KeptCommitted, Committed, listVars, Txn
<1>7. CleanupSparesSnapshots'
  BY <1>0, <1>1, <1>2, <1>3
     DEF CleanupSparesSnapshots, Committed, Precedes, HasOldVersions, CleanupTypes, listVars
<1> QED BY <1>4, <1>5, <1>6, <1>7 DEF CleanupInv

\* the steps that neither start nor remove a transaction nor change anything
Quiet ==
  /\ UNCHANGED <<current_start_timestamp, active_transactions, start_time,
                 commit_id, changes, recently_committed_transactions>>
  /\ awaiting_cleanup' \in SUBSET awaiting_cleanup
  /\ pc' \in [Txn -> PcValue]
  /\ \A u \in Txn : /\ Running(u)' => Running(u)
                    /\ pc'[u] = "none" => pc[u] = "none" \/ u = Ckpt

\* Steps that leave the lists and the clocks alone.
LEMMA QuietKeepsInv ==
  ASSUME CleanupInv, Quiet PROVE CleanupInv'
<1>0. /\ CleanupTypes /\ TimestampsPast /\ InOnePlace /\ KeptCommitted
      /\ CleanupSparesSnapshots
  BY DEF CleanupInv
<1>1. CleanupTypes'
  BY <1>0 DEF CleanupTypes, Quiet
<1>2. TimestampsPast' /\ KeptCommitted'
  BY <1>0 DEF TimestampsPast, KeptCommitted, Committed, Quiet
<1>3. InOnePlace'
  BY <1>0 DEF InOnePlace, Quiet, IsKept
<1>4. CleanupSparesSnapshots'
  BY <1>0 DEF CleanupSparesSnapshots, Committed, Precedes, HasOldVersions, Quiet
<1> QED BY <1>1, <1>2, <1>3, <1>4 DEF CleanupInv

-----------------------------------------------------------------------------
(* The invariant is inductive.                                             *)

\* Nothing has run yet.
LEMMA CleanupInvInit == Init => CleanupInv
<1> SUFFICES ASSUME Init PROVE CleanupInv
  OBVIOUS
<1>1. CleanupTypes
  BY DEF Init, CleanupTypes, PcValue
<1>2. TimestampsPast /\ InOnePlace
  BY DEF Init, TimestampsPast, InOnePlace, Running, IsKept
<1>3. KeptCommitted /\ CleanupSparesSnapshots
  BY DEF Init, KeptCommitted, CleanupSparesSnapshots, Txn
<1> QED BY <1>1, <1>2, <1>3 DEF CleanupInv

\* Every step keeps the inductive invariant.
LEMMA CleanupInvNext == CleanupInv /\ [Next]_vars => CleanupInv'
<1> SUFFICES ASSUME CleanupInv, [Next]_vars PROVE CleanupInv'
  OBVIOUS
<1>0. /\ pc \in [Txn -> PcValue] /\ awaiting_cleanup \in SUBSET Txn
      /\ InOnePlace /\ Ckpt \in Txn
  BY DEF CleanupInv, CleanupTypes, Txn
<1>1. ASSUME NEW t \in Txn, StartTransaction(t) PROVE CleanupInv'
  <2>1. t \notin awaiting_cleanup /\ ~IsKept(t)
    BY <1>0, <1>1 DEF StartTransaction, InOnePlace
  <2> QED BY <1>1, <2>1, BeginKeepsInv DEF StartTransaction
<1>2. ASSUME NEW t \in Txn, NEW k \in Kind, NEW made \in BOOLEAN,
             SetModifications(t, k, made)
      PROVE  CleanupInv'
  BY <1>2, SetModificationsKeepsInv
<1>3. ASSUME NEW t \in Txn, NEW e \in BOOLEAN, NEW s \in BOOLEAN, NEW a \in BOOLEAN,
             CommitTransaction(t, e, a, s)
      PROVE  CleanupInv'
  <2>1. Running(t)
    BY <1>3 DEF CommitTransaction, Running
  <2>2. CASE ChangesMade(t) /\ ~e
    <3>1. /\ pc' = [pc EXCEPT ![t] = "wal"]
          /\ UNCHANGED <<listVars, clockVars, txnVars>>
      BY <1>3, <2>2 DEF CommitTransaction
    <3>2. Quiet
      BY <1>0, <2>1, <3>1 DEF Quiet, Running, PcValue, listVars, clockVars, txnVars
    <3> QED BY <3>2, QuietKeepsInv
  <2>3. CASE ~(ChangesMade(t) /\ ~e)
    <3>1. \E d, X : FinishCommit(t, d, X)
      BY <1>3, <2>3, Zenon DEF CommitTransaction
    <3> QED BY <2>1, <3>1, FinishCommitKeepsInv
  <2> QED BY <2>2, <2>3
<1>4. ASSUME NEW t \in Txn, NEW f \in BOOLEAN, WriteToWAL(t, f) PROVE CleanupInv'
  <2>1. Quiet
    BY <1>0, <1>4 DEF WriteToWAL, Quiet, Running, PcValue, listVars, clockVars, txnVars
  <2> QED BY <2>1, QuietKeepsInv
<1>5. ASSUME NEW t \in Txn, NEW f \in BOOLEAN, CommitUndoBuffer(t, f) PROVE CleanupInv'
  <2>1. Running(t)
    BY <1>5 DEF CommitUndoBuffer, Running
  <2>2. \E d, X : FinishCommit(t, d, X)
    BY <1>5, Zenon DEF CommitUndoBuffer
  <2> QED BY <2>1, <2>2, FinishCommitKeepsInv
<1>6. ASSUME NEW t \in Txn, NEW f \in BOOLEAN, Backpedal(t, f) PROVE CleanupInv'
  <2>1. Quiet
    BY <1>0, <1>6 DEF Backpedal, Quiet, Running, PcValue, listVars, clockVars, txnVars
  <2> QED BY <2>1, QuietKeepsInv
<1>7. ASSUME NEW t \in Txn, NEW f \in BOOLEAN, CommitBackpedalled(t, f) PROVE CleanupInv'
  <2>1. Running(t)
    BY <1>7 DEF CommitBackpedalled, Running
  <2>2. \E d, X : FinishCommit(t, d, X)
    BY <1>7, Zenon DEF CommitBackpedalled
  <2> QED BY <2>1, <2>2, FinishCommitKeepsInv
<1>8. ASSUME NEW t \in Txn, RollbackTransaction(t) PROVE CleanupInv'
  <2>1. CleanupTypes /\ TimestampsPast
    BY DEF CleanupInv
  <2>2. /\ RemoveTransaction(t, ChangesMade(t), commit_id')
        /\ UNCHANGED <<commit_id, current_start_timestamp, start_time, changes>>
        /\ pc' = [pc EXCEPT ![t] = "cleanup"]
        /\ pc[t] = "active"
    BY <1>8 DEF RollbackTransaction, clockVars, txnVars
  <2>3. t \in active_transactions
    BY <1>0, <2>2 DEF InOnePlace, Running
  <2>4. ChangesMade(t) \in BOOLEAN /\ (~ChangesMade(t) => ~HasOldVersions(t))
    BY DEF ChangesMade, HasOldVersions
  <2>5. /\ current_start_timestamp \in Nat
        /\ commit_id \in [Txn -> Nat]
        /\ commit_id[t] < current_start_timestamp
    BY <2>1 DEF CleanupTypes, TimestampsPast
  <2>6. /\ commit_id' \in [Txn -> Nat]
        /\ \A u \in Txn : u # t => commit_id'[u] = commit_id[u]
        /\ current_start_timestamp' \in Nat
        /\ current_start_timestamp <= current_start_timestamp'
        /\ commit_id'[t] < current_start_timestamp'
        /\ UNCHANGED <<start_time, changes>>
    BY <2>2, <2>5
  <2> DEFINE store == ChangesMade(t)
  <2>7. /\ store \in BOOLEAN /\ (~store => ~HasOldVersions(t))
        /\ (store /\ commit_id'[t] # 0 => ChangesMade(t))
        /\ RemoveTransaction(t, store, commit_id')
    BY <2>2, <2>4
  <2> HIDE DEF store
  <2> QED BY <2>2, <2>3, <2>6, <2>7, RemovalKeepsInv
<1>9. ASSUME NEW t \in Txn, TakeCleanupLock(t) PROVE CleanupInv'
  <2>1. Quiet
    BY <1>0, <1>9 DEF TakeCleanupLock, Quiet, Running, PcValue, listVars, clockVars, txnVars
  <2> QED BY <2>1, QuietKeepsInv
<1>10. ASSUME NEW t \in Txn, CleanupEntry(t) PROVE CleanupInv'
  <2>1. awaiting_cleanup' \in SUBSET awaiting_cleanup
    BY <1>10 DEF CleanupEntry
  <2>2. UNCHANGED <<active_transactions, recently_committed_transactions, clockVars,
                    txnVars, pc>>
    BY <1>10 DEF CleanupEntry
  <2>3. Quiet
    BY <1>0, <2>1, <2>2 DEF Quiet, Running, clockVars, txnVars
  <2> QED BY <2>3, QuietKeepsInv
<1>11. ASSUME NEW t \in Txn, CleanupThrows(t) \/ CleanupDone(t) PROVE CleanupInv'
  <2>1. /\ UNCHANGED <<listVars, clockVars, txnVars>>
        /\ pc' = [pc EXCEPT ![t] = IF decision[t].can THEN "checkpoint" ELSE "done"]
    BY <1>11 DEF CleanupThrows, CleanupDone, LeaveCleanup
  <2>2. Quiet
    BY <1>0, <2>1 DEF Quiet, Running, PcValue, listVars, clockVars, txnVars
  <2> QED BY <2>2, QuietKeepsInv
<1>12. ASSUME NEW t \in Txn, PopCleanup(t) PROVE CleanupInv'
  <2>1. Quiet
    BY <1>0, <1>12 DEF PopCleanup, Quiet, Running, clockVars, txnVars
  <2> QED BY <2>1, QuietKeepsInv
<1>13. ASSUME NEW t \in Txn, AutomaticCheckpoint(t) PROVE CleanupInv'
  <2>1. /\ UNCHANGED <<listVars, clockVars, txnVars>>
        /\ pc' = [pc EXCEPT ![t] = "checkpointing"]
    BY <1>13 DEF AutomaticCheckpoint, CreateCheckpoint
  <2>2. Quiet
    BY <1>0, <2>1 DEF Quiet, Running, PcValue, listVars, clockVars, txnVars
  <2> QED BY <2>2, QuietKeepsInv
<1>14. CASE ClientStep
  <2>1. UNCHANGED <<listVars, clockVars, txnVars, pc>>
    BY <1>14 DEF ClientStep, CheckpointStatement, ForceCheckpoint, ForceLocked,
                 ForceInterrupted, ReadLastCommit, ReadLowestBound,
                 ClientCheckpoint, CreateCheckpoint
  <2>2. Quiet
    BY <1>0, <2>1 DEF Quiet, Running, listVars, clockVars, txnVars
  <2> QED BY <2>2, QuietKeepsInv
<1>15. CASE WALStartCheckpoint
  <2>1. Ckpt \notin awaiting_cleanup /\ ~IsKept(Ckpt)
    BY <1>0 DEF InOnePlace
  <2> QED BY <1>0, <1>15, <2>1, BeginKeepsInv DEF WALStartCheckpoint
<1>16. CASE WriteTables \/ WALFinishCheckpoint
  <2>1. UNCHANGED <<listVars, clockVars, txnVars, pc>>
    BY <1>16 DEF WriteTables, WALFinishCheckpoint
  <2>2. Quiet
    BY <1>0, <2>1 DEF Quiet, Running, listVars, clockVars, txnVars
  <2> QED BY <2>2, QuietKeepsInv
<1>17. CASE EndCheckpoint
  <2>1. /\ UNCHANGED <<listVars, clockVars, txnVars>>
        /\ pc' = [t \in Txn |-> IF t = Ckpt THEN "none"
                                ELSE IF t = checkpoint.owner THEN "done" ELSE pc[t]]
    BY <1>17 DEF EndCheckpoint
  <2>2. Quiet
    BY <1>0, <2>1 DEF Quiet, Running, PcValue, listVars, clockVars, txnVars
  <2> QED BY <2>2, QuietKeepsInv
<1>18. CASE UNCHANGED vars
  <2>1. UNCHANGED <<listVars, clockVars, txnVars, pc>>
    BY <1>18 DEF vars
  <2>2. Quiet
    BY <1>0, <2>1 DEF Quiet, Running, listVars, clockVars, txnVars
  <2> QED BY <2>2, QuietKeepsInv
<1>19. ASSUME NEW t \in Txn, TxnStep(t) PROVE CleanupInv'
  <2>1. Automatic \union {FALSE} \subseteq BOOLEAN
    BY ConstantsAssumption
  <2> QED BY <1>1, <1>2, <1>3, <1>4, <1>5, <1>6, <1>7, <1>8, <1>9, <1>10, <1>11,
             <1>12, <1>13, <1>19, <2>1, Zenon DEF TxnStep
<1> QED BY <1>14, <1>15, <1>16, <1>17, <1>18, <1>19 DEF Next, CheckpointStep

\* For any transactions, kinds of change and bounds: no clean-up ever takes an
\* old version away from an active transaction (SweepCommittedTransactions and
\* UndoBuffer::Cleanup).
THEOREM CleanupSafe == Spec => []CleanupSparesSnapshots
<1>1. CleanupInv => CleanupSparesSnapshots
  BY DEF CleanupInv
<1> QED BY <1>1, CleanupInvInit, CleanupInvNext, PTL DEF Spec
=============================================================================
