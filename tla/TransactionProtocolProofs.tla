---------------------- MODULE TransactionProtocolProofs ----------------------
(***************************************************************************)
(* Proofs about TransactionManager's commit protocol, for any set of       *)
(* transactions and any bounds: which thread holds which lock and what     *)
(* follows from it (nothing commits after a skipped WAL write, every lock  *)
(* is given back, no checkpoint writes tables with unsettled updates), and *)
(* what the clean-up does to each transaction (nothing lingers, every undo *)
(* entry is cleaned once, catalog versions count catalog commits).         *)
(***************************************************************************)
EXTENDS TransactionManagerProofs, FiniteSetTheorems, SequenceTheorems

-----------------------------------------------------------------------------
(* The inductive invariant, in parts.                                      *)

\* between its removal from the active transactions and its end
Ending(t) == pc[t] \in {"cleanup", "cleaning", "checkpoint", "checkpointing"}

\* the locals of CommitTransaction exist between its start and its end, and
\* only a commit with changes leaves transaction_lock on the way
DecisionLocal(t) ==
  /\ pc[t] \in {"none", "active", "done"} => decision[t] = NoDecision
  /\ decision[t].skip => decision[t].can
  /\ pc[t] \in {"checkpoint", "checkpointing"} => decision[t].can
  /\ pc[t] = "backpedalled" => ~decision[t].can
  /\ pc[t] \in {"wal", "relock", "backpedalled"} => ChangesMade(t)
  /\ t = Ckpt => ~decision[t].can
DecisionsLocal == \A t \in Txn : DecisionLocal(t)

\* the mutexes are held exactly where the code holds them
HoldsWal(t) == \/ pc[t] \in {"relock", "backpedalled"}
               \/ decision[t].skip /\ Ending(t)
MutexesHeld ==
  /\ \A t \in Txn : /\ cleanup_lock = t <=> pc[t] = "cleaning"
                    /\ wal_lock = t <=> HoldsWal(t)
  /\ cleanup_lock # Client /\ wal_lock # Client
  /\ start_transaction_lock = IF client.at = "spinning" THEN Client ELSE NoThread

\* The exclusive checkpoint lock has one holder, and excludes the shared keys
\* of all others.
HoldsCheckpoint(t) == \/ pc[t] = "backpedalled"
                      \/ decision[t].can /\ (pc[t] \in {"wal", "relock"} \/ Ending(t))
ClientHolds == client.at \in {"locked", "read", "decided", "checkpointing"}
ExclusiveHeld ==
  /\ \A t \in Txn : t \in checkpoint_exclusive <=> HoldsCheckpoint(t)
  /\ Client \in checkpoint_exclusive <=> ClientHolds
  /\ \A x, y \in checkpoint_exclusive : x = y
  /\ \A x \in checkpoint_exclusive : checkpoint_shared \subseteq {x}

\* A checkpoint belongs to the thread that waits for it, which alone may hold
\* the exclusive vacuum lock.
CheckpointOwned ==
  /\ \A t \in Txn : checkpoint.owner = t <=> pc[t] = "checkpointing"
  /\ checkpoint.owner = Client <=> client.at = "checkpointing"
  /\ checkpoint.owner = NoThread <=> checkpoint.phase = "none"
  /\ vacuum_exclusive \subseteq {checkpoint.owner}
  /\ checkpoint.phase \in {"none", "starting", "ending"} => pc[Ckpt] = "none"

LocksInv ==
  /\ DecisionsLocal
  /\ MutexesHeld
  /\ ExclusiveHeld
  /\ CheckpointOwned

\* A transaction that has ended is kept, queued for its clean-up, or gone.
IsQueued(t) == \E i \in DOMAIN cleanup_queue :
                 \E j \in DOMAIN cleanup_queue[i].transactions :
                   cleanup_queue[i].transactions[j] = t
PlacesApart ==
  /\ \A t \in Txn :
       /\ t \in active_transactions <=> Running(t)
       /\ t \in active_transactions => ~Committed(t) \/ t = Ckpt
       /\ pc[t] = "none" => ~ChangesMade(t) /\ (~Committed(t) \/ t = Ckpt)
       /\ IsQueued(t) => t \notin active_transactions /\ ~IsKept(t) /\ pc[t] # "none"
       /\ t \in awaiting_cleanup => IsQueued(t) /\ Committed(t)
       /\ t = Ckpt => ~IsQueued(t)
  /\ \A i, j \in DOMAIN recently_committed_transactions :
       recently_committed_transactions[i] = recently_committed_transactions[j] => i = j

\* Shared keys live as long as the transaction, and a transaction that an
\* older snapshot may need has its key of the checkpoint lock.
KeysOwned ==
  /\ \A t \in checkpoint_shared \union vacuum_shared :
       t \in active_transactions \/ IsKept(t) \/ IsQueued(t)
  /\ \A t \in Txn : /\ t \in active_transactions \/ IsKept(t)
                    /\ HasUpdates(t) \/ HasDroppedEntries(t)
                    => t \in checkpoint_shared

\* The cached bound is the start time of an active transaction, and what is
\* kept first is kept for it.
BoundAttained ==
  /\ active_transactions # {} =>
       \E a \in active_transactions : start_time[a] = lowest_visibility_bound
  /\ recently_committed_transactions # <<>> =>
       /\ active_transactions # {}
       /\ lowest_visibility_bound <= commit_id[Head(recently_committed_transactions)]

\* What is no longer kept is behind no active snapshot.
GoneIsSettled ==
  \A u \in Txn :
    Committed(u) /\ HasOldVersions(u) /\ ~IsKept(u) =>
      \A a \in active_transactions : ~Precedes(a, u)

PlacesInv == PlacesApart /\ KeysOwned /\ BoundAttained /\ GoneIsSettled

\* a commit that goes on to a checkpoint is kept for no snapshot, or needs no
\* snapshot to be gone
OwnUpdatesSettled ==
  \A t \in Txn : decision[t].can /\ Ending(t) =>
    ~IsKept(t) \/ ~(HasUpdates(t) \/ HasDroppedEntries(t))

\* How far the clean-up of each undo buffer is.
EntriesInv ==
  /\ cleaned_up_entries = applied
  /\ \A t \in Txn :
       /\ t = Ckpt \/ IsKept(t) \/ ~Committed(t) => applied[t] = 0
       /\ t \in awaiting_cleanup => applied[t] < NumEntries
       /\ applied[t] <= NumEntries
       /\ Committed(t) /\ ChangesMade(t) /\ t \notin active_transactions /\ ~IsKept(t)
            => t \in awaiting_cleanup \/ applied[t] = NumEntries
  /\ pass > 0 => /\ cleanup_queue # <<>> /\ Remaining # {}
                 /\ pass <= applied[FirstRemaining]

\* The catalog's version counts the commits that changed it.
CatalogCommits == {u \in Txn : Committed(u) /\ HasCatalogChanges(u)}
VersionCounts ==
  /\ IsFiniteSet(CatalogCommits)
  /\ last_committed_version = Cardinality(CatalogCommits)
  /\ last_committed_version < current_start_timestamp
  /\ \A t \in active_transactions :
       IF HasCatalogChanges(t) THEN catalog_version[t] >= TRANSACTION_ID_START
       ELSE /\ catalog_version[t] < TRANSACTION_ID_START
            /\ catalog_version[t] =
                 Cardinality({u \in CatalogCommits : ~Precedes(t, u)})

ProtocolInv ==
  /\ CleanupInv
  /\ TypeOK
  /\ LocksInv
  /\ PlacesInv
  /\ OwnUpdatesSettled
  /\ SkippedWalCommitsLast
  /\ EntriesInv
  /\ VersionCounts

-----------------------------------------------------------------------------
(* Lemmas about the operators of RemoveTransaction.                        *)

\* UpdateLowestVisibilityBound finds the start time of one of the
\* transactions it looks at.
LEMMA LowestBoundAttained ==
  ASSUME NEW A \in SUBSET Txn, A # {}, start_time \in [Txn -> Nat]
  PROVE  \E a \in A : LowestBoundOf(A) = start_time[a]
<1> DEFINE S == {start_time[a] : a \in A}
<1>1. S \in SUBSET Nat /\ S # {}
  OBVIOUS
<1>2. \E b \in S : \A y \in S : b <= y
  <2> HIDE DEF S
  <2> QED BY <1>1, LeastExists
<1>3. \E b \in S : \A a \in A : b <= start_time[a]
  BY <1>2
<1>4. LowestBoundOf(A) = CHOOSE b \in S : \A a \in A : b <= start_time[a]
  BY DEF LowestBoundOf
<1>5. LowestBoundOf(A) \in S
  <2> HIDE DEF S
  <2> QED BY <1>3, <1>4
<1> QED BY <1>5

\* SweepCommittedTransactions stops at a transaction that committed at or
\* above the bound.
LEMMA SweptStopsAtBound ==
  ASSUME NEW committed \in Seq(Txn), NEW id \in [Txn -> Nat], NEW bound \in Nat,
         SweptCount(committed, id, bound) < Len(committed)
  PROVE  id[committed[SweptCount(committed, id, bound) + 1]] >= bound
<1> DEFINE kept == {i \in DOMAIN committed : id[committed[i]] >= bound}
<1>0. DOMAIN committed = 1 .. Len(committed) /\ Len(committed) \in Nat
  OBVIOUS
<1>1. kept # {}
  BY <1>0 DEF SweptCount
<1>2. kept \in SUBSET Nat
  BY <1>0
<1>3. \E i \in kept : \A j \in kept : i <= j
  <2> HIDE DEF kept
  <2> QED BY <1>1, <1>2, LeastExists
<1> DEFINE k == CHOOSE i \in kept : \A j \in kept : i <= j
<1>4. k \in kept
  <2> HIDE DEF kept
  <2> QED BY <1>3
<1>5. SweptCount(committed, id, bound) = k - 1
  BY <1>1 DEF SweptCount
<1>6. k \in Nat /\ id[committed[k]] >= bound
  BY <1>2, <1>4
<1>7. (k - 1) + 1 = k
  <2> HIDE DEF k
  <2> QED BY <1>6
<1> QED BY <1>5, <1>6, <1>7

\* What is appended to a non-empty queue does not reach its front.
LEMMA HeadOfAppend ==
  ASSUME NEW S, NEW q \in Seq(S), NEW e, q # <<>>
  PROVE  Append(q, e) # <<>> /\ Head(Append(q, e)) = Head(q)
<1>1. Len(q) \in Nat /\ Len(q) > 0
  OBVIOUS
<1>2. Append(q, e)[1] = q[1] /\ Len(Append(q, e)) = Len(q) + 1
  BY <1>1
<1>3. Append(q, e) # <<>>
  BY <1>1, <1>2
<1> QED BY <1>2, <1>3

-----------------------------------------------------------------------------
(* What RemoveTransaction does, in terms of the places of a transaction.   *)

\* t leaves the active transactions; those that no active snapshot precedes
\* any more go from the kept to the queued ones, and t itself to one of both
\* if it made changes.
Removed(t, store) ==
  LET stays == store /\ commit_id'[t] # 0
      left(u) == (IsKept(u) \/ (u = t /\ stays)) /\ ~IsKept(u)'
  IN  /\ active_transactions' = active_transactions \ {t}
      /\ \A u \in Txn :
           /\ IsKept(u)' => IsKept(u) \/ (u = t /\ stays)
           /\ IsQueued(u)' <=> \/ IsQueued(u)
                               \/ left(u)
                               \/ u = t /\ ChangesMade(t) /\ ~IsKept(t)'
           /\ u \in awaiting_cleanup' <=>
                \/ u \in awaiting_cleanup
                \/ left(u)
                \/ u = t /\ ChangesMade(t) /\ ~store
           /\ left(u) => \A a \in active_transactions' : ~(start_time[a] <= commit_id'[u])
           /\ active_transactions' = {} => ~IsKept(u)'
      /\ \A i, j \in DOMAIN recently_committed_transactions' :
           recently_committed_transactions'[i] = recently_committed_transactions'[j]
             => i = j
      /\ active_transactions' # {} =>
           \E a \in active_transactions' : start_time[a] = lowest_visibility_bound'
      /\ recently_committed_transactions' # <<>> =>
           /\ active_transactions' # {}
           /\ lowest_visibility_bound' <= commit_id'[Head(recently_committed_transactions')]
      /\ cleanup_queue # <<>> => /\ cleanup_queue' # <<>>
                                 /\ Head(cleanup_queue') = Head(cleanup_queue)

\* RemoveTransaction does this to a transaction that is running.
LEMMA RemovalEffects ==
  ASSUME NEW t \in Txn, NEW store \in BOOLEAN,
         CleanupTypes, PlacesApart, t \in active_transactions, ~IsKept(t),
         cleanup_queue \in Seq([transactions : Seq(Txn), bound : Timestamp]),
         commit_id' \in [Txn -> Nat],
         \A u \in Txn : commit_id'[u] < TRANSACTION_ID_START,
         RemoveTransaction(t, store, commit_id')
  PROVE  Removed(t, store)
<1> DEFINE old   == recently_committed_transactions
           rest  == active_transactions \ {t}
           bound == LowestBoundOf(rest)
           stays == store /\ commit_id'[t] # 0
           all   == IF stays THEN Append(old, t) ELSE old
           n     == SweptCount(all, commit_id', bound)
           own   == IF ChangesMade(t) /\ ~stays THEN <<t>> ELSE <<>>
           swept == SubSeq(all, 1, n)
           left(u) == (IsKept(u) \/ (u = t /\ stays)) /\ ~IsKept(u)'
<1>0. /\ old \in Seq(Txn) /\ rest \in SUBSET Txn /\ start_time \in [Txn -> Nat]
      /\ TRANSACTION_ID_START \in Nat
  BY ConstantsAssumption DEF CleanupTypes
<1>1. /\ bound \in Nat
      /\ \A a \in rest : bound <= start_time[a]
  BY <1>0, LowestBoundIsLower
<1>2. /\ all \in Seq(Txn) /\ Len(all) \in Nat
      /\ \A i \in 1 .. Len(all) : all[i] \in Txn
  BY <1>0, SMTT(20)
<1>3. /\ n \in 0 .. Len(all)
      /\ \A i \in 1 .. n : commit_id'[all[i]] < bound
      /\ n < Len(all) => commit_id'[all[n + 1]] >= bound
  <2> HIDE DEF all, bound
  <2> QED BY <1>1, <1>2, SweptBelowBound, SweptStopsAtBound
<1>4. \A u \in Txn : (\E i \in 1 .. Len(all) : all[i] = u) <=> IsKept(u) \/ (u = t /\ stays)
  <2>1. CASE stays
    <3>1. /\ Len(all) = Len(old) + 1 /\ all[Len(old) + 1] = t
          /\ \A i \in 1 .. Len(old) : all[i] = old[i]
      BY <1>0, <2>1
    <3>2. DOMAIN old = 1 .. Len(old) /\ Len(old) \in Nat
      BY <1>0
    <3> HIDE DEF all, old
    <3>3. \A i \in 1 .. Len(all) : i \in 1 .. Len(old) \/ i = Len(old) + 1
      BY <3>1, <3>2
    <3>4. 1 .. Len(old) \subseteq 1 .. Len(all) /\ Len(old) + 1 \in 1 .. Len(all)
      BY <3>1, <3>2
    <3> QED BY <2>1, <3>1, <3>2, <3>3, <3>4, SMTT(20) DEF IsKept, old
  <2>2. CASE ~stays
    BY <1>0, <2>2, SMTT(20) DEF IsKept
  <2> QED BY <2>1, <2>2
<1>5. \A i, j \in 1 .. Len(all) : all[i] = all[j] => i = j
  <2>1. \A i, j \in 1 .. Len(old) : old[i] = old[j] => i = j
    BY SMTT(40), <1>0 DEF PlacesApart
  <2>2. \A i \in 1 .. Len(old) : old[i] # t
    BY <1>0 DEF IsKept
  <2>3. CASE stays
    <3>1. /\ Len(all) = Len(old) + 1 /\ all[Len(old) + 1] = t
          /\ \A i \in 1 .. Len(old) : all[i] = old[i]
      BY <1>0, <2>3
    <3>2. Len(old) \in Nat
      BY <1>0
    <3> HIDE DEF all, old
    <3>3. \A i \in 1 .. Len(all) : i \in 1 .. Len(old) \/ i = Len(old) + 1
      BY <3>1, <3>2
    <3> QED BY <2>1, <2>2, <3>1, <3>3
  <2>4. CASE ~stays
    BY <2>1, <2>4
  <2> QED BY <2>3, <2>4
<1>6. /\ active_transactions' = rest
      /\ lowest_visibility_bound' = bound
      /\ recently_committed_transactions' = SubSeq(all, n + 1, Len(all))
      /\ awaiting_cleanup' = awaiting_cleanup \union ToSet(swept)
                             \union (IF store THEN {} ELSE ToSet(own))
      /\ cleanup_queue' = IF own \o swept = <<>> THEN cleanup_queue
                          ELSE Append(cleanup_queue,
                                      [transactions |-> own \o swept, bound |-> bound])
  BY DEF RemoveTransaction, Remember
<1> HIDE DEF all, n, bound
<1>7. n \in Nat /\ n <= Len(all)
  BY <1>2, <1>3
<1>8. /\ recently_committed_transactions' \in Seq(Txn)
      /\ Len(recently_committed_transactions') = Len(all) - n
      /\ DOMAIN recently_committed_transactions' = 1 .. Len(all) - n
      /\ \A i \in 1 .. Len(all) - n : recently_committed_transactions'[i] = all[n + i]
  <2> DEFINE kept == SubSeq(all, n + 1, Len(all))
  <2>1. /\ kept \in Seq(Txn) /\ Len(kept) = Len(all) - n
        /\ \A i \in 1 .. Len(all) - n : kept[i] = all[n + i]
    BY <1>2, <1>7, SMTT(20)
  <2> HIDE DEF kept
  <2>2. DOMAIN kept = 1 .. Len(kept)
    BY <2>1
  <2> QED BY <1>6, <2>1, <2>2 DEF kept
<1>9. /\ swept \in Seq(Txn) /\ Len(swept) = n /\ DOMAIN swept = 1 .. n
      /\ \A i \in 1 .. n : swept[i] = all[i]
  BY <1>2, <1>7
<1>10. \A u \in Txn : IsKept(u)' <=> \E i \in 1 .. Len(all) : n < i /\ all[i] = u
  <2>1. \A i \in 1 .. Len(all) : n < i => i - n \in 1 .. Len(all) - n /\ n + (i - n) = i
    BY <1>2, <1>7
  <2>2. \A i \in 1 .. Len(all) - n : n + i \in 1 .. Len(all) /\ n < n + i
    BY <1>2, <1>7
  <2> QED BY <1>8, <2>1, <2>2 DEF IsKept
<1>11. \A u \in Txn : left(u) <=> \E i \in 1 .. n : all[i] = u
  <2>1. \A i \in 1 .. n : i \in 1 .. Len(all) /\ ~(n < i)
    BY <1>2, <1>7
  <2>2. \A i \in 1 .. Len(all) : i \in 1 .. n \/ n < i
    BY <1>2, <1>7
  <2> QED BY <1>4, <1>5, <1>10, <2>1, <2>2
<1>12. \A u \in Txn : u \in ToSet(swept) <=> left(u)
  <2>1. \A u \in Txn : u \in ToSet(swept) <=> \E i \in 1 .. n : swept[i] = u
    <3> HIDE DEF swept
    <3> QED BY <1>9 DEF ToSet
  <2>2. \A u \in Txn : u \in ToSet(swept) <=> \E i \in 1 .. n : all[i] = u
    <3> HIDE DEF swept
    <3> QED BY <1>9, <2>1
  <2> HIDE DEF swept, left
  <2> QED BY <1>11, <2>2, Zenon
<1>13. \A u \in Txn : u \in ToSet(own) <=> u = t /\ ChangesMade(t) /\ ~stays
  BY DEF ToSet
<1>14. \A u \in Txn : u \in awaiting_cleanup' <=>
         u \in awaiting_cleanup \/ left(u) \/ (u = t /\ ChangesMade(t) /\ ~store)
  BY <1>6, <1>12, <1>13
<1>15. own \in Seq(Txn) /\ own \o swept \in Seq(Txn)
  BY <1>9
<1>16. \A u \in Txn : (\E j \in DOMAIN (own \o swept) : (own \o swept)[j] = u) <=>
                      u \in ToSet(own) \/ u \in ToSet(swept)
  <2> DEFINE both == own \o swept
  <2>1. /\ DOMAIN own = 1 .. Len(own) /\ Len(own) \in Nat
        /\ Len(both) = Len(own) + n /\ DOMAIN both = 1 .. Len(own) + n
        /\ \A j \in 1 .. Len(own) : both[j] = own[j]
        /\ \A j \in 1 .. n : both[Len(own) + j] = swept[j]
    <3> HIDE DEF own, swept
    <3>1. both \in Seq(Txn) /\ Len(both) = Len(own) + n /\ Len(own) \in Nat
      <4>1. own \in Seq(Txn) /\ swept \in Seq(Txn) /\ Len(swept) = n
        BY <1>9, <1>15
      <4>2. both \in Seq(Txn) /\ Len(both) = Len(own) + Len(swept)
        BY <4>1, ConcatProperties, Zenon
      <4>3. Len(own) \in Nat
        BY <4>1
      <4> QED BY <4>1, <4>2, <4>3
    <3>2. \A j \in 1 .. Len(own) + n :
            both[j] = IF j <= Len(own) THEN own[j] ELSE swept[j - Len(own)]
      BY <1>9, <1>15, ConcatProperties
    <3>3. DOMAIN own = 1 .. Len(own) /\ DOMAIN both = 1 .. Len(both)
      BY <1>15, <3>1
    <3> HIDE DEF both
    <3>4. ASSUME NEW j \in 1 .. Len(own) PROVE both[j] = own[j]
      BY <1>7, <3>1, <3>2
    <3>5. ASSUME NEW j \in 1 .. n PROVE both[Len(own) + j] = swept[j]
      <4>1. /\ Len(own) + j \in 1 .. Len(own) + n
            /\ ~(Len(own) + j <= Len(own)) /\ (Len(own) + j) - Len(own) = j
        BY <1>7, <3>1
      <4> QED BY <3>2, <4>1
    <3> QED BY <3>1, <3>3, <3>4, <3>5
  <2> HIDE DEF both, own, swept
  <2>2. \A j \in DOMAIN both : j \in 1 .. Len(own) \/ (j - Len(own) \in 1 .. n /\ Len(own) + (j - Len(own)) = j)
    BY <1>7, <2>1
  <2>3. /\ 1 .. Len(own) \subseteq DOMAIN both
        /\ \A j \in 1 .. n : Len(own) + j \in DOMAIN both
    BY <1>7, <2>1
  <2>4. \A u \in Txn : (\E j \in DOMAIN both : both[j] = u) <=>
          (\E j \in 1 .. Len(own) : own[j] = u) \/ (\E j \in 1 .. n : swept[j] = u)
    <3>1. ASSUME NEW u \in Txn, NEW j \in DOMAIN both, both[j] = u
          PROVE  (\E i \in 1 .. Len(own) : own[i] = u) \/ (\E i \in 1 .. n : swept[i] = u)
      <4>1. CASE j \in 1 .. Len(own)
        BY <2>1, <3>1, <4>1
      <4>2. CASE j - Len(own) \in 1 .. n /\ Len(own) + (j - Len(own)) = j
        <5>1. both[Len(own) + (j - Len(own))] = swept[j - Len(own)]
          BY <2>1, <4>2
        <5> QED BY <3>1, <4>2, <5>1
      <4> QED BY <2>2, <4>1, <4>2
    <3>2. ASSUME NEW u \in Txn, NEW j \in 1 .. Len(own), own[j] = u
          PROVE  \E i \in DOMAIN both : both[i] = u
      BY <2>1, <2>3, <3>2
    <3>3. ASSUME NEW u \in Txn, NEW j \in 1 .. n, swept[j] = u
          PROVE  \E i \in DOMAIN both : both[i] = u
      BY <2>1, <2>3, <3>3
    <3> QED BY <3>1, <3>2, <3>3, Zenon
  <2>5. \A u \in Txn : u \in ToSet(own) <=> \E j \in 1 .. Len(own) : own[j] = u
    BY <2>1 DEF ToSet
  <2>6. \A u \in Txn : u \in ToSet(swept) <=> \E j \in 1 .. n : swept[j] = u
    BY <1>9 DEF ToSet
  <2>7. \A u \in Txn : (\E j \in DOMAIN both : both[j] = u) <=>
                        u \in ToSet(own) \/ u \in ToSet(swept)
    BY <2>4, <2>5, <2>6, Zenon
  <2> QED BY <2>7, Zenon DEF both
<1>17. \A u \in Txn : IsQueued(u)' <=> \/ IsQueued(u)
                                       \/ u \in ToSet(own) \/ u \in ToSet(swept)
  <2>1. CASE own \o swept = <<>>
    <3>1. \A u \in Txn : u \notin ToSet(own) /\ u \notin ToSet(swept)
      <4> HIDE DEF own, swept
      <4> QED BY <1>16, <2>1
    <3>2. cleanup_queue' = cleanup_queue
      BY <1>6, <2>1
    <3> HIDE DEF own, swept
    <3> QED BY <3>1, <3>2 DEF IsQueued
  <2>2. CASE own \o swept # <<>>
    <3> DEFINE e == [transactions |-> own \o swept, bound |-> bound]
               q == cleanup_queue
    <3>1. q' = Append(q, e) /\ e.transactions = own \o swept
      BY <1>6, <2>2
    <3> HIDE DEF e, own, swept
    <3>2. /\ Len(q) \in Nat /\ DOMAIN q = 1 .. Len(q)
          /\ DOMAIN q' = 1 .. Len(q) + 1
          /\ q'[Len(q) + 1] = e /\ \A i \in 1 .. Len(q) : q'[i] = q[i]
      BY <3>1
    <3>3. \A i \in 1 .. Len(q) + 1 : i \in 1 .. Len(q) \/ i = Len(q) + 1
      BY <3>2
    <3>4. 1 .. Len(q) \subseteq 1 .. Len(q) + 1 /\ Len(q) + 1 \in 1 .. Len(q) + 1
      BY <3>2
    <3>5. \A u \in Txn : IsQueued(u)' <=>
            IsQueued(u) \/ (\E j \in DOMAIN e.transactions : e.transactions[j] = u)
      BY <3>2, <3>3, <3>4 DEF IsQueued
    <3> QED BY <1>16, <3>1, <3>5
  <2> QED BY <2>1, <2>2
<1>18. cleanup_queue # <<>> => /\ cleanup_queue' # <<>>
                              /\ Head(cleanup_queue') = Head(cleanup_queue)
  <2>1. CASE own \o swept = <<>>
    BY <1>6, <2>1
  <2>2. CASE own \o swept # <<>>
    <3> DEFINE e == [transactions |-> own \o swept, bound |-> bound]
    <3>1. cleanup_queue' = Append(cleanup_queue, e)
      BY <1>6, <2>2
    <3> HIDE DEF e
    <3> QED BY <3>1, HeadOfAppend
  <2> QED BY <2>1, <2>2
<1>19. ASSUME NEW u \in Txn, left(u), NEW a \in rest
       PROVE  ~(start_time[a] <= commit_id'[u])
  <2>1. commit_id'[u] < bound /\ commit_id'[u] \in Nat
    BY <1>3, <1>11, <1>19
  <2>2. bound <= start_time[a] /\ start_time[a] \in Nat
    BY <1>0, <1>1
  <2> QED BY <1>1, <2>1, <2>2
<1>20. rest = {} => n = Len(all)
  <2> SUFFICES ASSUME rest = {}, n # Len(all) PROVE FALSE
    OBVIOUS
  <2>1. bound = TRANSACTION_ID_START
    BY DEF bound, LowestBoundOf, AllCommitted
  <2>2. n + 1 \in 1 .. Len(all) /\ commit_id'[all[n + 1]] >= bound
    BY <1>2, <1>3, <1>7
  <2>3. all[n + 1] \in Txn
    BY <1>2, <2>2
  <2> QED BY <1>0, <2>1, <2>2, <2>3
<1>21. rest = {} => \A u \in Txn : ~IsKept(u)'
  BY <1>2, <1>7, <1>10, <1>20
<1>22. \A i, j \in DOMAIN recently_committed_transactions' :
         recently_committed_transactions'[i] = recently_committed_transactions'[j] => i = j
  <2>1. \A i \in 1 .. Len(all) - n : n + i \in 1 .. Len(all)
    BY <1>2, <1>7
  <2>2. \A i, j \in 1 .. Len(all) - n : n + i = n + j => i = j
    BY <1>2, <1>7
  <2> SUFFICES ASSUME NEW i \in 1 .. Len(all) - n, NEW j \in 1 .. Len(all) - n,
                      all[n + i] = all[n + j]
               PROVE  i = j
    BY <1>8
  <2>3. n + i = n + j
    BY <1>5, <2>1
  <2> QED BY <2>2, <2>3
<1>23. rest # {} => \E a \in rest : start_time[a] = lowest_visibility_bound'
  BY <1>0, <1>6, LowestBoundAttained DEF bound
<1>24. recently_committed_transactions' # <<>> =>
         /\ rest # {}
         /\ lowest_visibility_bound' <= commit_id'[Head(recently_committed_transactions')]
  <2> SUFFICES ASSUME recently_committed_transactions' # <<>>
               PROVE  /\ rest # {}
                      /\ bound <= commit_id'[Head(recently_committed_transactions')]
    BY <1>6
  <2>1. n < Len(all)
    BY <1>2, <1>7, <1>8
  <2>2. Head(recently_committed_transactions') = all[n + 1]
    BY <1>2, <1>7, <1>8, <2>1
  <2>3. all[n + 1] \in Txn
    BY <1>2, <1>7, <2>1
  <2> QED BY <1>1, <1>2, <1>3, <1>20, <2>1, <2>2, <2>3
<1>25. \A u \in Txn : IsKept(u)' => IsKept(u) \/ (u = t /\ stays)
  BY <1>4, <1>10
<1>26. \A u \in Txn : IsQueued(u)' <=> \/ IsQueued(u)
                                       \/ left(u)
                                       \/ u = t /\ ChangesMade(t) /\ ~IsKept(t)'
  <2>1. IsKept(t)' => stays
    BY <1>25
  <2> QED BY <1>12, <1>13, <1>17, <2>1
<1> QED BY <1>6, <1>14, <1>18, <1>19, <1>21, <1>22, <1>23, <1>24, <1>25, <1>26 DEF Removed

-----------------------------------------------------------------------------
(* The locks.                                                              *)

DecisionSet == [can : BOOLEAN, skip : BOOLEAN, error : BOOLEAN, type : CheckpointType]

\* A step of the thread of t keeps the lock discipline if t keeps its own
\* part of it and leaves the locks of the others alone.
LEMMA LocksOfOneThread ==
  ASSUME LocksInv, NEW t \in Txn,
         pc \in [Txn -> PcValue], decision \in [Txn -> DecisionSet],
         UNCHANGED <<client, checkpoint, start_transaction_lock, vacuum_exclusive>>,
         \A u \in Txn : u # t => /\ pc'[u] = pc[u] /\ decision'[u] = decision[u]
                                 /\ changes'[u] = changes[u],
         DecisionLocal(t)',
         cleanup_lock' = t <=> pc'[t] = "cleaning",
         \A u \in Thread : u # t => (cleanup_lock' = u <=> cleanup_lock = u),
         wal_lock' = t <=> HoldsWal(t)',
         \A u \in Thread : u # t => (wal_lock' = u <=> wal_lock = u),
         t \in checkpoint_exclusive' <=> HoldsCheckpoint(t)',
         \A u \in Thread : u # t =>
           (u \in checkpoint_exclusive' <=> u \in checkpoint_exclusive),
         \A x, y \in checkpoint_exclusive' : x = y,
         \A x \in checkpoint_exclusive' : checkpoint_shared' \subseteq {x},
         pc'[t] = "checkpointing" <=> pc[t] = "checkpointing",
         t = Ckpt => (pc'[t] = "none" <=> pc[t] = "none")
  PROVE  LocksInv'
<1>0. /\ DecisionsLocal /\ MutexesHeld /\ ExclusiveHeld /\ CheckpointOwned
      /\ Txn \subseteq Thread /\ Client \in Thread /\ Client # t
  BY ConstantsAssumption DEF LocksInv, Thread, Txn
<1>1. DecisionsLocal'
  BY <1>0 DEF DecisionsLocal, DecisionLocal, ChangesMade
<1>2. MutexesHeld'
  BY <1>0 DEF MutexesHeld, HoldsWal, Ending
<1>3. ExclusiveHeld'
  BY <1>0 DEF ExclusiveHeld, HoldsCheckpoint, Ending, ClientHolds
<1>4. CheckpointOwned'
  <2>1. Ckpt \in Txn
    BY DEF Txn
  <2> QED BY <1>0, <2>1 DEF CheckpointOwned
<1> QED BY <1>1, <1>2, <1>3, <1>4 DEF LocksInv

\* The end of a commit gives back what it does not need for a checkpoint.
LEMMA FinishCommitKeepsLocks ==
  ASSUME LocksInv, NEW t \in Txn, NEW d \in DecisionSet, NEW X, Running(t),
         pc \in [Txn -> PcValue], decision \in [Txn -> DecisionSet],
         changes[Ckpt] = {},
         FinishCommit(t, d, X),
         d.skip => d.can,
         d.can => ChangesMade(t) /\ t \in X,
         ~d.error /\ d.skip => wal_lock = t,
         \A u \in Thread : u # t => (u \in X <=> u \in checkpoint_exclusive),
         \A x, y \in X : x = y,
         \A x \in X : checkpoint_shared \subseteq {x}
  PROVE  LocksInv'
<1>0. DecisionLocal(t) /\ MutexesHeld /\ t \in Thread /\ NoThread \notin Thread
  BY ConstantsAssumption DEF LocksInv, DecisionsLocal, Thread, Txn
<1> DEFINE can == ~d.error /\ d.can
           skip == can /\ d.skip
<1>1. /\ decision' = [decision EXCEPT ![t] = [d EXCEPT !.can = can, !.skip = skip,
                                                      !.error = FALSE]]
      /\ checkpoint_exclusive' = KeepCheckpointLock(t, can, X)
      /\ wal_lock' = KeepWalLock(t, skip)
      /\ pc' = [pc EXCEPT ![t] = "cleanup"]
      /\ UNCHANGED <<changes, start_transaction_lock, cleanup_lock,
                     vacuum_exclusive, client, checkpoint>>
  BY DEF FinishCommit, ckptVars
<1>2. checkpoint_shared' \subseteq checkpoint_shared
  BY DEF FinishCommit, RemoveTransaction, KeysAfterRemoval
<1>3. /\ decision'[t].can = can /\ decision'[t].skip = skip /\ pc'[t] = "cleanup"
      /\ \A u \in Txn : u # t => pc'[u] = pc[u] /\ decision'[u] = decision[u]
  BY <1>1 DEF DecisionSet
<1>4. DecisionLocal(t)'
  BY <1>1, <1>3 DEF DecisionLocal, ChangesMade
<1>5. wal_lock' = IF wal_lock = t /\ ~skip THEN NoThread ELSE wal_lock
  BY <1>1 DEF KeepWalLock
<1>6. checkpoint_exclusive' = IF can THEN X ELSE X \ {t}
  BY <1>1 DEF KeepCheckpointLock
<1>7. /\ wal_lock' = t <=> HoldsWal(t)'
      /\ t \in checkpoint_exclusive' <=> HoldsCheckpoint(t)'
  <2>1. skip => wal_lock = t
    OBVIOUS
  <2>2. HoldsWal(t)' <=> skip
    BY <1>3 DEF HoldsWal, Ending
  <2>3. HoldsCheckpoint(t)' <=> can
    BY <1>3 DEF HoldsCheckpoint, Ending
  <2> QED BY <1>0, <1>5, <1>6, <2>1, <2>2, <2>3
<1>8. pc[t] \notin {"cleaning", "checkpointing", "none"}
  BY DEF Running
<1>9. cleanup_lock' = t <=> pc'[t] = "cleaning"
  BY <1>0, <1>1, <1>3, <1>8 DEF MutexesHeld
<1>10. /\ \A u \in Thread : u # t => (cleanup_lock' = u <=> cleanup_lock = u)
       /\ \A u \in Thread : u # t => (wal_lock' = u <=> wal_lock = u)
       /\ \A u \in Thread : u # t =>
            (u \in checkpoint_exclusive' <=> u \in checkpoint_exclusive)
  BY <1>0, <1>1, <1>5, <1>6
<1>11. /\ \A x, y \in checkpoint_exclusive' : x = y
       /\ \A x \in checkpoint_exclusive' : checkpoint_shared' \subseteq {x}
  BY <1>2, <1>6
<1>12. \A u \in Txn : u # t => /\ pc'[u] = pc[u] /\ decision'[u] = decision[u]
                               /\ changes'[u] = changes[u]
  BY <1>1, <1>3
<1> QED BY <1>1, <1>3, <1>4, <1>7, <1>8, <1>9, <1>10, <1>11, <1>12, LocksOfOneThread

\* CommitTransaction, up to its first release of transaction_lock.
LEMMA CommitKeepsLocks ==
  ASSUME LocksInv, NEW t \in Txn, NEW e \in BOOLEAN, NEW a \in BOOLEAN, NEW s \in BOOLEAN,
         pc \in [Txn -> PcValue], decision \in [Txn -> DecisionSet],
         changes[Ckpt] = {}, CommitTransaction(t, e, a, s)
  PROVE  LocksInv'
<1> DEFINE can == a /\ CanTakeCheckpointLock(t)
           X   == IF can THEN {t} ELSE checkpoint_exclusive
           d   == [can |-> can, skip |-> can /\ s, error |-> e,
                   type |-> "FULL_CHECKPOINT"]
<1>0. /\ pc[t] = "active" /\ (e \/ a => ChangesMade(t)) /\ (s => can)
      /\ IF ChangesMade(t) /\ ~e
         THEN /\ pc' = [pc EXCEPT ![t] = "wal"]
              /\ decision' = [decision EXCEPT ![t] = d]
              /\ checkpoint_exclusive' = X
              /\ UNCHANGED <<listVars, clockVars, txnVars, cleanVars, mutexVars,
                             checkpoint_shared, vacuum_shared, vacuum_exclusive,
                             ckptVars>>
         ELSE FinishCommit(t, d, X)
  BY DEF CommitTransaction
<1>1. /\ DecisionLocal(t) /\ MutexesHeld /\ ExclusiveHeld /\ t \in Thread
      /\ NoThread \notin Thread
  BY ConstantsAssumption DEF LocksInv, DecisionsLocal, Thread, Txn
<1>2. ~HoldsWal(t) /\ ~HoldsCheckpoint(t) /\ decision[t] = NoDecision
  BY <1>0, <1>1 DEF DecisionLocal, HoldsWal, HoldsCheckpoint, NoDecision, Ending
<1>3. wal_lock # t /\ cleanup_lock # t /\ t \notin checkpoint_exclusive
  BY <1>0, <1>1, <1>2 DEF MutexesHeld, ExclusiveHeld
<1>4. can => checkpoint_exclusive = {} /\ checkpoint_shared \subseteq {t}
  BY DEF CanTakeCheckpointLock
<1>5. /\ \A u \in Thread : u # t => (u \in X <=> u \in checkpoint_exclusive)
      /\ \A x, y \in X : x = y
      /\ \A x \in X : checkpoint_shared \subseteq {x}
      /\ t \in X <=> can
  BY <1>1, <1>3, <1>4 DEF ExclusiveHeld
<1>6. d \in DecisionSet
  <2>1. can \in BOOLEAN /\ (can /\ s) \in BOOLEAN
    OBVIOUS
  <2> HIDE DEF can
  <2> QED BY <2>1 DEF DecisionSet, CheckpointType
<1> HIDE DEF can, X
<1>7. CASE ChangesMade(t) /\ ~e
  <2>1. /\ pc' = [pc EXCEPT ![t] = "wal"] /\ decision' = [decision EXCEPT ![t] = d]
        /\ checkpoint_exclusive' = X
        /\ UNCHANGED <<changes, cleanup_lock, wal_lock, start_transaction_lock,
                       checkpoint_shared, vacuum_exclusive, client, checkpoint>>
    BY <1>0, <1>7 DEF txnVars, mutexVars, ckptVars
  <2>2. /\ pc'[t] = "wal" /\ decision'[t] = d
        /\ \A u \in Txn : u # t => pc'[u] = pc[u] /\ decision'[u] = decision[u]
    BY <2>1
  <2>3. d.can = can /\ d.skip = (can /\ s)
    OBVIOUS
  <2> HIDE DEF d
  <2>4. DecisionLocal(t)'
    <3>1. t # Ckpt
      BY <1>7 DEF ChangesMade
    <3>2. ChangesMade(t)'
      BY <1>7, <2>1 DEF ChangesMade
    <3> QED BY <2>2, <2>3, <3>1, <3>2 DEF DecisionLocal
  <2>5. ~HoldsWal(t)' /\ (HoldsCheckpoint(t)' <=> can)
    BY <2>2, <2>3 DEF HoldsWal, HoldsCheckpoint, Ending
  <2> QED BY <1>0, <1>3, <1>5, <2>1, <2>2, <2>4, <2>5, LocksOfOneThread
<1>8. CASE ~(ChangesMade(t) /\ ~e)
  <2>1. FinishCommit(t, d, X)
    BY <1>0, <1>8
  <2>2. d.can = can /\ d.skip = (can /\ s) /\ d.error = e
    OBVIOUS
  <2>3. can => e /\ ChangesMade(t)
    BY <1>0, <1>8 DEF can
  <2> HIDE DEF d
  <2>4. Running(t)
    BY <1>0 DEF Running
  <2> QED BY <1>5, <1>6, <2>1, <2>2, <2>3, <2>4, FinishCommitKeepsLocks
<1> QED BY <1>7, <1>8

\* CommitTransaction, after it took transaction_lock again.
LEMMA RelockedCommitKeepsLocks ==
  ASSUME LocksInv, NEW t \in Txn, NEW f \in BOOLEAN,
         pc \in [Txn -> PcValue], decision \in [Txn -> DecisionSet],
         changes[Ckpt] = {}, CommitUndoBuffer(t, f) \/ CommitBackpedalled(t, f)
  PROVE  LocksInv'
<1> DEFINE d == decision[t]
<1>0. /\ DecisionLocal(t) /\ MutexesHeld /\ ExclusiveHeld /\ d \in DecisionSet
      /\ pc[t] \in {"relock", "backpedalled"}
  BY DEF LocksInv, DecisionsLocal, CommitUndoBuffer, CommitBackpedalled
<1>1. Running(t) /\ ChangesMade(t) /\ wal_lock = t
  BY <1>0 DEF Running, DecisionLocal, MutexesHeld, HoldsWal
<1>2. d.can => t \in checkpoint_exclusive
  BY <1>0 DEF ExclusiveHeld, HoldsCheckpoint, DecisionLocal
<1>3. /\ \A x, y \in checkpoint_exclusive : x = y
      /\ \A x \in checkpoint_exclusive : checkpoint_shared \subseteq {x}
      /\ d.skip => d.can
  BY <1>0 DEF ExclusiveHeld, DecisionLocal
<1>4. \E e \in DecisionSet : /\ FinishCommit(t, e, checkpoint_exclusive)
                             /\ e.can => d.can
                             /\ e.skip => e.can
  <2>1. CASE CommitUndoBuffer(t, f)
    <3> DEFINE type == GetCheckpointType(t)
               e == [d EXCEPT !.error = d.error \/ f]
    <3>1. e \in DecisionSet /\ e.can = d.can /\ e.skip = d.skip
      BY <1>0 DEF DecisionSet
    <3> HIDE DEF e
    <3>2. CASE ~d.error /\ d.can /\ type = "none"
      <4>1. ~d.skip /\ FinishCommit(t, [e EXCEPT !.can = FALSE], checkpoint_exclusive)
        BY <2>1, <3>2 DEF CommitUndoBuffer, e
      <4>2. /\ [e EXCEPT !.can = FALSE] \in DecisionSet
            /\ ~[e EXCEPT !.can = FALSE].can
            /\ [e EXCEPT !.can = FALSE].skip = d.skip
        BY <3>1 DEF DecisionSet
      <4> QED BY <4>1, <4>2
    <3>3. CASE ~d.error /\ d.can /\ type # "none"
      <4>1. FinishCommit(t, [e EXCEPT !.type = type], checkpoint_exclusive)
        BY <2>1, <3>3 DEF CommitUndoBuffer, e
      <4>2. type \in CheckpointType
        BY <3>3 DEF GetCheckpointType, CheckpointType
      <4>3. /\ [e EXCEPT !.type = type] \in DecisionSet
            /\ [e EXCEPT !.type = type].can = d.can
            /\ [e EXCEPT !.type = type].skip = d.skip
        <5> HIDE DEF type
        <5> QED BY <3>1, <4>2 DEF DecisionSet
      <4> QED BY <1>3, <4>1, <4>3
    <3>4. CASE ~(~d.error /\ d.can)
      <4>1. FinishCommit(t, e, checkpoint_exclusive)
        BY <2>1, <3>4 DEF CommitUndoBuffer, e
      <4> QED BY <1>3, <3>1, <4>1
    <3> QED BY <3>2, <3>3, <3>4
  <2>2. CASE CommitBackpedalled(t, f)
    <3> DEFINE e == [d EXCEPT !.error = @ \/ f]
    <3>1. e \in DecisionSet /\ e.can = d.can /\ e.skip = d.skip
      BY <1>0 DEF DecisionSet
    <3>2. FinishCommit(t, e, checkpoint_exclusive)
      BY <2>2 DEF CommitBackpedalled
    <3> QED BY <1>3, <3>1, <3>2
  <2> QED BY <2>1, <2>2
<1> QED BY <1>1, <1>2, <1>3, <1>4, FinishCommitKeepsLocks

\* The steps of a transaction's thread that are not commits.
LEMMA OtherTxnStepsKeepLocks ==
  ASSUME LocksInv, NEW t \in Txn,
         pc \in [Txn -> PcValue], decision \in [Txn -> DecisionSet],
         changes \in [Txn -> SUBSET Kind], changes[Ckpt] = {},
         \/ StartTransaction(t)
         \/ \E k \in Kind, made \in BOOLEAN : SetModifications(t, k, made)
         \/ \E f \in BOOLEAN : WriteToWAL(t, f) \/ Backpedal(t, f)
         \/ RollbackTransaction(t)
         \/ TakeCleanupLock(t) \/ CleanupEntry(t) \/ CleanupThrows(t)
         \/ PopCleanup(t) \/ CleanupDone(t)
  PROVE  LocksInv'
<1>0. /\ DecisionLocal(t) /\ MutexesHeld /\ ExclusiveHeld /\ t \in Thread
      /\ NoThread \notin Thread /\ decision[t] \in DecisionSet
  BY ConstantsAssumption DEF LocksInv, DecisionsLocal, Thread, Txn
<1>1. /\ cleanup_lock = t <=> pc[t] = "cleaning"
      /\ wal_lock = t <=> HoldsWal(t)
      /\ t \in checkpoint_exclusive <=> HoldsCheckpoint(t)
      /\ \A x, y \in checkpoint_exclusive : x = y
      /\ \A x \in checkpoint_exclusive : checkpoint_shared \subseteq {x}
  BY <1>0 DEF MutexesHeld, ExclusiveHeld
<1>2. CASE StartTransaction(t)
  <2>1. /\ pc[t] = "none" /\ t # Ckpt /\ pc' = [pc EXCEPT ![t] = "active"]
        /\ UNCHANGED <<changes, decision, mutexVars, storageLockVars, ckptVars>>
    BY <1>2, ConstantsAssumption DEF StartTransaction, Begin
  <2>2. pc'[t] = "active" /\ \A u \in Txn : u # t => pc'[u] = pc[u]
    BY <2>1
  <2>3. DecisionLocal(t)' /\ (HoldsWal(t)' <=> HoldsWal(t))
        /\ (HoldsCheckpoint(t)' <=> HoldsCheckpoint(t))
    BY <1>0, <2>1, <2>2 DEF DecisionLocal, HoldsWal, HoldsCheckpoint, Ending, NoDecision
  <2> QED BY <1>1, <2>1, <2>2, <2>3, LocksOfOneThread
          DEF mutexVars, storageLockVars, ckptVars
<1>3. ASSUME NEW k \in Kind, NEW made \in BOOLEAN, SetModifications(t, k, made)
      PROVE  LocksInv'
  <2>1. /\ pc[t] = "active" /\ t # Ckpt
        /\ checkpoint_shared' = checkpoint_shared
           \/ (checkpoint_shared' = checkpoint_shared \union {t}
               /\ (t \in checkpoint_shared \/ checkpoint_exclusive = {}))
        /\ changes' = IF made THEN [changes EXCEPT ![t] = @ \union {k}] ELSE changes
        /\ UNCHANGED <<mutexVars, checkpoint_exclusive, vacuum_exclusive, ckptVars,
                       pc, decision>>
    BY <1>3, ConstantsAssumption DEF SetModifications
  <2>2. \A u \in Txn : u # t => changes'[u] = changes[u]
    BY <2>1
  <2>3. DecisionLocal(t)' /\ (HoldsWal(t)' <=> HoldsWal(t))
        /\ (HoldsCheckpoint(t)' <=> HoldsCheckpoint(t))
    BY <1>0, <2>1 DEF DecisionLocal, HoldsWal, HoldsCheckpoint, Ending
  <2>4. \A x \in checkpoint_exclusive' : checkpoint_shared' \subseteq {x}
    BY <1>1, <2>1
  <2> QED BY <1>1, <2>1, <2>2, <2>3, <2>4, LocksOfOneThread DEF mutexVars, ckptVars
<1>4. ASSUME NEW f \in BOOLEAN, WriteToWAL(t, f) PROVE LocksInv'
  <2>1. /\ pc[t] = "wal" /\ wal_lock = NoThread /\ wal_lock' = t
        /\ decision' = [decision EXCEPT ![t].error = f]
        /\ pc' = [pc EXCEPT ![t] = "relock"]
        /\ UNCHANGED <<changes, start_transaction_lock, cleanup_lock, storageLockVars,
                       ckptVars>>
    BY <1>4 DEF WriteToWAL, txnVars
  <2>2. /\ pc'[t] = "relock" /\ decision'[t].can = decision[t].can
        /\ decision'[t].skip = decision[t].skip
        /\ \A u \in Txn : u # t => pc'[u] = pc[u] /\ decision'[u] = decision[u]
    BY <1>0, <2>1 DEF DecisionSet
  <2>3. DecisionLocal(t)' /\ HoldsWal(t)' /\ (HoldsCheckpoint(t)' <=> HoldsCheckpoint(t))
    BY <1>0, <2>1, <2>2
       DEF DecisionLocal, HoldsWal, HoldsCheckpoint, Ending, ChangesMade
  <2> QED BY <1>0, <1>1, <2>1, <2>2, <2>3, LocksOfOneThread DEF storageLockVars, ckptVars
<1>5. ASSUME NEW f \in BOOLEAN, Backpedal(t, f) PROVE LocksInv'
  <2>1. /\ pc[t] = "relock" /\ decision[t].can
        /\ decision' = [decision EXCEPT ![t].can = FALSE, ![t].skip = FALSE,
                                        ![t].error = f]
        /\ pc' = [pc EXCEPT ![t] = "backpedalled"]
        /\ UNCHANGED <<changes, mutexVars, storageLockVars, ckptVars>>
    BY <1>5 DEF Backpedal, txnVars
  <2>2. /\ pc'[t] = "backpedalled" /\ ~decision'[t].can /\ ~decision'[t].skip
        /\ \A u \in Txn : u # t => pc'[u] = pc[u] /\ decision'[u] = decision[u]
    BY <1>0, <2>1 DEF DecisionSet
  <2>3. /\ DecisionLocal(t)' /\ HoldsWal(t)' /\ HoldsWal(t)
        /\ HoldsCheckpoint(t)' /\ HoldsCheckpoint(t)
    BY <1>0, <2>1, <2>2
       DEF DecisionLocal, HoldsWal, HoldsCheckpoint, Ending, ChangesMade
  <2> QED BY <1>0, <1>1, <2>1, <2>2, <2>3, LocksOfOneThread
          DEF mutexVars, storageLockVars, ckptVars
<1>6. CASE RollbackTransaction(t)
  <2>1. /\ pc[t] = "active" /\ t # Ckpt /\ pc' = [pc EXCEPT ![t] = "cleanup"]
        /\ checkpoint_shared' \subseteq checkpoint_shared
        /\ UNCHANGED <<changes, mutexVars, checkpoint_exclusive, vacuum_exclusive,
                       ckptVars, decision>>
    BY <1>6 DEF RollbackTransaction, RemoveTransaction, KeysAfterRemoval, txnVars
  <2>2. pc'[t] = "cleanup" /\ \A u \in Txn : u # t => pc'[u] = pc[u]
    BY <2>1
  <2>3. DecisionLocal(t)' /\ (HoldsWal(t)' <=> HoldsWal(t))
        /\ (HoldsCheckpoint(t)' <=> HoldsCheckpoint(t))
    BY <1>0, <2>1, <2>2 DEF DecisionLocal, HoldsWal, HoldsCheckpoint, Ending, NoDecision
  <2> QED BY <1>1, <2>1, <2>2, <2>3, LocksOfOneThread DEF mutexVars, ckptVars
<1>7. CASE TakeCleanupLock(t)
  <2>1. /\ pc[t] = "cleanup" /\ cleanup_lock = NoThread /\ cleanup_lock' = t
        /\ pc' = [pc EXCEPT ![t] = "cleaning"]
        /\ UNCHANGED <<changes, start_transaction_lock, wal_lock, storageLockVars,
                       ckptVars, decision>>
    BY <1>7 DEF TakeCleanupLock, txnVars
  <2>2. pc'[t] = "cleaning" /\ \A u \in Txn : u # t => pc'[u] = pc[u]
    BY <2>1
  <2>3. DecisionLocal(t)' /\ (HoldsWal(t)' <=> HoldsWal(t))
        /\ (HoldsCheckpoint(t)' <=> HoldsCheckpoint(t))
    BY <1>0, <2>1, <2>2 DEF DecisionLocal, HoldsWal, HoldsCheckpoint, Ending
  <2> QED BY <1>0, <1>1, <2>1, <2>2, <2>3, LocksOfOneThread DEF storageLockVars, ckptVars
<1>8. CASE CleanupEntry(t) \/ PopCleanup(t)
  <2>1. /\ checkpoint_shared' \subseteq checkpoint_shared
        /\ UNCHANGED <<changes, mutexVars, checkpoint_exclusive, vacuum_exclusive,
                       ckptVars, decision, pc>>
    BY <1>8 DEF CleanupEntry, PopCleanup, txnVars, storageLockVars
  <2>2. DecisionLocal(t)' /\ (HoldsWal(t)' <=> HoldsWal(t))
        /\ (HoldsCheckpoint(t)' <=> HoldsCheckpoint(t))
    BY <1>0, <2>1 DEF DecisionLocal, HoldsWal, HoldsCheckpoint, Ending, ChangesMade
  <2> QED BY <1>1, <2>1, <2>2, LocksOfOneThread DEF mutexVars, ckptVars
<1>9. CASE CleanupThrows(t) \/ CleanupDone(t)
  <2>1. /\ pc[t] = "cleaning" /\ cleanup_lock' = NoThread
        /\ decision' = [decision EXCEPT ![t] = IF @.can THEN @ ELSE NoDecision]
        /\ pc' = [pc EXCEPT ![t] = IF decision[t].can THEN "checkpoint" ELSE "done"]
        /\ UNCHANGED <<changes, start_transaction_lock, wal_lock, storageLockVars,
                       ckptVars>>
    BY <1>9 DEF CleanupThrows, CleanupDone, LeaveCleanup, txnVars
  <2>2. /\ decision'[t] = IF decision[t].can THEN decision[t] ELSE NoDecision
        /\ pc'[t] = IF decision[t].can THEN "checkpoint" ELSE "done"
        /\ \A u \in Txn : u # t => pc'[u] = pc[u] /\ decision'[u] = decision[u]
    BY <2>1
  <2>3. DecisionLocal(t)' /\ (HoldsWal(t)' <=> HoldsWal(t))
        /\ (HoldsCheckpoint(t)' <=> HoldsCheckpoint(t))
    BY <1>0, <2>1, <2>2
       DEF DecisionLocal, HoldsWal, HoldsCheckpoint, Ending, NoDecision
  <2> QED BY <1>0, <1>1, <2>1, <2>2, <2>3, LocksOfOneThread DEF storageLockVars, ckptVars
<1> QED BY <1>2, <1>3, <1>4, <1>5, <1>6, <1>7, <1>8, <1>9

\* CreateCheckpoint is called by the only holder of the exclusive lock, so no
\* other checkpoint is running.
LEMMA CreateCheckpointKeepsLocks ==
  ASSUME LocksInv, TypeOK, changes[Ckpt] = {},
         \/ \E t \in Txn : AutomaticCheckpoint(t)
         \/ \E r \in BOOLEAN : ClientCheckpoint(r)
  PROVE  LocksInv'
<1>0. /\ DecisionsLocal /\ MutexesHeld /\ ExclusiveHeld /\ CheckpointOwned
      /\ pc \in [Txn -> PcValue] /\ Ckpt \in Txn /\ Client \notin Txn
      /\ NoThread \notin Thread /\ Thread = Txn \union {Client}
      /\ checkpoint.owner \in Thread \union {NoThread}
  BY ConstantsAssumption DEF LocksInv, TypeOK, Txn, Thread
<1>1. ASSUME NEW t \in Txn, AutomaticCheckpoint(t) PROVE LocksInv'
  <2>1. /\ pc[t] = "checkpoint" /\ pc' = [pc EXCEPT ![t] = "checkpointing"]
        /\ vacuum_exclusive' = {t} \/ vacuum_exclusive' = vacuum_exclusive
        /\ checkpoint'.owner = t /\ checkpoint'.phase = "starting"
        /\ UNCHANGED <<changes, mutexVars, checkpoint_shared, checkpoint_exclusive,
                       decision, client>>
    BY <1>1 DEF AutomaticCheckpoint, CreateCheckpoint, txnVars
  <2>2. pc'[t] = "checkpointing" /\ \A u \in Txn : u # t => pc'[u] = pc[u]
    BY <1>0, <2>1
  <2>3. decision[t].can /\ t \in checkpoint_exclusive /\ t # Ckpt
    BY <1>0, <2>1 DEF DecisionsLocal, DecisionLocal, ExclusiveHeld, HoldsCheckpoint, Ending
  <2>4. checkpoint.owner = NoThread
    <3>1. ASSUME NEW u \in Txn PROVE checkpoint.owner # u
      <4>1. CASE pc[u] = "checkpointing"
        <5>1. decision[u].can /\ u \in checkpoint_exclusive
          BY <1>0, <4>1 DEF DecisionsLocal, DecisionLocal, ExclusiveHeld, HoldsCheckpoint,
                            Ending
        <5> QED BY <1>0, <2>1, <2>3, <4>1, <5>1 DEF ExclusiveHeld
      <4> QED BY <1>0, <4>1 DEF CheckpointOwned
    <3>2. checkpoint.owner # Client
      BY <1>0, <2>3 DEF CheckpointOwned, ExclusiveHeld, ClientHolds
    <3> QED BY <1>0, <3>1, <3>2
  <2>5. \A u \in Txn : /\ DecisionLocal(u)' /\ (HoldsWal(u)' <=> HoldsWal(u))
                       /\ HoldsCheckpoint(u)' <=> HoldsCheckpoint(u)
    BY <1>0, <2>1, <2>2, <2>3
       DEF DecisionsLocal, DecisionLocal, HoldsWal, HoldsCheckpoint, Ending, ChangesMade
  <2>6. DecisionsLocal' /\ MutexesHeld' /\ ExclusiveHeld'
    BY <1>0, <2>1, <2>2, <2>5
       DEF DecisionsLocal, MutexesHeld, ExclusiveHeld, ClientHolds, mutexVars
  <2>7. CheckpointOwned'
    <3>1. \A u \in Txn : checkpoint'.owner = u <=> pc'[u] = "checkpointing"
      BY <1>0, <2>1, <2>2, <2>4 DEF CheckpointOwned
    <3>2. pc[Ckpt] = "none" /\ vacuum_exclusive \subseteq {NoThread}
      BY <1>0, <2>4 DEF CheckpointOwned
    <3>3. vacuum_exclusive' \subseteq {t}
      <4>1. vacuum_exclusive \subseteq Thread
        BY DEF TypeOK
      <4> QED BY <1>0, <2>1, <3>2, <4>1
    <3>4. checkpoint'.owner # Client /\ checkpoint'.owner # NoThread
          /\ client.at # "checkpointing"
      BY <1>0, <2>1, <2>4 DEF CheckpointOwned
    <3>5. pc'[Ckpt] = "none"
      BY <1>0, <2>2, <2>3, <3>2
    <3> QED BY <2>1, <3>1, <3>3, <3>4, <3>5 DEF CheckpointOwned
  <2> QED BY <2>6, <2>7 DEF LocksInv
<1>2. ASSUME NEW r \in BOOLEAN, ClientCheckpoint(r) PROVE LocksInv'
  <2>1. /\ client.at = "decided" /\ client' = [client EXCEPT !.at = "checkpointing"]
        /\ vacuum_exclusive' = {Client} \/ vacuum_exclusive' = vacuum_exclusive
        /\ checkpoint'.owner = Client /\ checkpoint'.phase \in {"starting", "ending"}
        /\ UNCHANGED <<changes, mutexVars, checkpoint_shared, checkpoint_exclusive,
                       decision, pc>>
    BY <1>2 DEF ClientCheckpoint, CreateCheckpoint, txnVars
  <2>2. client'.at = "checkpointing"
    BY <2>1 DEF TypeOK
  <2>3. Client \in checkpoint_exclusive
    BY <1>0, <2>1 DEF ExclusiveHeld, ClientHolds
  <2>4. checkpoint.owner = NoThread
    <3>1. ASSUME NEW u \in Txn PROVE checkpoint.owner # u
      <4>1. CASE pc[u] = "checkpointing"
        <5>1. decision[u].can /\ u \in checkpoint_exclusive
          BY <1>0, <4>1 DEF DecisionsLocal, DecisionLocal, ExclusiveHeld, HoldsCheckpoint,
                            Ending
        <5> QED BY <1>0, <2>3, <5>1 DEF ExclusiveHeld
      <4> QED BY <1>0, <4>1 DEF CheckpointOwned
    <3>2. checkpoint.owner # Client
      BY <1>0, <2>1 DEF CheckpointOwned
    <3> QED BY <1>0, <3>1, <3>2
  <2>5. DecisionsLocal' /\ MutexesHeld' /\ ExclusiveHeld'
    BY <1>0, <2>1, <2>2
       DEF DecisionsLocal, DecisionLocal, HoldsWal, HoldsCheckpoint, Ending, ChangesMade,
           MutexesHeld, ExclusiveHeld, ClientHolds, mutexVars
  <2>6. CheckpointOwned'
    <3>1. \A u \in Txn : checkpoint'.owner # u /\ pc'[u] # "checkpointing"
      BY <1>0, <2>1, <2>4 DEF CheckpointOwned
    <3>2. pc[Ckpt] = "none" /\ vacuum_exclusive \subseteq {NoThread}
      BY <1>0, <2>4 DEF CheckpointOwned
    <3>3. vacuum_exclusive' \subseteq {Client}
      <4>1. vacuum_exclusive \subseteq Thread
        BY DEF TypeOK
      <4> QED BY <1>0, <2>1, <3>2, <4>1
    <3> QED BY <1>0, <2>1, <2>2, <3>1, <3>2, <3>3 DEF CheckpointOwned
  <2> QED BY <2>5, <2>6 DEF LocksInv
<1> QED BY <1>1, <1>2

\* The other steps of CHECKPOINT and of the running checkpoint.
LEMMA CheckpointStepsKeepLocks ==
  ASSUME LocksInv, TypeOK, changes[Ckpt] = {},
         \/ CheckpointStatement \/ ForceCheckpoint \/ ForceLocked \/ ForceInterrupted
         \/ ReadLastCommit \/ ReadLowestBound \/ CheckpointStep
  PROVE  LocksInv'
<1>0. /\ DecisionsLocal /\ MutexesHeld /\ ExclusiveHeld /\ CheckpointOwned
      /\ pc \in [Txn -> PcValue] /\ decision \in [Txn -> DecisionSet]
      /\ Ckpt \in Txn /\ Client \notin Txn
      /\ NoThread \notin Thread /\ Thread = Txn \union {Client}
      /\ checkpoint_exclusive \subseteq Thread
      /\ checkpoint.owner \in Thread \union {NoThread}
  BY ConstantsAssumption DEF LocksInv, TypeOK, Txn, Thread, DecisionSet
<1>1. CASE \/ CheckpointStatement \/ ForceCheckpoint \/ ForceLocked \/ ForceInterrupted
           \/ ReadLastCommit \/ ReadLowestBound
  <2>1. UNCHANGED <<changes, pc, decision, wal_lock, cleanup_lock, checkpoint_shared,
                    vacuum_exclusive, checkpoint>>
    BY <1>1 DEF CheckpointStatement, ForceCheckpoint, ForceLocked, ForceInterrupted,
                ReadLastCommit, ReadLowestBound, txnVars, mutexVars, storageLockVars
  <2>2. client'.at # "checkpointing" /\ client.at # "checkpointing"
    BY <1>1 DEF TypeOK, CheckpointStatement, ForceCheckpoint, ForceLocked,
                ForceInterrupted, ReadLastCommit, ReadLowestBound
  <2>3. DecisionsLocal' /\ CheckpointOwned'
    BY <1>0, <2>1, <2>2 DEF DecisionsLocal, DecisionLocal, ChangesMade, CheckpointOwned
  <2>4. start_transaction_lock' = IF client'.at = "spinning" THEN Client ELSE NoThread
    BY <1>0, <1>1 DEF MutexesHeld, TypeOK, CheckpointStatement, ForceCheckpoint, ForceLocked,
                ForceInterrupted, ReadLastCommit, ReadLowestBound, mutexVars
  <2>5. MutexesHeld'
    BY <1>0, <2>1, <2>4 DEF MutexesHeld, HoldsWal, Ending
  <2>6. \/ /\ checkpoint_exclusive = {} /\ checkpoint_shared = {}
           /\ checkpoint_exclusive' = {Client} /\ ClientHolds'
        \/ UNCHANGED checkpoint_exclusive /\ (ClientHolds' <=> ClientHolds)
    BY <1>1 DEF TypeOK, ClientHolds, CheckpointStatement, ForceCheckpoint, ForceLocked,
                ForceInterrupted, ReadLastCommit, ReadLowestBound, storageLockVars
  <2>7. ExclusiveHeld'
    BY <1>0, <2>1, <2>6 DEF ExclusiveHeld, HoldsCheckpoint, Ending
  <2> QED BY <2>3, <2>5, <2>7 DEF LocksInv
<1>2. CASE WALStartCheckpoint
  <2>1. /\ checkpoint.phase = "starting" /\ pc' = [pc EXCEPT ![Ckpt] = "active"]
        /\ checkpoint' = [checkpoint EXCEPT !.phase = "writing"]
        /\ UNCHANGED <<changes, decision, mutexVars, storageLockVars, client>>
    BY <1>2 DEF WALStartCheckpoint, Begin
  <2>2. /\ pc[Ckpt] = "none" /\ pc'[Ckpt] = "active"
        /\ \A u \in Txn : u # Ckpt => pc'[u] = pc[u]
        /\ checkpoint'.owner = checkpoint.owner /\ checkpoint'.phase = "writing"
    BY <1>0, <2>1 DEF CheckpointOwned, TypeOK
  <2>3. \A u \in Txn : /\ DecisionLocal(u)' /\ (HoldsWal(u)' <=> HoldsWal(u))
                       /\ HoldsCheckpoint(u)' <=> HoldsCheckpoint(u)
    BY <1>0, <2>1, <2>2
       DEF DecisionsLocal, DecisionLocal, HoldsWal, HoldsCheckpoint, Ending, ChangesMade,
           NoDecision
  <2>4. DecisionsLocal' /\ MutexesHeld' /\ ExclusiveHeld'
    BY <1>0, <2>1, <2>2, <2>3
       DEF DecisionsLocal, MutexesHeld, ExclusiveHeld, ClientHolds, mutexVars, storageLockVars
  <2>5. CheckpointOwned'
    BY <1>0, <2>1, <2>2 DEF CheckpointOwned, storageLockVars
  <2> QED BY <2>4, <2>5 DEF LocksInv
<1>3. CASE WriteTables \/ WALFinishCheckpoint
  <2>1. /\ checkpoint.phase \in {"writing", "finishing"}
        /\ checkpoint'.owner = checkpoint.owner
        /\ checkpoint'.phase \in {"finishing", "committing"}
        /\ UNCHANGED <<changes, decision, mutexVars, storageLockVars, client, pc>>
    BY <1>3 DEF WriteTables, WALFinishCheckpoint, TypeOK, txnVars
  <2> QED BY <1>0, <2>1
          DEF LocksInv, DecisionsLocal, DecisionLocal, HoldsWal, HoldsCheckpoint, Ending,
              ChangesMade, MutexesHeld, ExclusiveHeld, ClientHolds, CheckpointOwned,
              mutexVars, storageLockVars
<1>4. CASE EndCheckpoint
  <2> DEFINE o == checkpoint.owner
  <2>1. /\ \/ checkpoint.phase = "ending"
           \/ checkpoint.phase = "committing" /\ pc[Ckpt] = "done"
        /\ checkpoint' = NoCheckpoint
        /\ vacuum_exclusive' = {} /\ checkpoint_exclusive' = {}
        /\ wal_lock' = IF wal_lock = o THEN NoThread ELSE wal_lock
        /\ client' = IF o = Client
                     THEN [client EXCEPT !.at = "idle", !.type = "FULL_CHECKPOINT"]
                     ELSE client
        /\ pc' = [t \in Txn |-> IF t = Ckpt THEN "none"
                                ELSE IF t = o THEN "done" ELSE pc[t]]
        /\ decision' = [t \in Txn |-> IF t = o THEN NoDecision ELSE decision[t]]
        /\ UNCHANGED <<changes, start_transaction_lock, cleanup_lock, checkpoint_shared>>
    BY <1>4 DEF EndCheckpoint, txnVars
  <2>2. /\ pc[Ckpt] \in {"none", "done"} /\ o \in Thread
        /\ checkpoint'.owner = NoThread /\ checkpoint'.phase = "none"
    BY <1>0, <2>1 DEF CheckpointOwned, NoCheckpoint
  <2>3. o # Ckpt /\ decision[Ckpt] = NoDecision
    BY <1>0, <2>2 DEF CheckpointOwned, DecisionsLocal, DecisionLocal
  <2>4. /\ o \in checkpoint_exclusive /\ checkpoint_exclusive = {o}
    <3>1. CASE o = Client
      BY <1>0, <3>1 DEF CheckpointOwned, ExclusiveHeld, ClientHolds
    <3>2. CASE o \in Txn
      <4>1. pc[o] = "checkpointing" /\ decision[o].can
        BY <1>0, <3>2 DEF CheckpointOwned, DecisionsLocal, DecisionLocal
      <4> QED BY <1>0, <3>2, <4>1 DEF ExclusiveHeld, HoldsCheckpoint, Ending
    <3> QED BY <1>0, <2>2, <3>1, <3>2
  <2> HIDE DEF o
  <2>5. \A u \in Txn : /\ u = o => pc'[u] = "done" /\ decision'[u] = NoDecision
                       /\ u = Ckpt => pc'[u] = "none" /\ decision'[u] = NoDecision
                       /\ u # o /\ u # Ckpt =>
                            pc'[u] = pc[u] /\ decision'[u] = decision[u]
    BY <2>1, <2>3
  <2>6. DecisionsLocal'
    BY <1>0, <2>1, <2>5 DEF DecisionsLocal, DecisionLocal, ChangesMade, NoDecision
  <2>7. \A u \in Txn : u # o => ~HoldsCheckpoint(u) /\ (HoldsWal(u)' <=> HoldsWal(u))
    BY <1>0, <2>2, <2>3, <2>4, <2>5
       DEF ExclusiveHeld, HoldsWal, Ending, NoDecision
  <2>8. client'.at = IF o = Client THEN "idle" ELSE client.at
    BY <2>1 DEF TypeOK
  <2>9. MutexesHeld'
    <3>1. \A u \in Txn : wal_lock' = u <=> HoldsWal(u)'
      <4>1. \A u \in Txn : u = o => ~HoldsWal(u)'
        BY <2>5 DEF HoldsWal, Ending, NoDecision
      <4> QED BY <1>0, <2>1, <2>7, <4>1 DEF MutexesHeld
    <3>2. \A u \in Txn : cleanup_lock' = u <=> pc'[u] = "cleaning"
      <4>1. \A u \in Txn : u = o => pc[u] = "checkpointing"
        BY <1>0 DEF CheckpointOwned, o
      <4> QED BY <1>0, <2>1, <2>2, <2>5, <4>1 DEF MutexesHeld
    <3>3. start_transaction_lock' = IF client'.at = "spinning" THEN Client ELSE NoThread
      BY <1>0, <2>1, <2>8 DEF MutexesHeld, CheckpointOwned, o
    <3>4. wal_lock' # Client /\ cleanup_lock' # Client
      BY <1>0, <2>1 DEF MutexesHeld
    <3> QED BY <3>1, <3>2, <3>3, <3>4 DEF MutexesHeld
  <2>10. ExclusiveHeld'
    <3>1. \A u \in Txn : ~HoldsCheckpoint(u)'
      BY <2>2, <2>3, <2>5, <2>7 DEF HoldsCheckpoint, Ending, NoDecision
    <3>2. ~ClientHolds'
      BY <1>0, <2>4, <2>8 DEF ExclusiveHeld, ClientHolds
    <3> QED BY <2>1, <3>1, <3>2 DEF ExclusiveHeld
  <2>11. CheckpointOwned'
    <3>1. \A u \in Txn : pc'[u] # "checkpointing"
      BY <1>0, <2>5 DEF CheckpointOwned, o
    <3>2. client'.at # "checkpointing"
      BY <1>0, <2>8 DEF CheckpointOwned, o
    <3> QED BY <1>0, <2>1, <2>2, <2>5, <3>1, <3>2 DEF CheckpointOwned
  <2> QED BY <2>6, <2>9, <2>10, <2>11 DEF LocksInv
<1> QED BY <1>1, <1>2, <1>3, <1>4 DEF CheckpointStep

-----------------------------------------------------------------------------
(* Type correctness.                                                       *)

\* Timestamps are natural numbers, and the two bounds are timestamps.
LEMMA TimestampIsNat ==
  /\ Timestamp \subseteq Nat /\ 0 \in Timestamp
  /\ 1 .. TRANSACTION_ID_START \subseteq Timestamp
  /\ AllCommitted \in Timestamp /\ IncludingUncommitted \in Timestamp
BY ConstantsAssumption DEF Timestamp, AllCommitted, IncludingUncommitted

CleanupQueueType == Seq([transactions : Seq(Txn), bound : Timestamp])

\* the type invariant, by groups of variables
ListTypes == /\ active_transactions \subseteq Txn
             /\ lowest_visibility_bound \in Timestamp
             /\ recently_committed_transactions \in Seq(Txn)
             /\ cleanup_queue \in CleanupQueueType
             /\ awaiting_cleanup \subseteq Txn
ClockTypes == /\ current_start_timestamp \in 1 .. TRANSACTION_ID_START
              /\ last_commit \in Timestamp
              /\ last_committed_version \in Nat
TxnTypes == /\ start_time \in [Txn -> Timestamp]
            /\ commit_id \in [Txn -> Timestamp]
            /\ catalog_version \in [Txn -> Nat]
            /\ changes \in [Txn -> SUBSET Kind]
ProgressTypes == /\ cleaned_up_entries \in [Txn -> Nat]
                 /\ pass \in 0 .. NumEntries
                 /\ applied \in [Txn -> Nat]
                 /\ failures \in 0 .. MaxFailures
MutexTypes == {start_transaction_lock, wal_lock, cleanup_lock}
                \subseteq Thread \union {NoThread}
StorageLockTypes ==
  /\ checkpoint_shared \subseteq Txn /\ vacuum_shared \subseteq Txn
  /\ checkpoint_exclusive \subseteq Thread /\ vacuum_exclusive \subseteq Thread
CheckpointTypes ==
  /\ client \in [at : {"idle", "spinning", "locked", "read", "decided", "checkpointing"},
                 last_commit : Timestamp, type : CheckpointType,
                 statements : 0 .. MaxStatements]
  /\ checkpoint \in [owner : Thread \union {NoThread},
                     phase : {"none", "starting", "writing", "finishing",
                              "committing", "ending"},
                     type : CheckpointType]
ThreadTypes == pc \in [Txn -> PcValue] /\ decision \in [Txn -> DecisionSet]

\* The type invariant is the conjunction of its groups.
LEMMA TypeOKParts ==
  TypeOK <=> /\ ListTypes /\ ClockTypes /\ TxnTypes /\ ProgressTypes /\ MutexTypes
             /\ StorageLockTypes /\ CheckpointTypes /\ ThreadTypes
BY Zenon DEF TypeOK, ListTypes, ClockTypes, TxnTypes, ProgressTypes, MutexTypes,
       StorageLockTypes, CheckpointTypes, ThreadTypes, CleanupQueueType, DecisionSet

\* The same in the next state.
LEMMA TypeOKPartsNext ==
  TypeOK' <=> /\ ListTypes' /\ ClockTypes' /\ TxnTypes' /\ ProgressTypes' /\ MutexTypes'
              /\ StorageLockTypes' /\ CheckpointTypes' /\ ThreadTypes'
BY TypeOKParts, PTL

\* RemoveTransaction keeps the types of the lists.
LEMMA RemovalTypes ==
  ASSUME NEW t \in Txn, NEW store \in BOOLEAN, NEW id \in [Txn -> Timestamp], TypeOK,
         RemoveTransaction(t, store, id)
  PROVE  /\ active_transactions' \subseteq Txn
         /\ lowest_visibility_bound' \in Timestamp
         /\ recently_committed_transactions' \in Seq(Txn)
         /\ cleanup_queue' \in CleanupQueueType
         /\ awaiting_cleanup' \subseteq Txn
         /\ checkpoint_shared' \subseteq Txn /\ vacuum_shared' \subseteq Txn
<1> DEFINE old   == recently_committed_transactions
           rest  == active_transactions \ {t}
           bound == LowestBoundOf(rest)
           stays == store /\ id[t] # 0
           all   == IF stays THEN Append(old, t) ELSE old
           n     == SweptCount(all, id, bound)
           own   == IF ChangesMade(t) /\ ~stays THEN <<t>> ELSE <<>>
           swept == SubSeq(all, 1, n)
<1>0. /\ old \in Seq(Txn) /\ rest \in SUBSET Txn /\ start_time \in [Txn -> Nat]
      /\ start_time \in [Txn -> Timestamp] /\ id \in [Txn -> Nat]
      /\ cleanup_queue \in CleanupQueueType /\ awaiting_cleanup \subseteq Txn
      /\ checkpoint_shared \subseteq Txn /\ vacuum_shared \subseteq Txn
  BY TimestampIsNat DEF TypeOK, CleanupQueueType
<1>1. bound \in Timestamp
  <2>1. CASE rest = {}
    BY <2>1, TimestampIsNat DEF LowestBoundOf
  <2>2. CASE rest # {}
    <3>1. \E a \in rest : bound = start_time[a]
      BY <1>0, <2>2, LowestBoundAttained
    <3> HIDE DEF bound
    <3> QED BY <1>0, <3>1
  <2> QED BY <2>1, <2>2
<1>2. all \in Seq(Txn) /\ Len(all) \in Nat /\ \A i \in 1 .. Len(all) : all[i] \in Txn
  BY <1>0
<1>3. n \in 0 .. Len(all)
  <2> HIDE DEF all, bound
  <2> QED BY <1>0, <1>1, <1>2, TimestampIsNat, SweptBelowBound
<1>4. /\ active_transactions' = rest
      /\ lowest_visibility_bound' = bound
      /\ recently_committed_transactions' = SubSeq(all, n + 1, Len(all))
      /\ awaiting_cleanup' = awaiting_cleanup \union ToSet(swept)
                             \union (IF store THEN {} ELSE ToSet(own))
      /\ cleanup_queue' = IF own \o swept = <<>> THEN cleanup_queue
                          ELSE Append(cleanup_queue,
                                      [transactions |-> own \o swept, bound |-> bound])
      /\ checkpoint_shared' = KeysAfterRemoval(checkpoint_shared, t)
      /\ vacuum_shared' = KeysAfterRemoval(vacuum_shared, t)
  BY DEF RemoveTransaction, Remember
<1> HIDE DEF all, n, bound
<1>5. swept \in Seq(Txn) /\ SubSeq(all, n + 1, Len(all)) \in Seq(Txn)
  BY <1>2, <1>3
<1>6. own \in Seq(Txn)
  OBVIOUS
<1>7. ToSet(swept) \subseteq Txn /\ ToSet(own) \subseteq Txn
  <2> HIDE DEF swept, own
  <2> QED BY <1>5, <1>6 DEF ToSet
<1>8. cleanup_queue' \in CleanupQueueType
  <2> HIDE DEF swept, own
  <2>1. own \o swept \in Seq(Txn)
    BY <1>5, <1>6
  <2>2. [transactions |-> own \o swept, bound |-> bound]
          \in [transactions : Seq(Txn), bound : Timestamp]
    BY <1>1, <2>1
  <2> DEFINE e == [transactions |-> own \o swept, bound |-> bound]
             T == [transactions : Seq(Txn), bound : Timestamp]
  <2>3. /\ e \in T /\ cleanup_queue \in Seq(T)
        /\ cleanup_queue' = cleanup_queue \/ cleanup_queue' = Append(cleanup_queue, e)
    BY <1>0, <1>4, <2>2 DEF CleanupQueueType
  <2> HIDE DEF e, T
  <2>4. cleanup_queue' \in Seq(T)
    BY <2>3
  <2> QED BY <2>4 DEF CleanupQueueType, T
<1> QED BY <1>0, <1>1, <1>4, <1>5, <1>7, <1>8 DEF KeysAfterRemoval

\* The end of a commit is well typed.
LEMMA FinishCommitKeepsTypes ==
  ASSUME TypeOK, NEW t \in Txn, NEW d \in DecisionSet, NEW X \in SUBSET Thread,
         FinishCommit(t, d, X)
  PROVE  TypeOK'
<1> DEFINE ok == ~d.error
           can == ok /\ d.can
           skip == can /\ d.skip
           id == [commit_id EXCEPT ![t] = IF ok THEN current_start_timestamp ELSE 0]
           store == StoreTransaction(t) \/ d.error
<1>1. /\ current_start_timestamp < TRANSACTION_ID_START
      /\ current_start_timestamp' = current_start_timestamp + 1
      /\ commit_id' = id
      /\ last_commit' = IF ok THEN current_start_timestamp ELSE last_commit
      /\ last_committed_version' = last_committed_version
         \/ last_committed_version' = last_committed_version + 1
      /\ catalog_version' = catalog_version
         \/ catalog_version' = [catalog_version EXCEPT ![t] = last_committed_version + 1]
      /\ decision' = [decision EXCEPT ![t] = [d EXCEPT !.can = can, !.skip = skip,
                                                      !.error = FALSE]]
      /\ checkpoint_exclusive' = KeepCheckpointLock(t, can, X)
      /\ wal_lock' = KeepWalLock(t, skip)
      /\ RemoveTransaction(t, store, id)
      /\ pc' = [pc EXCEPT ![t] = "cleanup"]
      /\ UNCHANGED <<start_time, changes, cleanVars, start_transaction_lock,
                     cleanup_lock, vacuum_exclusive, ckptVars>>
  BY DEF FinishCommit
<1>0. /\ ListTypes /\ ClockTypes /\ TxnTypes /\ ProgressTypes /\ MutexTypes
      /\ StorageLockTypes /\ CheckpointTypes /\ ThreadTypes
  BY TypeOKParts
<1>2. id \in [Txn -> Timestamp]
  <2>1. (IF ok THEN current_start_timestamp ELSE 0) \in Timestamp
    BY <1>0, TimestampIsNat DEF ClockTypes
  <2> QED BY <1>0, <2>1 DEF TxnTypes
<1>3. store \in BOOLEAN
  OBVIOUS
<1>4. /\ active_transactions' \subseteq Txn
      /\ lowest_visibility_bound' \in Timestamp
      /\ recently_committed_transactions' \in Seq(Txn)
      /\ cleanup_queue' \in CleanupQueueType
      /\ awaiting_cleanup' \subseteq Txn
      /\ checkpoint_shared' \subseteq Txn /\ vacuum_shared' \subseteq Txn
  <2> HIDE DEF store, id
  <2> QED BY <1>1, <1>2, <1>3, RemovalTypes
<1>5. ThreadTypes'
  <2>1. can \in BOOLEAN /\ skip \in BOOLEAN
    OBVIOUS
  <2>2. [d EXCEPT !.can = can, !.skip = skip, !.error = FALSE] \in DecisionSet
    <3> HIDE DEF can, skip
    <3> QED BY <2>1 DEF DecisionSet
  <2>3. decision' \in [Txn -> DecisionSet]
    BY <1>0, <1>1, <2>2 DEF ThreadTypes
  <2>4. pc' \in [Txn -> PcValue]
    BY <1>0, <1>1 DEF ThreadTypes, PcValue
  <2> QED BY <2>3, <2>4 DEF ThreadTypes
<1>6. ListTypes'
  BY <1>4 DEF ListTypes
<1>7. ClockTypes'
  <2>1. last_commit' \in Timestamp
    BY <1>0, <1>1, TimestampIsNat DEF ClockTypes
  <2>2. current_start_timestamp' \in 1 .. TRANSACTION_ID_START
    BY <1>0, <1>1, ConstantsAssumption DEF ClockTypes
  <2>3. last_committed_version' \in Nat
    BY <1>0, <1>1 DEF ClockTypes
  <2> QED BY <2>1, <2>2, <2>3 DEF ClockTypes
<1>8. TxnTypes'
  <2>1. catalog_version' \in [Txn -> Nat]
    <3>1. last_committed_version + 1 \in Nat
      BY <1>0 DEF ClockTypes
    <3> QED BY <1>0, <1>1, <3>1 DEF TxnTypes
  <2> HIDE DEF id
  <2> QED BY <1>0, <1>1, <1>2, <2>1 DEF TxnTypes
<1>9. MutexTypes' /\ StorageLockTypes'
  BY <1>0, <1>1, <1>4 DEF MutexTypes, StorageLockTypes, KeepCheckpointLock, KeepWalLock
<1>10. ProgressTypes' /\ CheckpointTypes'
  BY <1>0, <1>1 DEF ProgressTypes, CheckpointTypes, cleanVars, ckptVars
<1>11. TypeOK'
  <2>1. /\ ListTypes' /\ ClockTypes' /\ TxnTypes' /\ ProgressTypes' /\ MutexTypes'
        /\ StorageLockTypes' /\ CheckpointTypes' /\ ThreadTypes'
    BY <1>5, <1>6, <1>7, <1>8, <1>9, <1>10
  <2> QED BY <2>1, TypeOKPartsNext
<1> QED BY <1>11

\* A step keeps the types if it keeps those of the groups it changes.
LEMMA BeginKeepsTypes ==
  ASSUME TypeOK, NEW t \in Txn, Begin(t),
         UNCHANGED <<last_commit, last_committed_version,
                     recently_committed_transactions, cleanup_queue,
                     awaiting_cleanup, commit_id, changes, decision, cleanVars,
                     mutexVars, storageLockVars>>,
         CheckpointTypes'
  PROVE  TypeOK'
<1>0. /\ ListTypes /\ ClockTypes /\ TxnTypes /\ ProgressTypes /\ MutexTypes
      /\ StorageLockTypes /\ ThreadTypes
  BY TypeOKParts
<1>1. current_start_timestamp \in Timestamp /\ last_committed_version \in Nat
  BY <1>0, TimestampIsNat DEF ClockTypes
<1>2. ListTypes'
  BY <1>0, <1>1 DEF Begin, ListTypes
<1>3. ClockTypes'
  BY <1>0, ConstantsAssumption DEF Begin, ClockTypes
<1>4. TxnTypes'
  BY <1>0, <1>1 DEF Begin, TxnTypes
<1>5. ThreadTypes'
  BY <1>0 DEF Begin, ThreadTypes, PcValue
<1>6. ProgressTypes' /\ MutexTypes' /\ StorageLockTypes'
  BY <1>0 DEF ProgressTypes, MutexTypes, StorageLockTypes, cleanVars, mutexVars,
              storageLockVars
<1> QED BY <1>2, <1>3, <1>4, <1>5, <1>6, TypeOKPartsNext

\* CommitTransaction is well typed.
LEMMA CommitKeepsTypes ==
  ASSUME TypeOK, NEW t \in Txn, NEW e \in BOOLEAN, NEW s \in BOOLEAN, NEW a \in BOOLEAN,
         CommitTransaction(t, e, a, s)
  PROVE  TypeOK'
<1>0. /\ ListTypes /\ ClockTypes /\ TxnTypes /\ ProgressTypes /\ MutexTypes
      /\ StorageLockTypes /\ CheckpointTypes /\ ThreadTypes
  BY TypeOKParts
<1> DEFINE can == a /\ CanTakeCheckpointLock(t)
           X   == IF can THEN {t} ELSE checkpoint_exclusive
           d   == [can |-> can, skip |-> can /\ s, error |-> e,
                   type |-> "FULL_CHECKPOINT"]
<1>1. d \in DecisionSet /\ X \in SUBSET Thread
  <2>1. can \in BOOLEAN /\ (can /\ s) \in BOOLEAN
    OBVIOUS
  <2> HIDE DEF can
  <2> QED BY <1>0, <2>1 DEF DecisionSet, CheckpointType, StorageLockTypes, Thread
<1>2. IF ChangesMade(t) /\ ~e
      THEN /\ pc' = [pc EXCEPT ![t] = "wal"]
           /\ decision' = [decision EXCEPT ![t] = d]
           /\ checkpoint_exclusive' = X
           /\ UNCHANGED <<listVars, clockVars, txnVars, cleanVars, mutexVars,
                          checkpoint_shared, vacuum_shared, vacuum_exclusive, ckptVars>>
      ELSE FinishCommit(t, d, X)
  BY DEF CommitTransaction
<1> HIDE DEF can, X, d
<1>3. CASE ChangesMade(t) /\ ~e
  <2>1. /\ pc' = [pc EXCEPT ![t] = "wal"]
        /\ decision' = [decision EXCEPT ![t] = d]
        /\ checkpoint_exclusive' = X
        /\ UNCHANGED <<listVars, clockVars, txnVars, cleanVars, mutexVars,
                       checkpoint_shared, vacuum_shared, vacuum_exclusive, ckptVars>>
    BY <1>2, <1>3
  <2>2. ThreadTypes' /\ StorageLockTypes'
    BY <1>0, <1>1, <2>1 DEF ThreadTypes, StorageLockTypes, PcValue
  <2>3. /\ ListTypes' /\ ClockTypes' /\ TxnTypes' /\ ProgressTypes' /\ MutexTypes'
        /\ CheckpointTypes'
    BY <1>0, <2>1 DEF ListTypes, ClockTypes, TxnTypes, ProgressTypes, MutexTypes,
       CheckpointTypes, listVars, clockVars, txnVars, cleanVars, mutexVars, ckptVars
  <2> QED BY <2>2, <2>3, TypeOKPartsNext
<1>4. CASE ~(ChangesMade(t) /\ ~e)
  BY <1>1, <1>2, <1>4, FinishCommitKeepsTypes
<1> QED BY <1>3, <1>4

\* So is its part after the WAL write.
LEMMA RelockedCommitKeepsTypes ==
  ASSUME TypeOK, NEW t \in Txn, NEW f \in BOOLEAN,
         CommitUndoBuffer(t, f) \/ CommitBackpedalled(t, f)
  PROVE  TypeOK'
<1> DEFINE d == decision[t]
           type == GetCheckpointType(t)
           e == [d EXCEPT !.error = d.error \/ f]
<1>0. d \in DecisionSet /\ checkpoint_exclusive \in SUBSET Thread
  BY DEF TypeOK, DecisionSet
<1>1. e \in DecisionSet /\ [e EXCEPT !.can = FALSE] \in DecisionSet
  BY <1>0 DEF DecisionSet
<1>2. type # "none" => [e EXCEPT !.type = type] \in DecisionSet
  <2>1. type # "none" => type \in CheckpointType
    BY DEF GetCheckpointType, CheckpointType
  <2> HIDE DEF type, e
  <2> QED BY <1>1, <2>1 DEF DecisionSet
<1>3. CASE CommitUndoBuffer(t, f)
  <2>1. \/ FinishCommit(t, [e EXCEPT !.can = FALSE], checkpoint_exclusive)
        \/ type # "none" /\ FinishCommit(t, [e EXCEPT !.type = type], checkpoint_exclusive)
        \/ FinishCommit(t, e, checkpoint_exclusive)
    BY <1>3 DEF CommitUndoBuffer
  <2> HIDE DEF e, type
  <2> QED BY <1>0, <1>1, <1>2, <2>1, FinishCommitKeepsTypes
<1>4. CASE CommitBackpedalled(t, f)
  <2>1. FinishCommit(t, e, checkpoint_exclusive)
    BY <1>4 DEF CommitBackpedalled
  <2> HIDE DEF e
  <2> QED BY <1>0, <1>1, <2>1, FinishCommitKeepsTypes
<1> QED BY <1>3, <1>4

\* The position of an entry of the front that is still to be cleaned is one of
\* its positions.
LEMMA FirstRemainingIsThere ==
  ASSUME cleanup_queue \in CleanupQueueType, cleanup_queue # <<>>, Remaining # {}
  PROVE  /\ Min(Remaining) \in Remaining
         /\ FirstRemaining \in awaiting_cleanup
         /\ FirstRemaining \in Txn
         /\ \E j \in DOMAIN Head(cleanup_queue).transactions :
              Head(cleanup_queue).transactions[j] = FirstRemaining
<1> DEFINE front == Head(cleanup_queue).transactions
<1>1. front \in Seq(Txn)
  <2> DEFINE T == [transactions : Seq(Txn), bound : Timestamp]
  <2>1. Head(cleanup_queue) \in T
    <3>1. cleanup_queue \in Seq(T)
      BY DEF CleanupQueueType
    <3> HIDE DEF T
    <3> QED BY <3>1
  <2> QED BY <2>1
<1>2. Remaining = {i \in DOMAIN front : front[i] \in awaiting_cleanup}
  BY DEF Remaining
<1> HIDE DEF front
<1>3. Remaining \in SUBSET Nat
  BY <1>1, <1>2
<1>4. Min(Remaining) \in Remaining
  <2>1. \E x \in Remaining : \A y \in Remaining : x <= y
    BY <1>3, LeastExists
  <2> QED BY <2>1 DEF Min
<1>5. FirstRemaining = front[Min(Remaining)]
  BY DEF FirstRemaining, front
<1>6. Min(Remaining) \in DOMAIN front /\ front[Min(Remaining)] \in awaiting_cleanup
  BY <1>2, <1>4
<1> QED BY <1>1, <1>4, <1>5, <1>6 DEF front

\* Every step is well typed.
LEMMA TypeOKNext == TypeOK /\ [Next]_vars => TypeOK'
<1> SUFFICES ASSUME TypeOK, [Next]_vars PROVE TypeOK'
  OBVIOUS
<1> USE DEF listVars, clockVars, txnVars, cleanVars, mutexVars, storageLockVars, ckptVars
<1>0. /\ ListTypes /\ ClockTypes /\ TxnTypes /\ ProgressTypes /\ MutexTypes
      /\ StorageLockTypes /\ CheckpointTypes /\ ThreadTypes
  BY TypeOKParts
<1>1. ASSUME NEW t \in Txn, StartTransaction(t) PROVE TypeOK'
  <2>1. CheckpointTypes'
    BY <1>0, <1>1 DEF StartTransaction, CheckpointTypes
  <2> QED BY <1>1, <2>1, BeginKeepsTypes DEF StartTransaction
<1>2. ASSUME NEW t \in Txn, NEW k \in Kind, NEW made \in BOOLEAN,
             SetModifications(t, k, made)
      PROVE  TypeOK'
  <2>1. TxnTypes'
    BY <1>0, <1>2, ConstantsAssumption DEF SetModifications, TxnTypes
  <2>2. StorageLockTypes'
    BY <1>0, <1>2 DEF SetModifications, StorageLockTypes
  <2>3. /\ ListTypes' /\ ClockTypes' /\ ProgressTypes' /\ MutexTypes'
        /\ CheckpointTypes' /\ ThreadTypes'
    BY <1>0, <1>2 DEF SetModifications, ListTypes, ClockTypes, ProgressTypes, MutexTypes,
                      CheckpointTypes, ThreadTypes
  <2> QED BY <2>1, <2>2, <2>3, TypeOKPartsNext
<1>3. ASSUME NEW t \in Txn, NEW f \in BOOLEAN, WriteToWAL(t, f) \/ Backpedal(t, f)
      PROVE  TypeOK'
  <2>1. ThreadTypes'
    BY <1>0, <1>3 DEF WriteToWAL, Backpedal, ThreadTypes, PcValue, DecisionSet
  <2>2. MutexTypes'
    BY <1>0, <1>3 DEF WriteToWAL, Backpedal, MutexTypes, Thread
  <2>3. /\ ListTypes' /\ ClockTypes' /\ TxnTypes' /\ ProgressTypes'
        /\ StorageLockTypes' /\ CheckpointTypes'
    BY <1>0, <1>3 DEF WriteToWAL, Backpedal, ListTypes, ClockTypes, TxnTypes,
                      ProgressTypes, StorageLockTypes, CheckpointTypes
  <2> QED BY <2>1, <2>2, <2>3, TypeOKPartsNext
<1>4. ASSUME NEW t \in Txn, RollbackTransaction(t) PROVE TypeOK'
  <2>1. /\ RemoveTransaction(t, ChangesMade(t), commit_id)
        /\ ChangesMade(t) \in BOOLEAN /\ commit_id \in [Txn -> Timestamp]
    BY <1>0, <1>4 DEF RollbackTransaction, ChangesMade, TxnTypes
  <2>2. /\ active_transactions' \subseteq Txn
        /\ lowest_visibility_bound' \in Timestamp
        /\ recently_committed_transactions' \in Seq(Txn)
        /\ cleanup_queue' \in CleanupQueueType
        /\ awaiting_cleanup' \subseteq Txn
        /\ checkpoint_shared' \subseteq Txn /\ vacuum_shared' \subseteq Txn
    BY <2>1, RemovalTypes
  <2>3. ListTypes'
    BY <2>2 DEF ListTypes
  <2>4. StorageLockTypes'
    BY <1>0, <1>4, <2>2 DEF RollbackTransaction, StorageLockTypes
  <2>5. ThreadTypes'
    BY <1>0, <1>4 DEF RollbackTransaction, ThreadTypes, PcValue
  <2>6. ClockTypes' /\ TxnTypes' /\ ProgressTypes' /\ MutexTypes' /\ CheckpointTypes'
    BY <1>0, <1>4 DEF RollbackTransaction, ClockTypes, TxnTypes, ProgressTypes,
                      MutexTypes, CheckpointTypes
  <2> QED BY <2>3, <2>4, <2>5, <2>6, TypeOKPartsNext
<1>5. ASSUME NEW t \in Txn, TakeCleanupLock(t) \/ CleanupThrows(t) \/ CleanupDone(t)
      PROVE  TypeOK'
  <2>1. pc' \in [Txn -> PcValue]
    BY <1>0, <1>5 DEF TakeCleanupLock, CleanupThrows, CleanupDone, LeaveCleanup,
                      ThreadTypes, PcValue
  <2>2. decision' \in [Txn -> DecisionSet]
    <3>1. NoDecision \in DecisionSet
      BY DEF NoDecision, DecisionSet, CheckpointType
    <3> QED BY <1>0, <1>5, <3>1 DEF TakeCleanupLock, CleanupThrows, CleanupDone,
                                    LeaveCleanup, ThreadTypes
  <2>3. MutexTypes'
    BY <1>0, <1>5 DEF TakeCleanupLock, CleanupThrows, CleanupDone, LeaveCleanup,
                      MutexTypes, Thread
  <2>4. ProgressTypes'
    BY <1>0, <1>5, ConstantsAssumption
       DEF TakeCleanupLock, CleanupThrows, CleanupDone, ProgressTypes
  <2>5. ListTypes' /\ ClockTypes' /\ TxnTypes' /\ StorageLockTypes' /\ CheckpointTypes'
    BY <1>0, <1>5 DEF TakeCleanupLock, CleanupThrows, CleanupDone, ListTypes,
                      ClockTypes, TxnTypes, StorageLockTypes, CheckpointTypes
  <2>6. ThreadTypes'
    BY <2>1, <2>2 DEF ThreadTypes
  <2> QED BY <2>3, <2>4, <2>5, <2>6, TypeOKPartsNext
<1>6. ASSUME NEW t \in Txn, CleanupEntry(t) PROVE TypeOK'
  <2>1. FirstRemaining \in Txn
    BY <1>0, <1>6, FirstRemainingIsThere DEF CleanupEntry, ListTypes
  <2>2. ProgressTypes'
    <3>1. applied' \in [Txn -> Nat] /\ cleaned_up_entries' \in [Txn -> Nat]
      BY SMTT(40), <1>0, <1>6, <2>1 DEF CleanupEntry, ProgressTypes
    <3>2. pass' \in 0 .. NumEntries /\ failures' = failures
      BY <1>0, <1>6, ConstantsAssumption DEF CleanupEntry, ProgressTypes
    <3> QED BY <1>0, <3>1, <3>2 DEF ProgressTypes
  <2>3. ListTypes'
    BY <1>0, <1>6 DEF CleanupEntry, ListTypes
  <2>4. /\ ClockTypes' /\ TxnTypes' /\ MutexTypes' /\ StorageLockTypes'
        /\ CheckpointTypes' /\ ThreadTypes'
    BY <1>0, <1>6 DEF CleanupEntry, ClockTypes, TxnTypes, MutexTypes, StorageLockTypes,
                      CheckpointTypes, ThreadTypes
  <2> QED BY <2>2, <2>3, <2>4, TypeOKPartsNext
<1>7. ASSUME NEW t \in Txn, PopCleanup(t) PROVE TypeOK'
  <2>1. cleanup_queue' \in CleanupQueueType
    <3> DEFINE T == [transactions : Seq(Txn), bound : Timestamp]
    <3>1. cleanup_queue \in Seq(T) /\ cleanup_queue # <<>>
          /\ cleanup_queue' = Tail(cleanup_queue)
      BY <1>0, <1>7 DEF PopCleanup, ListTypes, CleanupQueueType
    <3> HIDE DEF T
    <3>2. cleanup_queue' \in Seq(T)
      BY <3>1
    <3> QED BY <3>2 DEF CleanupQueueType, T
  <2>2. ListTypes' /\ StorageLockTypes'
    BY <1>0, <1>7, <2>1 DEF PopCleanup, ListTypes, StorageLockTypes
  <2>3. /\ ClockTypes' /\ TxnTypes' /\ ProgressTypes' /\ MutexTypes'
        /\ CheckpointTypes' /\ ThreadTypes'
    BY <1>0, <1>7 DEF PopCleanup, ClockTypes, TxnTypes, ProgressTypes, MutexTypes,
                      CheckpointTypes, ThreadTypes
  <2> QED BY <2>2, <2>3, TypeOKPartsNext
<1>8. ASSUME \/ \E t \in Txn : AutomaticCheckpoint(t)
             \/ \E r \in BOOLEAN : ClientCheckpoint(r)
      PROVE  TypeOK'
  <2>1. ThreadTypes'
    BY <1>0, <1>8 DEF AutomaticCheckpoint, ClientCheckpoint, CreateCheckpoint,
                      ThreadTypes, PcValue
  <2>2. client' = client \/ client' = [client EXCEPT !.at = "checkpointing"]
    BY <1>8 DEF AutomaticCheckpoint, ClientCheckpoint
  <2>3. PICK o \in Thread, r \in BOOLEAN : \E type : CreateCheckpoint(o, type, r)
    <3>1. ASSUME NEW t \in Txn, AutomaticCheckpoint(t)
          PROVE  t \in Thread /\ CreateCheckpoint(t, decision[t].type, TRUE)
      BY <3>1 DEF AutomaticCheckpoint, Thread
    <3>2. ASSUME NEW r \in BOOLEAN, ClientCheckpoint(r)
          PROVE  Client \in Thread /\ CreateCheckpoint(Client, client.type, r)
      BY <3>2 DEF ClientCheckpoint, Thread
    <3> QED BY <1>8, <3>1, <3>2
  <2>4. CheckpointTypes'
    BY <1>0, <2>2, <2>3 DEF CreateCheckpoint, CheckpointTypes, CheckpointType
  <2>5. StorageLockTypes'
    BY <1>0, <2>3 DEF CreateCheckpoint, StorageLockTypes
  <2>6. ListTypes' /\ ClockTypes' /\ TxnTypes' /\ ProgressTypes' /\ MutexTypes'
    BY <1>0, <2>3 DEF CreateCheckpoint, ListTypes, ClockTypes, TxnTypes, ProgressTypes,
                      MutexTypes
  <2> QED BY <2>1, <2>4, <2>5, <2>6, TypeOKPartsNext
<1>9. CASE \/ CheckpointStatement \/ ForceCheckpoint \/ ForceLocked \/ ForceInterrupted
           \/ ReadLastCommit \/ ReadLowestBound
  <2>1. client' \in [at : {"idle", "spinning", "locked", "read", "decided", "checkpointing"},
                     last_commit : Timestamp, type : CheckpointType,
                     statements : 0 .. MaxStatements]
    <3>1. CASE CheckpointStatement \/ ForceCheckpoint
      <4>1. \/ client' = [client EXCEPT !.at = "locked", !.statements = @ + 1]
            \/ client' = [client EXCEPT !.at = "spinning", !.statements = @ + 1]
        BY <3>1 DEF CheckpointStatement, ForceCheckpoint
      <4>2. client.statements + 1 \in 0 .. MaxStatements
        BY <1>0, <3>1, ConstantsAssumption
           DEF CheckpointTypes, CheckpointStatement, ForceCheckpoint
      <4> QED BY <1>0, <4>1, <4>2 DEF CheckpointTypes
    <3>2. CASE ForceLocked \/ ForceInterrupted
      BY <1>0, <3>2 DEF CheckpointTypes, ForceLocked, ForceInterrupted
    <3>3. CASE ReadLastCommit \/ ReadLowestBound
      BY <1>0, <3>3, TimestampIsNat
         DEF CheckpointTypes, ReadLastCommit, ReadLowestBound, CheckpointType, ClockTypes
    <3> QED BY <1>9, <3>1, <3>2, <3>3
  <2>2. StorageLockTypes' /\ MutexTypes' /\ UNCHANGED checkpoint
    BY <1>0, <1>9 DEF StorageLockTypes, MutexTypes, Thread, CheckpointStatement,
       ForceCheckpoint, ForceLocked, ForceInterrupted, ReadLastCommit, ReadLowestBound
  <2>3. ListTypes' /\ ClockTypes' /\ TxnTypes' /\ ProgressTypes' /\ ThreadTypes'
    BY <1>0, <1>9 DEF ListTypes, ClockTypes, TxnTypes, ProgressTypes, ThreadTypes,
       CheckpointStatement, ForceCheckpoint, ForceLocked, ForceInterrupted,
       ReadLastCommit, ReadLowestBound
  <2>4. CheckpointTypes'
    BY <1>0, <2>1, <2>2 DEF CheckpointTypes
  <2> QED BY <2>2, <2>3, <2>4, TypeOKPartsNext
<1>10. CASE WALStartCheckpoint
  <2>1. CheckpointTypes'
    BY <1>0, <1>10 DEF WALStartCheckpoint, CheckpointTypes
  <2>2. Ckpt \in Txn
    BY DEF Txn
  <2> QED BY <1>10, <2>1, <2>2, BeginKeepsTypes DEF WALStartCheckpoint
<1>11. CASE WriteTables \/ WALFinishCheckpoint
  <2>1. CheckpointTypes'
    BY <1>0, <1>11 DEF WriteTables, WALFinishCheckpoint, CheckpointTypes
  <2>2. /\ ListTypes' /\ ClockTypes' /\ TxnTypes' /\ ProgressTypes' /\ MutexTypes'
        /\ StorageLockTypes' /\ ThreadTypes'
    BY <1>0, <1>11 DEF WriteTables, WALFinishCheckpoint, ListTypes, ClockTypes,
       TxnTypes, ProgressTypes, MutexTypes, StorageLockTypes, ThreadTypes
  <2> QED BY <2>1, <2>2, TypeOKPartsNext
<1>12. CASE EndCheckpoint
  <2>1. CheckpointTypes'
    <3>1. NoCheckpoint \in [owner : Thread \union {NoThread},
                     phase : {"none", "starting", "writing", "finishing",
                              "committing", "ending"},
                     type : CheckpointType]
      BY DEF NoCheckpoint, CheckpointType
    <3>2. client' \in [at : {"idle", "spinning", "locked", "read", "decided", "checkpointing"},
                     last_commit : Timestamp, type : CheckpointType,
                     statements : 0 .. MaxStatements]
      BY <1>0, <1>12 DEF EndCheckpoint, CheckpointTypes, CheckpointType
    <3>3. checkpoint' = NoCheckpoint
      BY <1>12 DEF EndCheckpoint
    <3> QED BY <3>1, <3>2, <3>3 DEF CheckpointTypes
  <2>2. ThreadTypes'
    <3>1. NoDecision \in DecisionSet
      BY DEF NoDecision, DecisionSet, CheckpointType
    <3>2. pc' \in [Txn -> PcValue]
      BY <1>0, <1>12 DEF EndCheckpoint, ThreadTypes, PcValue
    <3>3. decision' \in [Txn -> DecisionSet]
      BY <1>0, <1>12, <3>1 DEF EndCheckpoint, ThreadTypes
    <3> QED BY <3>2, <3>3 DEF ThreadTypes
  <2>3. /\ ListTypes' /\ ClockTypes' /\ TxnTypes' /\ ProgressTypes' /\ MutexTypes'
        /\ StorageLockTypes'
    BY <1>0, <1>12 DEF EndCheckpoint, ListTypes, ClockTypes, TxnTypes, ProgressTypes,
                       MutexTypes, StorageLockTypes
  <2> QED BY <2>1, <2>2, <2>3, TypeOKPartsNext
<1>13. CASE UNCHANGED vars
  <2>1. /\ ListTypes' /\ ClockTypes' /\ TxnTypes' /\ ProgressTypes' /\ MutexTypes'
        /\ StorageLockTypes' /\ CheckpointTypes' /\ ThreadTypes'
    BY <1>0, <1>13 DEF vars, ListTypes, ClockTypes, TxnTypes, ProgressTypes, MutexTypes,
                       StorageLockTypes, CheckpointTypes, ThreadTypes
  <2> QED BY <2>1, TypeOKPartsNext
<1>14. ASSUME NEW t \in Txn, TxnStep(t) PROVE TypeOK'
  <2>1. Automatic \union {FALSE} \subseteq BOOLEAN
    BY ConstantsAssumption
  <2> QED BY <1>1, <1>2, <1>3, <1>4, <1>5, <1>6, <1>7, <1>8, <1>14, <2>1,
             CommitKeepsTypes, RelockedCommitKeepsTypes, Zenon DEF TxnStep
<1> QED BY <1>8, <1>9, <1>10, <1>11, <1>12, <1>13, <1>14 DEF Next, ClientStep, CheckpointStep

\* The initial timestamp 2 needs a TRANSACTION_ID_START of at least 2.
LEMMA TypeOKInit == Init => TypeOK
<1> SUFFICES ASSUME Init PROVE TypeOK
  OBVIOUS
<1>1. ListTypes /\ ClockTypes /\ TxnTypes
  BY TimestampIsNat, ConstantsAssumption
     DEF Init, ListTypes, ClockTypes, TxnTypes, CleanupQueueType, Timestamp,
         IncludingUncommitted
<1>2. ProgressTypes /\ MutexTypes /\ StorageLockTypes
  BY ConstantsAssumption DEF Init, ProgressTypes, MutexTypes, StorageLockTypes
<1>3. CheckpointTypes /\ ThreadTypes
  BY TimestampIsNat, ConstantsAssumption
     DEF Init, CheckpointTypes, ThreadTypes, DecisionSet, NoDecision, NoCheckpoint,
         CheckpointType, PcValue
<1> QED BY <1>1, <1>2, <1>3, TypeOKParts

\* Nobody holds a lock at first.
LEMMA LocksInvInit == Init => LocksInv
<1> SUFFICES ASSUME Init PROVE LocksInv
  OBVIOUS
<1>0. Ckpt \in Txn /\ NoThread \notin Txn /\ NoThread # Client
  BY ConstantsAssumption DEF Txn
<1>1. DecisionsLocal /\ MutexesHeld
  BY <1>0 DEF Init, DecisionsLocal, DecisionLocal, NoDecision, MutexesHeld, HoldsWal, Ending
<1>2. ExclusiveHeld /\ CheckpointOwned
  BY <1>0 DEF Init, ExclusiveHeld, HoldsCheckpoint, ClientHolds, Ending, CheckpointOwned,
              NoCheckpoint, NoDecision
<1> QED BY <1>1, <1>2 DEF LocksInv

\* Locks are held exactly where the code holds them, step by step.
LEMMA LocksInvNext ==
  TypeOK /\ KeptCommitted /\ LocksInv /\ [Next]_vars => LocksInv'
<1> SUFFICES ASSUME TypeOK, KeptCommitted, LocksInv, [Next]_vars PROVE LocksInv'
  OBVIOUS
<1>0. /\ pc \in [Txn -> PcValue] /\ decision \in [Txn -> DecisionSet]
      /\ changes \in [Txn -> SUBSET Kind] /\ changes[Ckpt] = {}
  BY DEF TypeOK, KeptCommitted, DecisionSet
<1>1. ASSUME NEW t \in Txn, TxnStep(t) PROVE LocksInv'
  <2>1. Automatic \union {FALSE} \subseteq BOOLEAN
    BY ConstantsAssumption
  <2>2. ASSUME NEW e \in BOOLEAN, NEW s \in BOOLEAN, NEW a \in BOOLEAN,
               CommitTransaction(t, e, a, s)
        PROVE  LocksInv'
    BY <1>0, <2>2, CommitKeepsLocks
  <2>3. ASSUME NEW f \in BOOLEAN, CommitUndoBuffer(t, f) \/ CommitBackpedalled(t, f)
        PROVE  LocksInv'
    BY <1>0, <2>3, RelockedCommitKeepsLocks
  <2>4. CASE AutomaticCheckpoint(t)
    BY <1>0, <2>4, CreateCheckpointKeepsLocks
  <2>5. CASE \/ StartTransaction(t)
             \/ \E k \in Kind, made \in BOOLEAN : SetModifications(t, k, made)
             \/ \E f \in BOOLEAN : WriteToWAL(t, f) \/ Backpedal(t, f)
             \/ RollbackTransaction(t)
             \/ TakeCleanupLock(t) \/ CleanupEntry(t) \/ CleanupThrows(t)
             \/ PopCleanup(t) \/ CleanupDone(t)
    BY <1>0, <2>5, OtherTxnStepsKeepLocks
  <2> QED BY <1>1, <2>1, <2>2, <2>3, <2>4, <2>5, Zenon DEF TxnStep
<1>2. CASE ClientStep \/ CheckpointStep
  BY <1>0, <1>2, CreateCheckpointKeepsLocks, CheckpointStepsKeepLocks DEF ClientStep
<1>3. CASE UNCHANGED vars
  BY <1>0, <1>3 DEF vars, txnVars, mutexVars, storageLockVars, ckptVars, LocksInv,
     DecisionsLocal, DecisionLocal, ChangesMade, MutexesHeld, HoldsWal, Ending,
     ExclusiveHeld, HoldsCheckpoint, ClientHolds, CheckpointOwned
<1> QED BY <1>1, <1>2, <1>3 DEF Next

-----------------------------------------------------------------------------
(* The places of a transaction.                                            *)

\* All that is kept has committed with changes that an older snapshot may
\* read behind, and is settled once it is no longer kept.
LEMMA RemovalKeepsPlaces ==
  ASSUME CleanupInv, PlacesInv, TypeOK, NEW t \in Txn, t \in active_transactions,
         NEW store \in BOOLEAN,
         HasOldVersions(t) /\ commit_id'[t] # 0 => store,
         ~store /\ ChangesMade(t) => commit_id'[t] # 0,
         store /\ commit_id'[t] # 0 => ChangesMade(t),
         RemoveTransaction(t, store, commit_id'),
         commit_id' \in [Txn -> Nat],
         \A u \in Txn : commit_id'[u] < TRANSACTION_ID_START,
         \A u \in Txn : u # t => commit_id'[u] = commit_id[u],
         pc' = [pc EXCEPT ![t] = "cleanup"],
         UNCHANGED <<start_time, changes>>
  PROVE  PlacesInv' /\ Removed(t, store)
<1>0. /\ CleanupTypes /\ InOnePlace /\ KeptCommitted
      /\ PlacesApart /\ KeysOwned /\ BoundAttained /\ GoneIsSettled
      /\ pc \in [Txn -> PcValue]
      /\ cleanup_queue \in Seq([transactions : Seq(Txn), bound : Timestamp])
      /\ checkpoint_shared \subseteq Txn /\ vacuum_shared \subseteq Txn
  BY DEF CleanupInv, PlacesInv, TypeOK
<1>1. ~IsKept(t) /\ ~IsQueued(t) /\ t \notin awaiting_cleanup
  BY <1>0 DEF InOnePlace, PlacesApart
<1>2. Removed(t, store)
  BY <1>0, <1>1, RemovalEffects
<1>3. /\ pc'[t] = "cleanup" /\ \A u \in Txn : u # t => pc'[u] = pc[u]
      /\ \A u \in Txn : ChangesMade(u)' = ChangesMade(u)
      /\ active_transactions' = active_transactions \ {t}
  BY <1>0, <1>2 DEF ChangesMade, Removed
<1>4. \A u \in Txn : IsKept(u) => commit_id[u] # 0 /\ u # t /\ u # Ckpt
  BY <1>0, <1>1 DEF KeptCommitted, IsKept, Committed, InOnePlace
<1>5. t = Ckpt => ~ChangesMade(t) /\ ~HasOldVersions(t)
  BY <1>0 DEF KeptCommitted, ChangesMade, HasOldVersions
<1>6. PlacesApart'
  <2>1. ASSUME NEW u \in Txn
        PROVE  /\ u \in active_transactions' <=> Running(u)'
               /\ u \in active_transactions' => commit_id'[u] = 0 \/ u = Ckpt
               /\ pc'[u] = "none" => ~ChangesMade(u)' /\ (commit_id'[u] = 0 \/ u = Ckpt)
    BY <1>0, <1>3 DEF PlacesApart, Running, Committed
  <2>2. ASSUME NEW u \in Txn, IsQueued(u)'
        PROVE  u \notin active_transactions' /\ ~IsKept(u)' /\ pc'[u] # "none"
    <3>1. CASE u = t
      <4>1. ~IsKept(u)'
        BY <1>1, <1>2, <2>2, <3>1 DEF Removed
      <4> QED BY <1>3, <3>1, <4>1
    <3>2. CASE u # t /\ IsQueued(u)
      BY <1>0, <1>2, <1>3, <3>2 DEF PlacesApart, Removed
    <3>3. CASE u # t /\ ~IsQueued(u)
      <4>1. IsKept(u) /\ ~IsKept(u)'
        BY <1>2, <2>2, <3>3 DEF Removed
      <4> QED BY <1>0, <1>3, <3>3, <4>1 DEF InOnePlace
    <3> QED BY <3>1, <3>2, <3>3
  <2>3. ASSUME NEW u \in Txn, u \in awaiting_cleanup'
        PROVE  IsQueued(u)' /\ commit_id'[u] # 0
    <3>1. CASE u \in awaiting_cleanup
      BY <1>0, <1>1, <1>2, <3>1 DEF PlacesApart, Removed, Committed
    <3>2. CASE u \notin awaiting_cleanup /\ u # t
      BY <1>2, <1>4, <2>3, <3>2 DEF Removed
    <3>3. CASE u \notin awaiting_cleanup /\ u = t
      <4>1. ~IsKept(t)' /\ commit_id'[t] # 0
        BY <1>1, <1>2, <2>3, <3>3 DEF Removed
      <4> QED BY <1>2, <2>3, <3>3, <4>1 DEF Removed
    <3> QED BY <3>1, <3>2, <3>3
  <2>4. ASSUME NEW u \in Txn, u = Ckpt PROVE ~IsQueued(u)'
    <3>1. ~IsQueued(u) /\ ~IsKept(u) /\ (u = t => ~ChangesMade(t))
      BY <1>0, <1>5, <2>4 DEF PlacesApart, InOnePlace
    <3> QED BY <1>2, <2>4, <3>1 DEF Removed
  <2>5. \A i, j \in DOMAIN recently_committed_transactions' :
          recently_committed_transactions'[i] = recently_committed_transactions'[j] => i = j
    BY <1>2 DEF Removed
  <2> QED BY <2>1, <2>2, <2>3, <2>4, <2>5 DEF PlacesApart, Committed
<1>7. KeysOwned'
  <2>1. /\ checkpoint_shared' = KeysAfterRemoval(checkpoint_shared, t)
        /\ vacuum_shared' = KeysAfterRemoval(vacuum_shared, t)
    BY DEF RemoveTransaction
  <2>2. ASSUME NEW u \in checkpoint_shared' \union vacuum_shared'
        PROVE  u \in active_transactions' \/ IsKept(u)' \/ IsQueued(u)'
    <3>1. /\ u \in checkpoint_shared \union vacuum_shared
          /\ u = t => ChangesMade(t)
      BY <2>1, <2>2 DEF KeysAfterRemoval
    <3>2. u \in Txn /\ (u \in active_transactions \/ IsKept(u) \/ IsQueued(u))
      BY <1>0, <3>1 DEF KeysOwned
    <3> QED BY <1>2, <3>1, <3>2 DEF Removed
  <2>3. ASSUME NEW u \in Txn, u \in active_transactions' \/ IsKept(u)',
               HasUpdates(u)' \/ HasDroppedEntries(u)'
        PROVE  u \in checkpoint_shared'
    <3>1. HasUpdates(u) \/ HasDroppedEntries(u)
      BY <2>3 DEF HasUpdates, HasDroppedEntries
    <3>2. u \in active_transactions \/ IsKept(u)
      BY <1>2, <2>3 DEF Removed
    <3>3. u \in checkpoint_shared
      BY <1>0, <3>1, <3>2 DEF KeysOwned
    <3>4. u = t => ChangesMade(t)
      BY <3>1 DEF HasUpdates, HasDroppedEntries, ChangesMade
    <3> QED BY <2>1, <3>3, <3>4 DEF KeysAfterRemoval
  <2> QED BY <2>2, <2>3 DEF KeysOwned
<1>8. BoundAttained'
  BY <1>2 DEF Removed, BoundAttained
<1>9. GoneIsSettled'
  <2> SUFFICES ASSUME NEW u \in Txn, commit_id'[u] # 0, HasOldVersions(u), ~IsKept(u)',
                      NEW a \in active_transactions'
               PROVE  ~(start_time[a] <= commit_id'[u])
    BY DEF GoneIsSettled, Committed, HasOldVersions, Precedes
  <2>1. CASE u = t
    BY <1>2, <2>1 DEF Removed
  <2>2. CASE u # t /\ IsKept(u)
    BY <1>2, <2>2 DEF Removed
  <2>3. CASE u # t /\ ~IsKept(u)
    <3>1. commit_id[u] # 0 /\ a \in active_transactions
      BY <1>3, <2>3
    <3> QED BY <1>0, <2>3, <3>1 DEF GoneIsSettled, Committed, Precedes
  <2> QED BY <2>1, <2>2, <2>3
<1> QED BY <1>2, <1>6, <1>7, <1>8, <1>9 DEF PlacesInv

\* What a commit does to the places, whichever way it came.
LEMMA CommitEffects ==
  ASSUME CleanupInv, PlacesInv, TypeOK, NEW t \in Txn, Running(t), NEW d, NEW X,
         FinishCommit(t, d, X)
  PROVE  /\ PlacesInv' /\ Removed(t, StoreTransaction(t) \/ d.error)
         /\ t \in active_transactions /\ ~IsKept(t) /\ ~IsQueued(t)
         /\ commit_id'[t] = IF ~d.error THEN current_start_timestamp ELSE 0
         /\ \A u \in Txn : u # t => commit_id'[u] = commit_id[u]
         /\ current_start_timestamp \in Nat \ {0}
         /\ current_start_timestamp' = current_start_timestamp + 1
         /\ pc'[t] = "cleanup" /\ \A u \in Txn : u # t => pc'[u] = pc[u]
         /\ UNCHANGED <<start_time, changes>>
<1>0. /\ CleanupTypes /\ TimestampsPast /\ InOnePlace /\ PlacesApart
      /\ pc \in [Txn -> PcValue]
  BY DEF CleanupInv, PlacesInv, TypeOK
<1>1. t \in active_transactions /\ ~IsKept(t) /\ ~IsQueued(t)
  BY <1>0 DEF InOnePlace, PlacesApart
<1>2. current_start_timestamp \in Nat \ {0} /\ current_start_timestamp < TRANSACTION_ID_START
  <2>1. start_time[t] \in Nat /\ start_time[t] < current_start_timestamp
    BY <1>0 DEF CleanupTypes, TimestampsPast
  <2> QED BY <1>0, <2>1 DEF CleanupTypes, FinishCommit
<1> DEFINE store == StoreTransaction(t) \/ d.error
<1>3. /\ current_start_timestamp' = current_start_timestamp + 1
      /\ commit_id' = [commit_id EXCEPT
                         ![t] = IF ~d.error THEN current_start_timestamp ELSE 0]
      /\ RemoveTransaction(t, store, commit_id')
      /\ pc' = [pc EXCEPT ![t] = "cleanup"]
      /\ UNCHANGED <<start_time, changes>>
  BY DEF FinishCommit
<1>4. /\ commit_id' \in [Txn -> Nat]
      /\ \A u \in Txn : u # t => commit_id'[u] = commit_id[u]
      /\ commit_id'[t] = IF ~d.error THEN current_start_timestamp ELSE 0
  BY <1>0, <1>2, <1>3 DEF CleanupTypes
<1>5. \A u \in Txn : commit_id'[u] < TRANSACTION_ID_START
  <2> SUFFICES ASSUME NEW u \in Txn PROVE commit_id'[u] < TRANSACTION_ID_START
    OBVIOUS
  <2>1. commit_id[u] \in Nat /\ commit_id[u] < current_start_timestamp
    BY <1>0 DEF CleanupTypes, TimestampsPast
  <2>2. TRANSACTION_ID_START \in Nat \ {0}
    BY ConstantsAssumption
  <2> QED BY <1>2, <1>4, <2>1, <2>2
<1>6. /\ store \in BOOLEAN
      /\ HasOldVersions(t) => store
      /\ ~store /\ ChangesMade(t) => commit_id'[t] # 0
      /\ store /\ commit_id'[t] # 0 => ChangesMade(t)
  <2>1. HasOldVersions(t) => StoreTransaction(t)
    BY <1>0, StoredIfOldVersions DEF CleanupTypes
  <2>2. StoreTransaction(t) => ChangesMade(t)
    BY DEF StoreTransaction, HasUpdates, HasIndexDeletes, HasCatalogChanges, ChangesMade
  <2> QED BY <1>2, <1>4, <2>1, <2>2
<1> HIDE DEF store
<1>7. PlacesInv' /\ Removed(t, store)
  BY <1>1, <1>3, <1>4, <1>5, <1>6, RemovalKeepsPlaces
<1>8. pc'[t] = "cleanup" /\ \A u \in Txn : u # t => pc'[u] = pc[u]
  BY <1>0, <1>3
<1> QED BY <1>1, <1>2, <1>3, <1>4, <1>7, <1>8 DEF store

\* What a rollback does to the places.
LEMMA RollbackEffects ==
  ASSUME CleanupInv, PlacesInv, TypeOK, NEW t \in Txn, RollbackTransaction(t)
  PROVE  /\ PlacesInv' /\ Removed(t, ChangesMade(t)) /\ commit_id'[t] = 0
         /\ t \in active_transactions /\ ~IsKept(t) /\ ~IsQueued(t)
         /\ pc'[t] = "cleanup" /\ \A u \in Txn : u # t => pc'[u] = pc[u]
         /\ UNCHANGED <<clockVars, start_time, commit_id, catalog_version, changes>>
<1>0. /\ CleanupTypes /\ TimestampsPast /\ InOnePlace /\ PlacesApart
      /\ pc \in [Txn -> PcValue]
  BY DEF CleanupInv, PlacesInv, TypeOK
<1>1. /\ RemoveTransaction(t, ChangesMade(t), commit_id')
      /\ UNCHANGED <<clockVars, start_time, commit_id, catalog_version, changes>>
      /\ pc' = [pc EXCEPT ![t] = "cleanup"] /\ pc[t] = "active" /\ t # Ckpt
  BY DEF RollbackTransaction, txnVars
<1>2. t \in active_transactions /\ ~IsKept(t) /\ ~IsQueued(t)
  BY <1>0, <1>1 DEF InOnePlace, PlacesApart, Running
<1>3. commit_id'[t] = 0
  BY <1>0, <1>1, <1>2 DEF PlacesApart, Committed
<1>4. \A u \in Txn : commit_id'[u] < TRANSACTION_ID_START
  <2> SUFFICES ASSUME NEW u \in Txn PROVE commit_id[u] < TRANSACTION_ID_START
    BY <1>1
  <2>1. commit_id[u] \in Nat /\ commit_id[u] < current_start_timestamp
    BY <1>0 DEF CleanupTypes, TimestampsPast
  <2>2. /\ TRANSACTION_ID_START \in Nat \ {0}
        /\ current_start_timestamp \in 1 .. TRANSACTION_ID_START
    BY ConstantsAssumption DEF TypeOK
  <2> QED BY <2>1, <2>2
<1>5. commit_id' \in [Txn -> Nat] /\ \A u \in Txn : u # t => commit_id'[u] = commit_id[u]
  BY <1>0, <1>1 DEF CleanupTypes
<1> DEFINE store == ChangesMade(t)
<1>6. /\ store \in BOOLEAN
      /\ HasOldVersions(t) /\ commit_id'[t] # 0 => store
      /\ ~store /\ ChangesMade(t) => commit_id'[t] # 0
      /\ store /\ commit_id'[t] # 0 => ChangesMade(t)
      /\ RemoveTransaction(t, store, commit_id')
  BY <1>1, <1>3 DEF ChangesMade
<1> HIDE DEF store
<1>7. PlacesInv' /\ Removed(t, store)
  BY <1>1, <1>2, <1>4, <1>5, <1>6, RemovalKeepsPlaces
<1>8. pc'[t] = "cleanup" /\ \A u \in Txn : u # t => pc'[u] = pc[u]
  BY <1>0, <1>1
<1> QED BY <1>1, <1>2, <1>3, <1>7, <1>8 DEF store

\* A new transaction starts after everything that has committed.
LEMMA BeginKeepsPlaces ==
  ASSUME CleanupInv, PlacesInv, TypeOK, NEW t \in Txn, pc[t] = "none", Begin(t),
         UNCHANGED <<recently_committed_transactions, cleanup_queue, awaiting_cleanup,
                     commit_id, changes, checkpoint_shared, vacuum_shared>>
  PROVE  PlacesInv'
<1>0. /\ CleanupTypes /\ TimestampsPast /\ InOnePlace /\ KeptCommitted
      /\ PlacesApart /\ KeysOwned /\ BoundAttained /\ GoneIsSettled
      /\ pc \in [Txn -> PcValue]
  BY DEF CleanupInv, PlacesInv, TypeOK
<1>1. /\ start_time' = [start_time EXCEPT ![t] = current_start_timestamp]
      /\ lowest_visibility_bound' = IF active_transactions = {}
                                    THEN current_start_timestamp
                                    ELSE lowest_visibility_bound
      /\ active_transactions' = active_transactions \union {t}
      /\ pc' = [pc EXCEPT ![t] = "active"]
  BY DEF Begin
<1>2. /\ t \notin active_transactions /\ ~IsQueued(t) /\ ~IsKept(t) /\ ~ChangesMade(t)
      /\ ~Committed(t) \/ t = Ckpt
  BY <1>0 DEF PlacesApart, InOnePlace, Running
<1>3. /\ pc'[t] = "active" /\ \A u \in Txn : u # t => pc'[u] = pc[u]
      /\ start_time'[t] = current_start_timestamp
      /\ \A u \in Txn : u # t => start_time'[u] = start_time[u]
      /\ \A u \in Txn : /\ IsQueued(u)' <=> IsQueued(u)
                        /\ IsKept(u)' <=> IsKept(u)
  BY <1>0, <1>1 DEF CleanupTypes, IsQueued, IsKept
<1>4. PlacesApart'
  BY <1>0, <1>1, <1>2, <1>3 DEF PlacesApart, Running, Committed, ChangesMade
<1>5. KeysOwned'
  <2>1. ~HasUpdates(t) /\ ~HasDroppedEntries(t)
    BY <1>2 DEF ChangesMade, HasUpdates, HasDroppedEntries
  <2>2. checkpoint_shared \subseteq Txn /\ vacuum_shared \subseteq Txn
    BY DEF TypeOK
  <2> QED BY <1>0, <1>1, <1>3, <2>1, <2>2 DEF KeysOwned, HasUpdates, HasDroppedEntries
<1>6. BoundAttained'
  <2>1. \E a \in active_transactions' : start_time'[a] = lowest_visibility_bound'
    <3>1. CASE active_transactions = {}
      BY <1>1, <1>3, <3>1
    <3>2. CASE active_transactions # {}
      BY <1>0, <1>1, <1>2, <1>3, <3>2 DEF BoundAttained, CleanupTypes
    <3> QED BY <3>1, <3>2
  <2>2. recently_committed_transactions # <<>> =>
          lowest_visibility_bound' <= commit_id[Head(recently_committed_transactions)]
    BY <1>0, <1>1 DEF BoundAttained
  <2> QED BY <1>1, <2>1, <2>2 DEF BoundAttained
<1>7. GoneIsSettled'
  <2> SUFFICES ASSUME NEW u \in Txn, Committed(u), HasOldVersions(u), ~IsKept(u),
                      NEW a \in active_transactions \union {t}
               PROVE  ~(start_time'[a] <= commit_id[u])
    BY <1>1, <1>3 DEF GoneIsSettled, Committed, HasOldVersions, Precedes
  <2>1. CASE a = t
    <3>1. /\ commit_id[u] \in Nat /\ commit_id[u] < current_start_timestamp
          /\ current_start_timestamp \in Nat
      BY <1>0 DEF CleanupTypes, TimestampsPast
    <3> QED BY <1>3, <2>1, <3>1
  <2>2. CASE a # t
    BY <1>0, <1>3, <2>2 DEF GoneIsSettled, Precedes, CleanupTypes
  <2> QED BY <2>1, <2>2
<1> QED BY <1>4, <1>5, <1>6, <1>7 DEF PlacesInv

\* A change is made with the lock that it needs.
LEMMA SetModificationsKeepsPlaces ==
  ASSUME CleanupInv, PlacesInv, TypeOK, NEW t \in Txn, NEW k \in Kind, NEW made \in BOOLEAN,
         SetModifications(t, k, made)
  PROVE  PlacesInv'
<1>0. /\ CleanupTypes /\ PlacesApart /\ KeysOwned /\ BoundAttained /\ GoneIsSettled
  BY DEF CleanupInv, PlacesInv
<1>1. /\ t # Ckpt /\ pc[t] = "active"
      /\ UNCHANGED <<listVars, start_time, commit_id, pc>>
      /\ changes' = IF made THEN [changes EXCEPT ![t] = @ \union {k}] ELSE changes
      /\ checkpoint_shared' = IF NeedsCheckpointLock(k)
                              THEN checkpoint_shared \union {t} ELSE checkpoint_shared
      /\ vacuum_shared' = IF NeedsVacuumLock(k)
                          THEN vacuum_shared \union {t} ELSE vacuum_shared
  BY ConstantsAssumption DEF SetModifications
<1>2. t \in active_transactions /\ ~Committed(t)
  BY <1>0, <1>1 DEF PlacesApart, Running
<1>3. /\ \A u \in Txn : u # t => changes'[u] = changes[u]
      /\ changes'[t] = changes[t] \/ changes'[t] = changes[t] \union {k}
      /\ \A u \in Txn : (IsQueued(u)' <=> IsQueued(u)) /\ (IsKept(u)' <=> IsKept(u))
  BY <1>0, <1>1 DEF CleanupTypes, IsQueued, IsKept, listVars
<1>4. PlacesApart' /\ BoundAttained'
  BY <1>0, <1>1, <1>2, <1>3
     DEF PlacesApart, BoundAttained, Running, Committed, ChangesMade, listVars
<1>5. KeysOwned'
  <2>1. checkpoint_shared \subseteq Txn /\ vacuum_shared \subseteq Txn
    BY DEF TypeOK
  <2>2. ASSUME NEW u \in checkpoint_shared' \union vacuum_shared'
        PROVE  u \in active_transactions \/ IsKept(u)' \/ IsQueued(u)'
    BY <1>0, <1>1, <1>2, <1>3, <2>1 DEF KeysOwned
  <2>3. ASSUME NEW u \in Txn, u \in active_transactions \/ IsKept(u),
               HasUpdates(u)' \/ HasDroppedEntries(u)'
        PROVE  u \in checkpoint_shared'
    <3>1. CASE HasUpdates(u) \/ HasDroppedEntries(u)
      BY <1>0, <1>1, <2>3, <3>1 DEF KeysOwned
    <3>2. CASE ~(HasUpdates(u) \/ HasDroppedEntries(u))
      <4>1. u = t /\ k \in {"update", "drop"}
        BY <1>3, <2>3, <3>2 DEF HasUpdates, HasDroppedEntries
      <4> QED BY <1>1, <4>1 DEF NeedsCheckpointLock
    <3> QED BY <3>1, <3>2
  <2> QED BY <1>1, <1>3, <2>2, <2>3 DEF KeysOwned, listVars
<1>6. GoneIsSettled'
  BY <1>0, <1>1, <1>2, <1>3
     DEF GoneIsSettled, Committed, HasOldVersions, Precedes, listVars
<1> QED BY <1>4, <1>5, <1>6 DEF PlacesInv

-----------------------------------------------------------------------------
(* What a step is to the transactions: seven kinds.                        *)

\* a commit that reaches its end, with the locals d at that point
Committing(t, d, X) ==
  /\ Running(t) /\ FinishCommit(t, d, X)
  /\ ~d.error /\ d.can => GetCheckpointType(t) # "none"
  /\ ~d.error /\ ChangesMade(t) => pc[t] \in {"relock", "backpedalled"}

\* a transaction begins
Starting(t) ==
  /\ pc[t] = "none" /\ Begin(t)
  /\ UNCHANGED <<last_committed_version, recently_committed_transactions, cleanup_queue,
                 awaiting_cleanup, commit_id, changes, decision, cleanVars,
                 checkpoint_shared, vacuum_shared>>

\* only threads and locks move on, or a pass of the clean-up is given up
Passing ==
  /\ UNCHANGED <<listVars, clockVars, txnVars, cleaned_up_entries, applied,
                 checkpoint_shared, vacuum_shared>>
  /\ pass' \in {pass, 0}
  /\ \A u \in Txn :
       /\ Running(u)' <=> Running(u)
       /\ pc'[u] = "none" => pc[u] = "none" \/ u = Ckpt
       /\ Ending(u)' => /\ decision'[u].can => Ending(u) /\ decision[u].can
                        /\ decision'[u].skip => Ending(u) /\ decision[u].skip

\* Every step is of one of seven kinds.
LEMMA StepKinds ==
  ASSUME TypeOK, KeptCommitted, LocksInv, [Next]_vars
  PROVE  \/ \E t \in Txn : Starting(t)
         \/ \E t \in Txn : \E d \in DecisionSet : \E X : Committing(t, d, X)
         \/ \E t \in Txn : RollbackTransaction(t)
         \/ \E t \in Txn : \E k \in Kind : \E made \in BOOLEAN : SetModifications(t, k, made)
         \/ \E t \in Txn : CleanupEntry(t)
         \/ \E t \in Txn : PopCleanup(t)
         \/ Passing
<1>0. /\ pc \in [Txn -> PcValue] /\ decision \in [Txn -> DecisionSet]
      /\ DecisionsLocal /\ CheckpointOwned
      /\ pass \in 0 .. NumEntries /\ Ckpt \in Txn
  BY DEF TypeOK, DecisionSet, LocksInv, Txn
<1> DEFINE Commits(t) == \E d \in DecisionSet : \E X : Committing(t, d, X)
<1>1. ASSUME NEW t \in Txn, StartTransaction(t) PROVE Starting(t)
  BY <1>1 DEF StartTransaction, Starting, storageLockVars
<1>2. ASSUME NEW t \in Txn, NEW e \in BOOLEAN, NEW a \in BOOLEAN, NEW s \in BOOLEAN,
             CommitTransaction(t, e, a, s)
      PROVE  Commits(t) \/ Passing
  <2> DEFINE can == a /\ CanTakeCheckpointLock(t)
             X   == IF can THEN {t} ELSE checkpoint_exclusive
             d   == [can |-> can, skip |-> can /\ s, error |-> e,
                     type |-> "FULL_CHECKPOINT"]
  <2>1. can \in BOOLEAN
    BY DEF CanTakeCheckpointLock
  <2>2. d \in DecisionSet /\ d.error = e /\ pc[t] = "active"
    BY <1>2, <2>1 DEF DecisionSet, CheckpointType, CommitTransaction
  <2>3. CASE ChangesMade(t) /\ ~e
    <3>1. /\ pc' = [pc EXCEPT ![t] = "wal"] /\ decision' = [decision EXCEPT ![t] = d]
          /\ UNCHANGED <<listVars, clockVars, txnVars, cleanVars, checkpoint_shared,
                         vacuum_shared>>
      BY <1>2, <2>3 DEF CommitTransaction
    <3> HIDE DEF d
    <3> QED BY <1>0, <2>2, <3>1 DEF Passing, cleanVars, Running, Ending
  <2>4. CASE ~(ChangesMade(t) /\ ~e)
    <3>1. FinishCommit(t, d, X)
      BY <1>2, <2>4 DEF CommitTransaction
    <3>2. ~d.error => ~ChangesMade(t)
      BY <2>2, <2>4
    <3>3. ~d.error => GetCheckpointType(t) # "none"
      BY <3>2 DEF GetCheckpointType, HasUpdates, HasDroppedEntries, ChangesMade
    <3>4. Running(t)
      BY <2>2 DEF Running
    <3> HIDE DEF d, X
    <3>5. Committing(t, d, X)
      BY <3>1, <3>2, <3>3, <3>4 DEF Committing
    <3> QED BY <2>2, <3>5
  <2> QED BY <2>3, <2>4
<1>3. ASSUME NEW t \in Txn, NEW f \in BOOLEAN, CommitUndoBuffer(t, f) PROVE Commits(t)
  <2> DEFINE d    == decision[t]
             type == GetCheckpointType(t)
             e    == [d EXCEPT !.error = d.error \/ f]
  <2>1. /\ d \in DecisionSet /\ pc[t] = "relock" /\ Running(t)
        /\ type \in CheckpointType \union {"none"}
    BY <1>0, <1>3 DEF CommitUndoBuffer, Running, GetCheckpointType, CheckpointType
  <2>2. e \in DecisionSet /\ e.can = d.can /\ e.error = (d.error \/ f)
    <3> HIDE DEF d
    <3> QED BY <2>1 DEF DecisionSet
  <2>3. CASE ~d.error /\ d.can /\ type = "none"
    <3> DEFINE g == [e EXCEPT !.can = FALSE]
    <3>1. FinishCommit(t, g, checkpoint_exclusive)
      BY <1>3, <2>3 DEF CommitUndoBuffer
    <3>2. g \in DecisionSet /\ ~g.can
      <4> HIDE DEF e
      <4> QED BY <2>2 DEF DecisionSet
    <3> HIDE DEF g
    <3>3. Committing(t, g, checkpoint_exclusive)
      BY <2>1, <3>1, <3>2 DEF Committing
    <3> QED BY <3>2, <3>3
  <2>4. CASE ~d.error /\ d.can /\ type # "none"
    <3> DEFINE g == [e EXCEPT !.type = type]
    <3>1. FinishCommit(t, g, checkpoint_exclusive)
      BY <1>3, <2>4 DEF CommitUndoBuffer
    <3>2. g \in DecisionSet
      <4> HIDE DEF e, type
      <4> QED BY <2>1, <2>2, <2>4 DEF DecisionSet
    <3> HIDE DEF g
    <3>3. Committing(t, g, checkpoint_exclusive)
      BY <2>1, <2>4, <3>1, <3>2 DEF Committing
    <3> QED BY <3>2, <3>3
  <2>5. CASE ~(~d.error /\ d.can)
    <3>1. FinishCommit(t, e, checkpoint_exclusive)
      BY <1>3, <2>5 DEF CommitUndoBuffer
    <3>2. ~(~e.error /\ e.can)
      BY <2>2, <2>5
    <3> HIDE DEF e
    <3>3. Committing(t, e, checkpoint_exclusive)
      BY <2>1, <3>1, <3>2 DEF Committing
    <3> QED BY <2>2, <3>3
  <2> QED BY <2>3, <2>4, <2>5
<1>4. ASSUME NEW t \in Txn, NEW f \in BOOLEAN, CommitBackpedalled(t, f) PROVE Commits(t)
  <2> DEFINE d == decision[t]
             g == [d EXCEPT !.error = d.error \/ f]
  <2>1. d \in DecisionSet /\ pc[t] = "backpedalled" /\ Running(t) /\ ~d.can
    BY <1>0, <1>4 DEF CommitBackpedalled, Running, DecisionsLocal, DecisionLocal
  <2>2. FinishCommit(t, g, checkpoint_exclusive)
    BY <1>4 DEF CommitBackpedalled
  <2>3. g \in DecisionSet /\ ~g.can
    <3> HIDE DEF d
    <3> QED BY <2>1 DEF DecisionSet
  <2> HIDE DEF g
  <2>4. Committing(t, g, checkpoint_exclusive)
    BY <2>1, <2>2, <2>3 DEF Committing
  <2> QED BY <2>3, <2>4
<1>5. ASSUME NEW t \in Txn, NEW f \in BOOLEAN, WriteToWAL(t, f) PROVE Passing
  BY <1>0, <1>5 DEF WriteToWAL, Passing, cleanVars, storageLockVars, Running, Ending
<1>6. ASSUME NEW t \in Txn, NEW f \in BOOLEAN, Backpedal(t, f) PROVE Passing
  BY <1>0, <1>6 DEF Backpedal, Passing, cleanVars, storageLockVars, Running, Ending
<1>7. ASSUME NEW t \in Txn, TakeCleanupLock(t) PROVE Passing
  BY <1>0, <1>7 DEF TakeCleanupLock, Passing, cleanVars, storageLockVars, Running, Ending
<1>8. ASSUME NEW t \in Txn, CleanupThrows(t) \/ CleanupDone(t) PROVE Passing
  <2>1. /\ UNCHANGED <<listVars, clockVars, txnVars, cleaned_up_entries, applied,
                       checkpoint_shared, vacuum_shared>>
        /\ pass' \in {pass, 0} /\ LeaveCleanup(t) /\ pc[t] = "cleaning"
    BY <1>8 DEF CleanupThrows, CleanupDone, cleanVars, storageLockVars
  <2>2. /\ pc' = [pc EXCEPT ![t] = IF decision[t].can THEN "checkpoint" ELSE "done"]
        /\ decision' = [decision EXCEPT ![t] = IF decision[t].can THEN decision[t]
                                               ELSE NoDecision]
    BY <2>1 DEF LeaveCleanup
  <2> QED BY <1>0, <2>1, <2>2 DEF Passing, Running, Ending, NoDecision
<1>9. ASSUME NEW t \in Txn, AutomaticCheckpoint(t) PROVE Passing
  BY <1>0, <1>9 DEF AutomaticCheckpoint, CreateCheckpoint, Passing, cleanVars, Running, Ending
<1>10. CASE ClientStep \/ WriteTables \/ WALFinishCheckpoint \/ UNCHANGED vars
  <2>1. UNCHANGED <<listVars, clockVars, txnVars, cleanVars, checkpoint_shared,
                    vacuum_shared, pc, decision>>
    BY <1>10 DEF ClientStep, CheckpointStatement, ForceCheckpoint, ForceLocked,
       ForceInterrupted, ReadLastCommit, ReadLowestBound, ClientCheckpoint,
       CreateCheckpoint, WriteTables, WALFinishCheckpoint, vars, storageLockVars
  <2> QED BY <1>0, <2>1 DEF Passing, cleanVars, Running, Ending
<1>11. CASE WALStartCheckpoint
  <2>1. Starting(Ckpt)
    BY <1>0, <1>11 DEF WALStartCheckpoint, Starting, CheckpointOwned, storageLockVars
  <2> QED BY <1>0, <2>1
<1>12. CASE EndCheckpoint
  <2>1. /\ UNCHANGED <<listVars, clockVars, txnVars, cleanVars, checkpoint_shared,
                       vacuum_shared>>
        /\ pc' = [t \in Txn |-> IF t = Ckpt THEN "none"
                                ELSE IF t = checkpoint.owner THEN "done" ELSE pc[t]]
        /\ decision' = [t \in Txn |-> IF t = checkpoint.owner THEN NoDecision
                                      ELSE decision[t]]
        /\ pc[Ckpt] \in {"none", "done"}
    BY <1>0, <1>12 DEF EndCheckpoint, CheckpointOwned
  <2>2. \A u \in Txn : checkpoint.owner = u => pc[u] = "checkpointing"
    BY <1>0 DEF CheckpointOwned
  <2> QED BY <1>0, <2>1, <2>2 DEF Passing, cleanVars, Running, Ending
<1>13. ASSUME NEW t \in Txn, TxnStep(t)
       PROVE  \/ Starting(t) \/ Commits(t) \/ RollbackTransaction(t)
              \/ \E k \in Kind : \E made \in BOOLEAN : SetModifications(t, k, made)
              \/ CleanupEntry(t) \/ PopCleanup(t) \/ Passing
  <2>1. Automatic \union {FALSE} \subseteq BOOLEAN
    BY ConstantsAssumption
  <2> HIDE DEF Commits
  <2> QED BY <1>1, <1>2, <1>3, <1>4, <1>5, <1>6, <1>7, <1>8, <1>9, <1>13, <2>1, Zenon
             DEF TxnStep
<1> QED BY <1>10, <1>11, <1>12, <1>13 DEF Next, CheckpointStep

\* Steps that leave the lists alone but for the end of a clean-up.
LEMMA PassingKeepsPlaces ==
  ASSUME CleanupInv, PlacesInv, TypeOK,
         UNCHANGED <<active_transactions, lowest_visibility_bound, cleanup_queue,
                     recently_committed_transactions, start_time, commit_id, changes,
                     checkpoint_shared, vacuum_shared>>,
         awaiting_cleanup' \subseteq awaiting_cleanup,
         \A u \in Txn : /\ Running(u)' <=> Running(u)
                        /\ pc'[u] = "none" => pc[u] = "none" \/ u = Ckpt
  PROVE  PlacesInv'
<1>0. /\ PlacesApart /\ KeysOwned /\ BoundAttained /\ GoneIsSettled /\ KeptCommitted
  BY DEF CleanupInv, PlacesInv
<1>1. \A u \in Txn : /\ IsQueued(u)' <=> IsQueued(u)
                     /\ IsKept(u)' <=> IsKept(u)
                     /\ Committed(u)' <=> Committed(u)
                     /\ ChangesMade(u)' <=> ChangesMade(u)
  BY DEF IsQueued, IsKept, Committed, ChangesMade
<1>2. PlacesApart'
  <2>1. ~ChangesMade(Ckpt)
    BY <1>0 DEF KeptCommitted, ChangesMade
  <2> QED BY <1>0, <1>1, <2>1 DEF PlacesApart
<1>3. KeysOwned'
  <2>1. checkpoint_shared \union vacuum_shared \subseteq Txn
    BY DEF TypeOK
  <2> QED BY <1>0, <1>1, <2>1 DEF KeysOwned, HasUpdates, HasDroppedEntries
<1>4. BoundAttained'
  BY <1>0 DEF BoundAttained
<1>5. GoneIsSettled'
  BY <1>0, <1>1 DEF GoneIsSettled, HasOldVersions, Precedes
<1> QED BY <1>2, <1>3, <1>4, <1>5 DEF PlacesInv

\* A transaction is destroyed with the front entry, or it stays queued.
LEMMA PopEffects ==
  ASSUME PlacesInv, TypeOK, NEW t \in Txn, PopCleanup(t)
  PROVE  \A u \in Txn :
           /\ IsQueued(u) <=> \/ IsQueued(u)'
                              \/ u \in ToSet(Head(cleanup_queue).transactions)
           /\ u \in ToSet(Head(cleanup_queue).transactions) => u \notin awaiting_cleanup
<1> DEFINE Q == [transactions : Seq(Txn), bound : Timestamp]
           front == Head(cleanup_queue).transactions
<1>1. cleanup_queue \in Seq(Q) /\ cleanup_queue # <<>>
  BY DEF TypeOK, PopCleanup
<1>2. cleanup_queue' = Tail(cleanup_queue) /\ Remaining = {}
  BY DEF PopCleanup
<1>3. /\ Len(cleanup_queue) \in Nat \ {0} /\ Head(cleanup_queue) = cleanup_queue[1]
      /\ DOMAIN cleanup_queue = 1 .. Len(cleanup_queue)
      /\ DOMAIN cleanup_queue' = 1 .. Len(cleanup_queue) - 1
      /\ \A i \in 1 .. Len(cleanup_queue) - 1 : cleanup_queue'[i] = cleanup_queue[i + 1]
  <2> HIDE DEF Q
  <2> QED BY <1>1, <1>2
<1>4. front \in Seq(Txn)
  <2>1. cleanup_queue[1] \in Q
    <3> HIDE DEF Q
    <3> QED BY <1>1, <1>3
  <2> QED BY <1>3, <2>1
<1>5. \A u \in Txn : u \in ToSet(front) <=> \E j \in DOMAIN front : front[j] = u
  <2> HIDE DEF front
  <2> QED BY <1>4 DEF ToSet
<1>6. ASSUME NEW u \in Txn, u \in ToSet(front) PROVE u \notin awaiting_cleanup
  BY <1>2, <1>5, <1>6 DEF Remaining
<1>7. ASSUME NEW u \in Txn
      PROVE  IsQueued(u) <=> IsQueued(u)' \/ u \in ToSet(front)
  <2> DEFINE In(e) == \E j \in DOMAIN e.transactions : e.transactions[j] = u
             n == Len(cleanup_queue)
  <2>1. IsQueued(u) <=> \E i \in 1 .. n : In(cleanup_queue[i])
    BY <1>3 DEF IsQueued
  <2>2. IsQueued(u)' <=> \E i \in 1 .. n - 1 : In(cleanup_queue'[i])
    BY <1>3 DEF IsQueued
  <2>3. u \in ToSet(front) <=> In(cleanup_queue[1])
    BY <1>3, <1>5
  <2> HIDE DEF In, front
  <2>4. n \in Nat \ {0} /\ \A i \in 1 .. n - 1 : cleanup_queue'[i] = cleanup_queue[i + 1]
    BY <1>3
  <2> HIDE DEF n
  <2>5. ASSUME NEW i \in 1 .. n, In(cleanup_queue[i])
        PROVE  In(cleanup_queue[1]) \/ \E k \in 1 .. n - 1 : In(cleanup_queue'[k])
    <3>1. CASE i = 1
      BY <2>5, <3>1
    <3>2. CASE i # 1
      <4>1. i - 1 \in 1 .. n - 1 /\ (i - 1) + 1 = i
        BY <2>4, <3>2
      <4> QED BY <2>4, <2>5, <4>1
    <3> QED BY <3>1, <3>2
  <2>6. ASSUME NEW k \in 1 .. n - 1, In(cleanup_queue'[k])
        PROVE  \E i \in 1 .. n : In(cleanup_queue[i])
    <3>1. k + 1 \in 1 .. n
      BY <2>4
    <3> QED BY <2>4, <2>6, <3>1
  <2>7. 1 \in 1 .. n
    BY <2>4
  <2> QED BY <2>1, <2>2, <2>3, <2>5, <2>6, <2>7
<1> QED BY <1>6, <1>7

\* Destroying what was queued takes nothing away that is running or kept.
LEMMA PopKeepsPlaces ==
  ASSUME CleanupInv, PlacesInv, TypeOK, NEW t \in Txn, PopCleanup(t)
  PROVE  PlacesInv'
<1>0. /\ PlacesApart /\ KeysOwned /\ BoundAttained /\ GoneIsSettled
      /\ checkpoint_shared \union vacuum_shared \subseteq Txn
  BY DEF PlacesInv, TypeOK
<1> DEFINE dead == ToSet(Head(cleanup_queue).transactions)
<1>1. /\ UNCHANGED <<active_transactions, lowest_visibility_bound,
                     recently_committed_transactions, awaiting_cleanup, start_time,
                     commit_id, changes, pc>>
      /\ checkpoint_shared' = checkpoint_shared \ dead
      /\ vacuum_shared' = vacuum_shared \ dead
  BY DEF PopCleanup, txnVars, DestroyedWith
<1>2. \A u \in Txn : /\ IsKept(u)' <=> IsKept(u)
                     /\ Committed(u)' <=> Committed(u)
                     /\ ChangesMade(u)' <=> ChangesMade(u)
                     /\ Running(u)' <=> Running(u)
                     /\ IsQueued(u) <=> IsQueued(u)' \/ u \in dead
                     /\ u \in dead => u \notin awaiting_cleanup
  <2>1. \A u \in Txn : /\ IsQueued(u) <=> IsQueued(u)' \/ u \in dead
                       /\ u \in dead => u \notin awaiting_cleanup
    BY PopEffects
  <2> HIDE DEF dead
  <2> QED BY <1>1, <2>1 DEF IsKept, Committed, ChangesMade, Running
<1> HIDE DEF dead
<1>3. PlacesApart'
  BY <1>0, <1>1, <1>2 DEF PlacesApart
<1>4. KeysOwned'
  <2>1. \A u \in Txn : u \in dead => u \notin active_transactions /\ ~IsKept(u)
    BY <1>0, <1>2 DEF PlacesApart
  <2> QED BY <1>0, <1>1, <1>2, <2>1 DEF KeysOwned, HasUpdates, HasDroppedEntries
<1>5. BoundAttained'
  BY <1>0, <1>1 DEF BoundAttained
<1>6. GoneIsSettled'
  BY <1>0, <1>1, <1>2 DEF GoneIsSettled, HasOldVersions, Precedes
<1> QED BY <1>3, <1>4, <1>5, <1>6 DEF PlacesInv

\* One entry of a clean-up only shortens what awaits it.
LEMMA CleanupEntryKeepsPlaces ==
  ASSUME CleanupInv, PlacesInv, TypeOK, NEW t \in Txn, CleanupEntry(t)
  PROVE  PlacesInv'
<1>1. awaiting_cleanup' \subseteq awaiting_cleanup
  BY DEF CleanupEntry
<1>2. UNCHANGED <<active_transactions, lowest_visibility_bound, cleanup_queue,
                  recently_committed_transactions, start_time, commit_id, changes,
                  checkpoint_shared, vacuum_shared, pc>>
  BY DEF CleanupEntry, txnVars, storageLockVars
<1>3. \A u \in Txn : /\ Running(u)' <=> Running(u)
                     /\ pc'[u] = "none" => pc[u] = "none" \/ u = Ckpt
  BY <1>2 DEF Running
<1> QED BY <1>1, <1>2, <1>3, PassingKeepsPlaces

\* The places are kept apart by every step.
LEMMA PlacesInvNext ==
  CleanupInv /\ TypeOK /\ LocksInv /\ PlacesInv /\ [Next]_vars => PlacesInv'
<1> SUFFICES ASSUME CleanupInv, TypeOK, LocksInv, PlacesInv, [Next]_vars PROVE PlacesInv'
  OBVIOUS
<1>1. ASSUME NEW t \in Txn, Starting(t) PROVE PlacesInv'
  BY <1>1, BeginKeepsPlaces DEF Starting
<1>2. ASSUME NEW t \in Txn, NEW d \in DecisionSet, NEW X, Committing(t, d, X) PROVE PlacesInv'
  BY <1>2, CommitEffects DEF Committing
<1>3. ASSUME NEW t \in Txn, RollbackTransaction(t) PROVE PlacesInv'
  BY <1>3, RollbackEffects
<1>4. ASSUME NEW t \in Txn, NEW k \in Kind, NEW made \in BOOLEAN, SetModifications(t, k, made)
      PROVE  PlacesInv'
  BY <1>4, SetModificationsKeepsPlaces
<1>5. ASSUME NEW t \in Txn, CleanupEntry(t) PROVE PlacesInv'
  BY <1>5, CleanupEntryKeepsPlaces
<1>6. ASSUME NEW t \in Txn, PopCleanup(t) PROVE PlacesInv'
  BY <1>6, PopKeepsPlaces
<1>7. CASE Passing
  BY <1>7, PassingKeepsPlaces DEF Passing, listVars, txnVars
<1>8. KeptCommitted
  BY DEF CleanupInv
<1> QED BY <1>1, <1>2, <1>3, <1>4, <1>5, <1>6, <1>7, <1>8, StepKinds, Zenon

\* Nothing has a place yet.
LEMMA PlacesInvInit == Init => PlacesInv
<1> SUFFICES ASSUME Init PROVE PlacesInv
  OBVIOUS
<1>1. \A u \in Txn : ~IsQueued(u) /\ ~IsKept(u) /\ ~Running(u) /\ ~Committed(u) /\ ~ChangesMade(u)
  BY DEF Init, IsQueued, IsKept, Running, Committed, ChangesMade
<1>2. PlacesApart
  BY <1>1 DEF Init, PlacesApart
<1>3. KeysOwned /\ BoundAttained /\ GoneIsSettled
  BY <1>1 DEF Init, KeysOwned, BoundAttained, GoneIsSettled
<1> QED BY <1>2, <1>3 DEF PlacesInv

-----------------------------------------------------------------------------
(* A commit that goes on to a checkpoint, and one that skipped the WAL.    *)

\* What the end of a commit does to the locals of CommitTransaction: there is
\* a checkpoint only after a commit without error, and one that skips the WAL
\* only with a checkpoint.
LEMMA CommitLocals ==
  ASSUME TypeOK, NEW t \in Txn, NEW d \in DecisionSet, NEW X, FinishCommit(t, d, X)
  PROVE  /\ decision'[t].can => ~d.error /\ d.can
         /\ decision'[t].skip => ~d.error /\ d.can
         /\ \A u \in Txn : u # t => decision'[u] = decision[u]
<1> DEFINE can  == ~d.error /\ d.can
           skip == can /\ d.skip
           e    == [d EXCEPT !.can = can, !.skip = skip, !.error = FALSE]
<1>1. decision' = [decision EXCEPT ![t] = e]
  BY DEF FinishCommit
<1>2. decision \in [Txn -> DecisionSet]
  BY DEF TypeOK, DecisionSet
<1>3. e.can = can /\ e.skip = skip
  BY DEF DecisionSet
<1> HIDE DEF e
<1>4. decision'[t] = e /\ \A u \in Txn : u # t => decision'[u] = decision[u]
  BY <1>1, <1>2
<1> QED BY <1>3, <1>4

\* A commit that goes on to a checkpoint has nobody's snapshot to keep its
\* updates for.
LEMMA OwnUpdatesSettledNext ==
  ProtocolInv /\ [Next]_vars => OwnUpdatesSettled'
<1> SUFFICES ASSUME ProtocolInv, [Next]_vars PROVE OwnUpdatesSettled'
  OBVIOUS
<1>0. /\ CleanupInv /\ TypeOK /\ LocksInv /\ PlacesInv /\ OwnUpdatesSettled
      /\ KeptCommitted /\ DecisionsLocal /\ pc \in [Txn -> PcValue]
      /\ decision \in [Txn -> DecisionSet] /\ changes \in [Txn -> SUBSET Kind]
  BY DEF ProtocolInv, CleanupInv, LocksInv, TypeOK, DecisionSet
<1>1. ASSUME NEW u \in Txn,
             decision'[u].can /\ Ending(u)' => decision[u].can /\ Ending(u),
             IsKept(u)' => IsKept(u), changes'[u] = changes[u],
             decision'[u].can, Ending(u)'
      PROVE  ~IsKept(u)' \/ ~(HasUpdates(u)' \/ HasDroppedEntries(u)')
  <2>1. (HasUpdates(u)' <=> HasUpdates(u)) /\ (HasDroppedEntries(u)' <=> HasDroppedEntries(u))
    BY <1>1 DEF HasUpdates, HasDroppedEntries
  <2> QED BY <1>0, <1>1, <2>1 DEF OwnUpdatesSettled
<1>2. SUFFICES ASSUME NEW u \in Txn, decision'[u].can, Ending(u)'
               PROVE  ~IsKept(u)' \/ ~(HasUpdates(u)' \/ HasDroppedEntries(u)')
  BY DEF OwnUpdatesSettled
<1>3. ASSUME NEW t \in Txn, Starting(t)
      PROVE  ~IsKept(u)' \/ ~(HasUpdates(u)' \/ HasDroppedEntries(u)')
  <2>1. /\ UNCHANGED <<recently_committed_transactions, decision, changes>>
        /\ pc' = [pc EXCEPT ![t] = "active"]
    BY <1>3 DEF Starting, Begin
  <2>2. Ending(u)' => Ending(u)
    BY <1>0, <2>1 DEF Ending
  <2> QED BY <1>1, <1>2, <2>1, <2>2 DEF IsKept
<1>4. ASSUME NEW t \in Txn, NEW d \in DecisionSet, NEW X, Committing(t, d, X)
      PROVE  ~IsKept(u)' \/ ~(HasUpdates(u)' \/ HasDroppedEntries(u)')
  <2>1. /\ Running(t) /\ FinishCommit(t, d, X)
        /\ ~d.error /\ d.can => GetCheckpointType(t) # "none"
    BY <1>4 DEF Committing
  <2>2. /\ Removed(t, StoreTransaction(t) \/ d.error) /\ UNCHANGED changes
        /\ \A v \in Txn : v # t => pc'[v] = pc[v]
    BY <1>0, <2>1, CommitEffects
  <2>3. /\ decision'[t].can => ~d.error /\ d.can
        /\ \A v \in Txn : v # t => decision'[v] = decision[v]
    BY <1>0, <2>1, CommitLocals
  <2>4. CASE u = t
    <3>1. GetCheckpointType(t) # "none"
      BY <1>2, <2>1, <2>3, <2>4
    <3>2. CASE ~HasOtherTransactions(t)
      <4>1. active_transactions' = {}
        BY <2>2, <3>2 DEF HasOtherTransactions, Removed
      <4> QED BY <2>2, <4>1 DEF Removed
    <3>3. CASE HasOtherTransactions(t)
      <4>1. ~(HasUpdates(t) \/ HasDroppedEntries(t))
        BY <3>1, <3>3 DEF GetCheckpointType
      <4> QED BY <2>2, <2>4, <4>1 DEF HasUpdates, HasDroppedEntries
    <3> QED BY <3>2, <3>3
  <2>5. CASE u # t
    <3>1. IsKept(u)' => IsKept(u)
      BY <2>2, <2>5 DEF Removed
    <3>2. Ending(u)' => Ending(u)
      BY <2>2, <2>5 DEF Ending
    <3> QED BY <1>1, <1>2, <2>2, <2>3, <2>5, <3>1, <3>2
  <2> QED BY <2>4, <2>5
<1>5. ASSUME NEW t \in Txn, RollbackTransaction(t)
      PROVE  ~IsKept(u)' \/ ~(HasUpdates(u)' \/ HasDroppedEntries(u)')
  <2>1. UNCHANGED decision /\ pc[t] = "active"
    BY <1>5 DEF RollbackTransaction
  <2>2. ~decision[t].can
    BY <1>0, <2>1 DEF DecisionsLocal, DecisionLocal, NoDecision
  <2>3. /\ Removed(t, ChangesMade(t)) /\ UNCHANGED changes
        /\ \A v \in Txn : v # t => pc'[v] = pc[v]
    BY <1>0, <1>5, RollbackEffects
  <2>4. u # t
    BY <1>2, <2>1, <2>2
  <2>5. (IsKept(u)' => IsKept(u)) /\ (Ending(u)' => Ending(u))
    BY <2>3, <2>4 DEF Removed, Ending
  <2> QED BY <1>1, <1>2, <2>1, <2>3, <2>5
<1>6. ASSUME NEW t \in Txn, NEW k \in Kind, NEW made \in BOOLEAN, SetModifications(t, k, made)
      PROVE  ~IsKept(u)' \/ ~(HasUpdates(u)' \/ HasDroppedEntries(u)')
  <2>1. /\ UNCHANGED <<pc, decision, recently_committed_transactions>> /\ pc[t] = "active"
        /\ changes' = IF made THEN [changes EXCEPT ![t] = @ \union {k}] ELSE changes
    BY <1>6 DEF SetModifications, listVars
  <2>2. u # t /\ Ending(u)
    BY <1>2, <2>1 DEF Ending
  <2>3. changes'[u] = changes[u]
    BY <1>0, <2>1, <2>2
  <2> QED BY <1>1, <1>2, <2>1, <2>2, <2>3 DEF IsKept
<1>7. ASSUME NEW t \in Txn, CleanupEntry(t) \/ PopCleanup(t)
      PROVE  ~IsKept(u)' \/ ~(HasUpdates(u)' \/ HasDroppedEntries(u)')
  <2>1. UNCHANGED <<pc, decision, recently_committed_transactions, changes>>
    BY <1>7 DEF CleanupEntry, PopCleanup, txnVars
  <2> QED BY <1>1, <1>2, <2>1 DEF Ending, IsKept
<1>8. CASE Passing
  <2>1. /\ UNCHANGED <<recently_committed_transactions, changes>>
        /\ decision'[u].can /\ Ending(u)' => decision[u].can /\ Ending(u)
    BY <1>8 DEF Passing, listVars, txnVars
  <2> QED BY <1>1, <1>2, <2>1 DEF IsKept
<1> QED BY <1>0, <1>3, <1>4, <1>5, <1>6, <1>7, <1>8, StepKinds, Zenon

\* Whoever skipped its WAL write holds the WAL lock, which a commit with
\* changes needs.
LEMMA SkippedWalNext ==
  ProtocolInv /\ [Next]_vars => SkippedWalCommitsLast'
<1> SUFFICES ASSUME ProtocolInv, [Next]_vars PROVE SkippedWalCommitsLast'
  OBVIOUS
<1>0. /\ CleanupInv /\ TypeOK /\ LocksInv /\ PlacesInv /\ SkippedWalCommitsLast
      /\ KeptCommitted /\ DecisionsLocal /\ MutexesHeld /\ PlacesApart
      /\ CleanupTypes /\ TimestampsPast /\ pc \in [Txn -> PcValue]
      /\ decision \in [Txn -> DecisionSet] /\ changes \in [Txn -> SUBSET Kind]
  BY DEF ProtocolInv, CleanupInv, LocksInv, PlacesInv, TypeOK, DecisionSet
<1>1. SUFFICES ASSUME NEW v \in Txn, NEW u \in Txn, decision'[v].skip, Ending(v)',
                      Committed(v)', Committed(u)', ChangesMade(u)'
               PROVE  commit_id'[u] <= commit_id'[v]
  BY DEF SkippedWalCommitsLast, Ending
<1>2. ASSUME UNCHANGED <<commit_id, changes>>, decision[v].skip, Ending(v)
      PROVE  commit_id'[u] <= commit_id'[v]
  <2>1. Committed(v) /\ Committed(u) /\ ChangesMade(u)
    BY <1>1, <1>2 DEF Committed, ChangesMade
  <2> QED BY <1>0, <1>2, <2>1 DEF SkippedWalCommitsLast, Ending
<1>3. ASSUME NEW t \in Txn, Starting(t) PROVE commit_id'[u] <= commit_id'[v]
  <2>1. UNCHANGED <<commit_id, decision, changes>> /\ pc' = [pc EXCEPT ![t] = "active"]
    BY <1>3 DEF Starting, Begin
  <2>2. Ending(v)
    BY <1>0, <1>1, <2>1 DEF Ending
  <2> QED BY <1>1, <1>2, <2>1, <2>2
<1>4. ASSUME NEW t \in Txn, NEW d \in DecisionSet, NEW X, Committing(t, d, X)
      PROVE  commit_id'[u] <= commit_id'[v]
  <2>1. /\ Running(t) /\ FinishCommit(t, d, X)
        /\ ~d.error /\ ChangesMade(t) => pc[t] \in {"relock", "backpedalled"}
    BY <1>4 DEF Committing
  <2>2. /\ commit_id'[t] = IF ~d.error THEN current_start_timestamp ELSE 0
        /\ \A w \in Txn : w # t => commit_id'[w] = commit_id[w]
        /\ current_start_timestamp \in Nat
        /\ \A w \in Txn : w # t => pc'[w] = pc[w]
        /\ UNCHANGED changes
    BY <1>0, <2>1, CommitEffects
  <2>3. /\ decision'[t].skip => ~d.error /\ d.can
        /\ \A w \in Txn : w # t => decision'[w] = decision[w]
    BY <1>0, <2>1, CommitLocals
  <2>4. CASE v = t
    <3>1. commit_id'[v] = current_start_timestamp
      BY <1>1, <2>2, <2>3, <2>4
    <3>2. commit_id[u] \in Nat /\ commit_id[u] < current_start_timestamp
      BY <1>0 DEF CleanupTypes, TimestampsPast
    <3> QED BY <2>2, <2>4, <3>1, <3>2
  <2>5. CASE v # t
    <3>1. decision[v].skip /\ Ending(v) /\ Committed(v) /\ commit_id'[v] = commit_id[v]
      BY <1>1, <2>2, <2>3, <2>5 DEF Ending, Committed
    <3>2. wal_lock = v
      BY <1>0, <3>1 DEF MutexesHeld, HoldsWal
    <3>3. CASE u = t
      <4>1. ~d.error /\ ChangesMade(t)
        BY <1>1, <2>2, <3>3 DEF Committed, ChangesMade
      <4>2. wal_lock = t
        BY <1>0, <2>1, <4>1 DEF MutexesHeld, HoldsWal
      <4> QED BY <2>5, <3>2, <4>2
    <3>4. CASE u # t
      <4>1. Committed(u) /\ ChangesMade(u) /\ commit_id'[u] = commit_id[u]
        BY <1>1, <2>2, <3>4 DEF Committed, ChangesMade
      <4> QED BY <1>0, <3>1, <4>1 DEF SkippedWalCommitsLast, Ending
    <3> QED BY <3>3, <3>4
  <2> QED BY <2>4, <2>5
<1>5. ASSUME NEW t \in Txn, RollbackTransaction(t) PROVE commit_id'[u] <= commit_id'[v]
  <2>1. UNCHANGED decision /\ pc[t] = "active"
    BY <1>5 DEF RollbackTransaction
  <2>2. ~decision[t].skip
    BY <1>0, <2>1 DEF DecisionsLocal, DecisionLocal, NoDecision
  <2>3. UNCHANGED <<commit_id, changes>> /\ \A w \in Txn : w # t => pc'[w] = pc[w]
    BY <1>0, <1>5, RollbackEffects
  <2>4. v # t
    BY <1>1, <2>1, <2>2
  <2>5. Ending(v)
    BY <1>1, <2>3, <2>4 DEF Ending
  <2> QED BY <1>1, <1>2, <2>1, <2>3, <2>5
<1>6. ASSUME NEW t \in Txn, NEW k \in Kind, NEW made \in BOOLEAN, SetModifications(t, k, made)
      PROVE  commit_id'[u] <= commit_id'[v]
  <2>1. /\ UNCHANGED <<pc, decision, commit_id>> /\ pc[t] = "active" /\ t # Ckpt
        /\ changes' = IF made THEN [changes EXCEPT ![t] = @ \union {k}] ELSE changes
    BY <1>6, ConstantsAssumption DEF SetModifications
  <2>2. ~Committed(t)
    BY <1>0, <2>1 DEF PlacesApart, Running
  <2>3. u # t
    BY <1>1, <2>1, <2>2 DEF Committed
  <2>4. ChangesMade(u) /\ Committed(u) /\ Committed(v) /\ decision[v].skip /\ Ending(v)
    BY <1>0, <1>1, <2>1, <2>3 DEF ChangesMade, Committed, Ending
  <2> QED BY <1>0, <2>1, <2>4 DEF SkippedWalCommitsLast, Ending
<1>7. ASSUME NEW t \in Txn, CleanupEntry(t) \/ PopCleanup(t)
      PROVE  commit_id'[u] <= commit_id'[v]
  <2>1. UNCHANGED <<pc, decision, commit_id, changes>>
    BY <1>7 DEF CleanupEntry, PopCleanup, txnVars
  <2> QED BY <1>1, <1>2, <2>1 DEF Ending
<1>8. CASE Passing
  <2>1. UNCHANGED <<commit_id, changes>> /\ decision[v].skip /\ Ending(v)
    BY <1>1, <1>8 DEF Passing, txnVars
  <2> QED BY <1>2, <2>1
<1> QED BY <1>0, <1>3, <1>4, <1>5, <1>6, <1>7, <1>8, StepKinds, Zenon

-----------------------------------------------------------------------------
(* How far the clean-up of each undo buffer is.                            *)

\* What stands in the front entry is queued.
LEMMA FrontIsQueued ==
  ASSUME TypeOK, cleanup_queue # <<>>, NEW i \in DOMAIN Head(cleanup_queue).transactions
  PROVE  /\ Head(cleanup_queue).transactions[i] \in Txn
         /\ IsQueued(Head(cleanup_queue).transactions[i])
<1> DEFINE T == [transactions : Seq(Txn), bound : Timestamp]
<1>1. cleanup_queue \in Seq(T)
  BY DEF TypeOK
<1>2. 1 \in DOMAIN cleanup_queue /\ Head(cleanup_queue) = cleanup_queue[1]
  <2> HIDE DEF T
  <2> QED BY <1>1
<1>3. cleanup_queue[1] \in T
  <2> HIDE DEF T
  <2> QED BY <1>1, <1>2
<1> QED BY <1>2, <1>3 DEF IsQueued

\* An ending transaction does not change what remains to be cleaned of the
\* front entry.
LEMMA RemovalKeepsRemaining ==
  ASSUME TypeOK, PlacesInv, NEW t \in Txn, NEW store, Removed(t, store),
         t \in active_transactions, cleanup_queue # <<>>
  PROVE  /\ cleanup_queue' # <<>> /\ Remaining' = Remaining
         /\ FirstRemaining' = FirstRemaining
<1>1. cleanup_queue' # <<>> /\ Head(cleanup_queue') = Head(cleanup_queue)
  BY DEF Removed
<1> DEFINE front == Head(cleanup_queue).transactions
<1>2. \A i \in DOMAIN front : front[i] \in awaiting_cleanup' <=> front[i] \in awaiting_cleanup
  <2> SUFFICES ASSUME NEW i \in DOMAIN front
               PROVE  front[i] \in awaiting_cleanup' <=> front[i] \in awaiting_cleanup
    OBVIOUS
  <2>1. front[i] \in Txn /\ IsQueued(front[i])
    BY FrontIsQueued
  <2>2. ~IsKept(front[i]) /\ front[i] # t
    BY <2>1 DEF PlacesInv, PlacesApart
  <2> HIDE DEF front
  <2> QED BY <2>1, <2>2 DEF Removed
<1>3. Remaining = {i \in DOMAIN front : front[i] \in awaiting_cleanup}
  BY DEF Remaining
<1>4. Remaining' = {i \in DOMAIN front : front[i] \in awaiting_cleanup'}
  BY <1>1 DEF Remaining
<1>5. Remaining' = Remaining
  <2> HIDE DEF front
  <2> QED BY <1>2, <1>3, <1>4
<1> QED BY <1>1, <1>5 DEF FirstRemaining

\* What the invariant says of one undo buffer and of the running pass.
EntriesOf(t) ==
  /\ t = Ckpt \/ IsKept(t) \/ ~Committed(t) => applied[t] = 0
  /\ t \in awaiting_cleanup => applied[t] < NumEntries
  /\ applied[t] <= NumEntries
  /\ Committed(t) /\ ChangesMade(t) /\ t \notin active_transactions /\ ~IsKept(t)
       => t \in awaiting_cleanup \/ applied[t] = NumEntries
PassInv == pass > 0 => /\ cleanup_queue # <<>> /\ Remaining # {}
                       /\ pass <= applied[FirstRemaining]

\* The end of a transaction leaves the progress of every clean-up alone.
LEMMA RemovalKeepsEntries ==
  ASSUME TypeOK, PlacesInv, EntriesInv, NEW t \in Txn, NEW store \in BOOLEAN,
         Removed(t, store), t \in active_transactions, UNCHANGED <<cleanVars, changes>>,
         \A u \in Txn : u # t => commit_id'[u] = commit_id[u],
         commit_id'[t] # 0 => (store <=> StoreTransaction(t))
  PROVE  EntriesInv'
<1>0. /\ \A u \in Txn : EntriesOf(u) /\ applied[u] \in Nat
      /\ cleaned_up_entries = applied /\ PassInv /\ PlacesApart
      /\ UNCHANGED <<cleaned_up_entries, pass, applied>>
  BY DEF EntriesInv, EntriesOf, PassInv, PlacesInv, TypeOK, cleanVars
<1>1. applied[t] = 0 /\ NumEntries \in Nat \ {0}
  BY <1>0, ConstantsAssumption DEF EntriesOf, PlacesApart
<1>2. ASSUME NEW u \in Txn PROVE EntriesOf(u)'
  <2>1. CASE u # t
    <3>1. /\ IsKept(u)' => IsKept(u)
          /\ Committed(u)' <=> Committed(u)
          /\ ChangesMade(u)' <=> ChangesMade(u)
          /\ u \in active_transactions' <=> u \in active_transactions
          /\ u \in awaiting_cleanup' <=> \/ u \in awaiting_cleanup
                                         \/ IsKept(u) /\ ~IsKept(u)'
      BY <2>1 DEF Removed, Committed, ChangesMade
    <3>2. EntriesOf(u) /\ applied'[u] = applied[u] /\ applied[u] \in Nat
      BY <1>0
    <3> QED BY <1>1, <3>1, <3>2 DEF EntriesOf
  <2>2. CASE u = t
    <3>1. ChangesMade(t)' <=> ChangesMade(t)
      BY DEF ChangesMade
    <3>2. ASSUME Committed(t)', ChangesMade(t), ~IsKept(t)' PROVE t \in awaiting_cleanup'
      BY <3>2 DEF Removed, Committed
    <3> QED BY <1>0, <1>1, <2>2, <3>1, <3>2 DEF EntriesOf
  <2> QED BY <2>1, <2>2
<1>3. PassInv'
  <2>1. CASE pass > 0
    BY <1>0, <2>1, RemovalKeepsRemaining DEF PassInv
  <2>2. CASE ~(pass > 0)
    BY <1>0, <2>2 DEF PassInv
  <2> QED BY <2>1, <2>2
<1> QED BY <1>0, <1>2, <1>3 DEF EntriesInv, EntriesOf, PassInv

\* One entry: the pass and the number of cleaned entries meet exactly.
LEMMA CleanupEntryKeepsEntries ==
  ASSUME TypeOK, PlacesInv, EntriesInv, NEW t \in Txn, CleanupEntry(t)
  PROVE  EntriesInv'
<1>0. /\ \A u \in Txn : EntriesOf(u) /\ applied[u] \in Nat
      /\ cleaned_up_entries = applied /\ PassInv /\ PlacesApart
      /\ applied \in [Txn -> Nat] /\ pass \in Nat
      /\ cleanup_queue \in CleanupQueueType /\ cleanup_queue # <<>> /\ Remaining # {}
      /\ NumEntries \in Nat \ {0}
  BY ConstantsAssumption
     DEF EntriesInv, EntriesOf, PassInv, PlacesInv, TypeOK, CleanupEntry, CleanupQueueType
<1> DEFINE u == FirstRemaining
<1>1. u \in Txn /\ u \in awaiting_cleanup
  BY <1>0, FirstRemainingIsThere
<1>2. /\ IsQueued(u) /\ Committed(u) /\ ~IsKept(u) /\ u # Ckpt
      /\ u \notin active_transactions
  BY <1>0, <1>1 DEF PlacesApart
<1> DEFINE skip == pass < cleaned_up_entries[u]
<1>3. /\ applied' = IF skip THEN applied ELSE [applied EXCEPT ![u] = @ + 1]
      /\ cleaned_up_entries' = IF skip THEN cleaned_up_entries
                               ELSE [cleaned_up_entries EXCEPT ![u] = @ + 1]
      /\ \/ pass + 1 < NumEntries /\ pass' = pass + 1 /\ UNCHANGED awaiting_cleanup
         \/ /\ ~(pass + 1 < NumEntries) /\ pass' = 0
            /\ awaiting_cleanup' = awaiting_cleanup \ {u}
      /\ UNCHANGED <<active_transactions, recently_committed_transactions,
                     cleanup_queue, commit_id, changes>>
  BY DEF CleanupEntry, AlreadyCleaned, txnVars
<1> HIDE DEF u
<1>4. pass > 0 => pass <= applied[u]
  BY <1>0 DEF PassInv, u
<1>5. applied[u] \in Nat /\ applied[u] < NumEntries
  BY <1>0, <1>1 DEF EntriesOf
<1>6. applied' = cleaned_up_entries'
  BY <1>0, <1>3
<1>7. /\ applied'[u] = IF pass < applied[u] THEN applied[u] ELSE pass + 1
      /\ \A w \in Txn : w # u => applied'[w] = applied[w]
  BY <1>0, <1>1, <1>3, <1>4, <1>5
<1>8. ASSUME NEW w \in Txn PROVE EntriesOf(w)'
  <2>1. /\ IsKept(w)' <=> IsKept(w)
        /\ Committed(w)' <=> Committed(w)
        /\ ChangesMade(w)' <=> ChangesMade(w)
    BY <1>3 DEF IsKept, Committed, ChangesMade
  <2>2. CASE w # u
    <3>1. w \in awaiting_cleanup' <=> w \in awaiting_cleanup
      BY <1>3, <2>2
    <3> QED BY <1>0, <1>3, <1>7, <2>1, <2>2, <3>1 DEF EntriesOf
  <2>3. CASE w = u /\ pass + 1 < NumEntries
    <3>1. applied'[u] < NumEntries /\ applied'[u] \in Nat /\ awaiting_cleanup' = awaiting_cleanup
      BY <1>0, <1>3, <1>5, <1>7, <2>3
    <3> QED BY <1>0, <1>1, <1>2, <2>1, <2>3, <3>1 DEF EntriesOf
  <2>4. CASE w = u /\ ~(pass + 1 < NumEntries)
    <3>1. applied'[u] = NumEntries /\ u \notin awaiting_cleanup'
      BY <1>0, <1>3, <1>4, <1>5, <1>7, <2>4
    <3> QED BY <1>0, <1>2, <2>1, <2>4, <3>1 DEF EntriesOf
  <2> QED BY <2>2, <2>3, <2>4
<1>9. PassInv'
  <2>1. CASE pass + 1 < NumEntries
    <3>1. Remaining' = Remaining /\ FirstRemaining' = u
      BY <1>3, <2>1 DEF Remaining, FirstRemaining, u
    <3>2. pass' <= applied'[u]
      BY <1>0, <1>3, <1>4, <1>5, <1>7, <2>1
    <3> QED BY <1>0, <1>3, <3>1, <3>2 DEF PassInv
  <2>2. CASE ~(pass + 1 < NumEntries)
    BY <1>3, <2>2 DEF PassInv
  <2> QED BY <2>1, <2>2
<1> QED BY <1>6, <1>8, <1>9 DEF EntriesInv, EntriesOf, PassInv

\* Steps that neither end a transaction nor clean an entry.
LEMMA QuietKeepsEntries ==
  ASSUME TypeOK, EntriesInv, UNCHANGED <<cleaned_up_entries, applied, awaiting_cleanup,
                                         recently_committed_transactions, commit_id>>,
         active_transactions \subseteq active_transactions',
         \A u \in Txn : u \in active_transactions \/ changes'[u] = changes[u],
         pass' \in {pass, 0}, pass' = 0 \/ UNCHANGED cleanup_queue
  PROVE  EntriesInv'
<1>0. \A u \in Txn : EntriesOf(u) /\ PassInv /\ cleaned_up_entries = applied
  BY DEF EntriesInv, EntriesOf, PassInv
<1>1. ASSUME NEW u \in Txn PROVE EntriesOf(u)'
  <2>1. (IsKept(u)' <=> IsKept(u)) /\ (Committed(u)' <=> Committed(u))
    BY DEF IsKept, Committed
  <2>2. u \in active_transactions \/ (ChangesMade(u)' <=> ChangesMade(u))
    BY DEF ChangesMade
  <2> QED BY <1>0, <2>1, <2>2 DEF EntriesOf
<1>2. PassInv'
  <2>1. CASE pass' = 0
    BY <2>1 DEF PassInv
  <2>2. CASE pass' # 0
    <3>1. pass' = pass /\ UNCHANGED cleanup_queue /\ PassInv
      BY <2>2 DEF EntriesInv, PassInv
    <3>2. Remaining' = Remaining
      BY <3>1 DEF Remaining
    <3>3. FirstRemaining' = FirstRemaining
      BY <3>1, <3>2 DEF FirstRemaining
    <3> QED BY <3>1, <3>2, <3>3 DEF PassInv
  <2> QED BY <2>1, <2>2
<1>3. applied' = cleaned_up_entries'
  BY DEF EntriesInv
<1> QED BY <1>1, <1>2, <1>3 DEF EntriesInv, EntriesOf, PassInv

\* The progress of every clean-up is accounted for, whatever happens between.
LEMMA EntriesInvNext == ProtocolInv /\ [Next]_vars => EntriesInv'
<1> SUFFICES ASSUME ProtocolInv, [Next]_vars PROVE EntriesInv'
  OBVIOUS
<1>0. /\ CleanupInv /\ TypeOK /\ LocksInv /\ PlacesInv /\ EntriesInv
      /\ KeptCommitted /\ PlacesApart /\ changes \in [Txn -> SUBSET Kind]
  BY DEF ProtocolInv, CleanupInv, PlacesInv, TypeOK
<1>1. ASSUME NEW t \in Txn, Starting(t) PROVE EntriesInv'
  <2>1. /\ UNCHANGED <<cleaned_up_entries, applied, pass, awaiting_cleanup, cleanup_queue,
                       recently_committed_transactions, commit_id, changes>>
        /\ active_transactions \subseteq active_transactions'
    BY <1>1 DEF Starting, Begin, cleanVars
  <2> QED BY <1>0, <2>1, QuietKeepsEntries
<1>2. ASSUME NEW t \in Txn, NEW d \in DecisionSet, NEW X, Committing(t, d, X) PROVE EntriesInv'
  <2> DEFINE store == StoreTransaction(t) \/ d.error
  <2>1. /\ Removed(t, store) /\ t \in active_transactions /\ UNCHANGED changes
        /\ commit_id'[t] = IF ~d.error THEN current_start_timestamp ELSE 0
        /\ \A u \in Txn : u # t => commit_id'[u] = commit_id[u]
    BY <1>0, <1>2, CommitEffects DEF Committing
  <2>2. UNCHANGED cleanVars
    BY <1>2 DEF Committing, FinishCommit
  <2>3. store \in BOOLEAN /\ (commit_id'[t] # 0 => (store <=> StoreTransaction(t)))
    BY <2>1 DEF StoreTransaction
  <2> HIDE DEF store
  <2> QED BY <1>0, <2>1, <2>2, <2>3, RemovalKeepsEntries
<1>3. ASSUME NEW t \in Txn, RollbackTransaction(t) PROVE EntriesInv'
  <2> DEFINE store == ChangesMade(t)
  <2>1. /\ Removed(t, store) /\ t \in active_transactions /\ UNCHANGED <<commit_id, changes>>
        /\ commit_id'[t] = 0
    BY <1>0, <1>3, RollbackEffects
  <2>2. UNCHANGED cleanVars /\ store \in BOOLEAN
    BY <1>3 DEF RollbackTransaction, ChangesMade
  <2> HIDE DEF store
  <2> QED BY <1>0, <2>1, <2>2, RemovalKeepsEntries
<1>4. ASSUME NEW t \in Txn, NEW k \in Kind, NEW made \in BOOLEAN, SetModifications(t, k, made)
      PROVE  EntriesInv'
  <2>1. /\ UNCHANGED <<listVars, commit_id, cleanVars>> /\ pc[t] = "active"
        /\ changes' = IF made THEN [changes EXCEPT ![t] = @ \union {k}] ELSE changes
    BY <1>4 DEF SetModifications
  <2>2. t \in active_transactions
    BY <1>0, <2>1 DEF PlacesApart, Running
  <2>3. \A u \in Txn : u \in active_transactions \/ changes'[u] = changes[u]
    BY <1>0, <2>1, <2>2
  <2> QED BY <1>0, <2>1, <2>3, QuietKeepsEntries DEF listVars, cleanVars
<1>5. ASSUME NEW t \in Txn, CleanupEntry(t) PROVE EntriesInv'
  BY <1>0, <1>5, CleanupEntryKeepsEntries
<1>6. ASSUME NEW t \in Txn, PopCleanup(t) PROVE EntriesInv'
  <2>1. /\ Remaining = {}
        /\ UNCHANGED <<cleanVars, awaiting_cleanup, recently_committed_transactions,
                       commit_id, changes, active_transactions>>
    BY <1>6 DEF PopCleanup, txnVars
  <2>2. pass = 0
    <3>1. ~(pass > 0) /\ pass \in 0 .. NumEntries /\ NumEntries \in Nat
      BY <1>0, <2>1, ConstantsAssumption DEF EntriesInv, TypeOK
    <3> QED BY <3>1
  <2> QED BY <1>0, <2>1, <2>2, QuietKeepsEntries DEF cleanVars
<1>7. CASE Passing
  BY <1>0, <1>7, QuietKeepsEntries DEF Passing, listVars, txnVars
<1> QED BY <1>0, <1>1, <1>2, <1>3, <1>4, <1>5, <1>6, <1>7, StepKinds, Zenon

-----------------------------------------------------------------------------
(* Catalog versions.                                                       *)

\* What the invariant says of the version of one transaction.
VersionOf(t) ==
  IF HasCatalogChanges(t) THEN catalog_version[t] >= TRANSACTION_ID_START
  ELSE /\ catalog_version[t] < TRANSACTION_ID_START
       /\ catalog_version[t] = Cardinality({u \in CatalogCommits : ~Precedes(t, u)})

\* A version survives every step that leaves the transaction and the catalog
\* commits it sees alone.
LEMMA SameVersion ==
  ASSUME NEW t \in Txn, VersionOf(t), catalog_version'[t] = catalog_version[t],
         changes'[t] = changes[t],
         {u \in CatalogCommits : ~Precedes(t, u)}' = {u \in CatalogCommits : ~Precedes(t, u)}
  PROVE  VersionOf(t)'
<1>1. HasCatalogChanges(t)' <=> HasCatalogChanges(t)
  BY DEF HasCatalogChanges
<1> QED BY <1>1 DEF VersionOf

\* A commit of a running transaction, with or without catalog changes.
LEMMA CommitKeepsVersions ==
  ASSUME CleanupInv, TypeOK, LocksInv, PlacesInv, VersionCounts, NEW t \in Txn,
         NEW d \in DecisionSet, NEW X, Committing(t, d, X)
  PROVE  VersionCounts'
<1>0. /\ CleanupTypes /\ TimestampsPast /\ PlacesApart /\ KeptCommitted
      /\ catalog_version \in [Txn -> Nat] /\ last_committed_version \in Nat
      /\ IsFiniteSet(CatalogCommits)
      /\ last_committed_version = Cardinality(CatalogCommits)
      /\ last_committed_version < current_start_timestamp
      /\ \A a \in active_transactions : VersionOf(a)
      /\ TRANSACTION_ID_START \in Nat
  BY ConstantsAssumption DEF CleanupInv, PlacesInv, TypeOK, VersionCounts, VersionOf
<1>1. /\ Running(t) /\ FinishCommit(t, d, X) /\ d.error \in BOOLEAN
  BY DEF Committing, DecisionSet
<1>2. /\ t \in active_transactions /\ active_transactions' = active_transactions \ {t}
      /\ commit_id'[t] = IF ~d.error THEN current_start_timestamp ELSE 0
      /\ \A u \in Txn : u # t => commit_id'[u] = commit_id[u]
      /\ current_start_timestamp \in Nat \ {0}
      /\ current_start_timestamp' = current_start_timestamp + 1
      /\ UNCHANGED <<start_time, changes>>
  BY <1>1, CommitEffects DEF Removed
<1> DEFINE new == ~d.error /\ catalog_version[t] >= TRANSACTION_ID_START
<1>3. /\ last_committed_version' = IF new THEN last_committed_version + 1
                                   ELSE last_committed_version
      /\ catalog_version' = IF new
                            THEN [catalog_version EXCEPT ![t] = last_committed_version + 1]
                            ELSE catalog_version
  BY <1>1 DEF FinishCommit, ChangesCatalog
<1>4. VersionOf(t) /\ catalog_version[t] \in Nat
  BY <1>0, <1>2
<1>5. new <=> ~d.error /\ HasCatalogChanges(t)
  BY <1>0, <1>4 DEF VersionOf
<1> HIDE DEF new
<1>6. t \notin CatalogCommits
  <2>1. ~Committed(t) \/ t = Ckpt
    BY <1>0, <1>2 DEF PlacesApart
  <2>2. changes[Ckpt] = {}
    BY <1>0 DEF KeptCommitted
  <2> QED BY <2>1, <2>2 DEF CatalogCommits, HasCatalogChanges
<1>7. CatalogCommits' = IF new THEN CatalogCommits \union {t} ELSE CatalogCommits
  <2>1. \A u \in Txn : /\ HasCatalogChanges(u)' <=> HasCatalogChanges(u)
                       /\ u # t => (Committed(u)' <=> Committed(u))
    BY <1>2 DEF HasCatalogChanges, Committed
  <2>2. Committed(t)' <=> ~d.error
    BY <1>2 DEF Committed
  <2> QED BY <1>5, <1>6, <2>1, <2>2 DEF CatalogCommits
<1>8. /\ IsFiniteSet(CatalogCommits') /\ last_committed_version' = Cardinality(CatalogCommits')
      /\ last_committed_version' < current_start_timestamp'
  <2>1. CASE new
    <3>1. /\ IsFiniteSet(CatalogCommits \union {t})
          /\ Cardinality(CatalogCommits \union {t}) = Cardinality(CatalogCommits) + 1
      BY <1>0, <1>6, FS_AddElement
    <3> QED BY <1>0, <1>2, <1>3, <1>7, <2>1, <3>1
  <2>2. CASE ~new
    BY <1>0, <1>2, <1>3, <1>7, <2>2
  <2> QED BY <2>1, <2>2
<1>9. ASSUME NEW a \in active_transactions' PROVE VersionOf(a)'
  <2>1. a \in active_transactions /\ a # t /\ a \in Txn /\ VersionOf(a)
    BY <1>0, <1>2, <1>9 DEF CleanupTypes
  <2>2. catalog_version'[a] = catalog_version[a] /\ changes'[a] = changes[a]
    BY <1>0, <1>2, <1>3, <2>1
  <2>3. start_time[a] \in Nat /\ start_time[a] < current_start_timestamp
    BY <1>0, <2>1 DEF CleanupTypes, TimestampsPast
  <2>4. new => Precedes(a, t)'
    <3>1. new => commit_id'[t] = current_start_timestamp
      BY <1>2, <1>5
    <3> QED BY <1>2, <2>3, <3>1 DEF Precedes
  <2>5. \A u \in CatalogCommits : Precedes(a, u)' <=> Precedes(a, u)
    <3>1. \A u \in CatalogCommits : commit_id'[u] = commit_id[u]
      BY <1>2, <1>6 DEF CatalogCommits
    <3> QED BY <1>2, <3>1 DEF Precedes
  <2>6. {u \in CatalogCommits : ~Precedes(a, u)}' = {u \in CatalogCommits : ~Precedes(a, u)}
    BY <1>7, <2>4, <2>5
  <2> QED BY <2>1, <2>2, <2>6, SameVersion
<1> QED BY <1>8, <1>9 DEF VersionCounts, VersionOf

\* A transaction starts with the version of the last catalog commit.
LEMMA StartKeepsVersions ==
  ASSUME CleanupInv, TypeOK, PlacesInv, VersionCounts, NEW t \in Txn, Starting(t)
  PROVE  VersionCounts'
<1>0. /\ CleanupTypes /\ TimestampsPast /\ PlacesApart
      /\ catalog_version \in [Txn -> Nat] /\ last_committed_version \in Nat
      /\ IsFiniteSet(CatalogCommits)
      /\ last_committed_version = Cardinality(CatalogCommits)
      /\ last_committed_version < current_start_timestamp
      /\ \A a \in active_transactions : VersionOf(a)
      /\ TRANSACTION_ID_START \in Nat
  BY ConstantsAssumption DEF CleanupInv, PlacesInv, TypeOK, VersionCounts, VersionOf
<1>1. /\ pc[t] = "none" /\ current_start_timestamp < TRANSACTION_ID_START
      /\ current_start_timestamp' = current_start_timestamp + 1
      /\ start_time' = [start_time EXCEPT ![t] = current_start_timestamp]
      /\ catalog_version' = [catalog_version EXCEPT ![t] = last_committed_version]
      /\ active_transactions' = active_transactions \union {t}
      /\ UNCHANGED <<last_committed_version, commit_id, changes>>
  BY DEF Starting, Begin
<1>2. CatalogCommits' = CatalogCommits
  BY <1>1 DEF CatalogCommits, HasCatalogChanges, Committed
<1>3. t \notin active_transactions /\ ~ChangesMade(t)
  BY <1>0, <1>1 DEF PlacesApart, Running
<1>4. VersionOf(t)'
  <2>1. ~HasCatalogChanges(t)'
    BY <1>1, <1>3 DEF HasCatalogChanges, ChangesMade
  <2>2. catalog_version'[t] = last_committed_version /\ start_time'[t] = current_start_timestamp
    BY <1>0, <1>1 DEF CleanupTypes
  <2>3. \A u \in CatalogCommits : ~(current_start_timestamp <= commit_id[u])
    <3> SUFFICES ASSUME NEW u \in CatalogCommits
                 PROVE  ~(current_start_timestamp <= commit_id[u])
      OBVIOUS
    <3>1. /\ commit_id[u] \in Nat /\ commit_id[u] < current_start_timestamp
          /\ current_start_timestamp \in Nat
      BY <1>0 DEF CleanupTypes, TimestampsPast, CatalogCommits
    <3> QED BY <3>1
  <2>4. \A u \in CatalogCommits : ~Precedes(t, u)'
    BY <1>1, <2>2, <2>3 DEF Precedes
  <2>5. {u \in CatalogCommits : ~Precedes(t, u)}' = CatalogCommits
    BY <1>2, <2>4
  <2>6. catalog_version'[t] < TRANSACTION_ID_START
    BY <1>0, <1>1, <2>2 DEF CleanupTypes
  <2> QED BY <1>0, <2>1, <2>2, <2>5, <2>6 DEF VersionOf
<1>5. ASSUME NEW a \in active_transactions' PROVE VersionOf(a)'
  <2>1. CASE a = t
    BY <1>4, <2>1
  <2>2. CASE a # t
    <3>1. /\ a \in Txn /\ VersionOf(a) /\ catalog_version'[a] = catalog_version[a]
          /\ changes'[a] = changes[a] /\ start_time'[a] = start_time[a]
      BY <1>0, <1>1, <1>5, <2>2 DEF CleanupTypes
    <3>2. \A u \in CatalogCommits : Precedes(a, u)' <=> Precedes(a, u)
      BY <1>1, <3>1 DEF Precedes
    <3>3. {u \in CatalogCommits : ~Precedes(a, u)}' = {u \in CatalogCommits : ~Precedes(a, u)}
      BY <1>2, <3>2
    <3> QED BY <3>1, <3>3, SameVersion
  <2> QED BY <2>1, <2>2
<1>6. last_committed_version' < current_start_timestamp'
  BY <1>0, <1>1 DEF CleanupTypes
<1> QED BY <1>0, <1>1, <1>2, <1>5, <1>6 DEF VersionCounts, VersionOf

\* Steps that commit and start nothing; those that change the catalog draw an
\* uncommitted version.
LEMMA QuietKeepsVersions ==
  ASSUME TypeOK, VersionCounts,
         UNCHANGED <<current_start_timestamp, last_committed_version, start_time, commit_id>>,
         active_transactions' \subseteq active_transactions,
         \A u \in Txn : \/ changes'[u] = changes[u]
                        \/ ~Committed(u),
         \A a \in active_transactions :
           \/ changes'[a] = changes[a] /\ catalog_version'[a] = catalog_version[a]
           \/ VersionOf(a)'
  PROVE  VersionCounts'
<1>0. /\ IsFiniteSet(CatalogCommits)
      /\ last_committed_version = Cardinality(CatalogCommits)
      /\ last_committed_version < current_start_timestamp
      /\ \A a \in active_transactions : VersionOf(a) /\ a \in Txn
  BY DEF VersionCounts, VersionOf, TypeOK
<1>1. CatalogCommits' = CatalogCommits
  BY DEF CatalogCommits, HasCatalogChanges, Committed
<1>2. ASSUME NEW a \in active_transactions' PROVE VersionOf(a)'
  <2>1. CASE changes'[a] = changes[a] /\ catalog_version'[a] = catalog_version[a]
    <3>1. {u \in CatalogCommits : ~Precedes(a, u)}' = {u \in CatalogCommits : ~Precedes(a, u)}
      BY <1>1 DEF Precedes
    <3> QED BY <1>0, <1>2, <2>1, <3>1, SameVersion
  <2> QED BY <1>2, <2>1
<1> QED BY <1>0, <1>1, <1>2 DEF VersionCounts, VersionOf

\* Catalog versions count the catalog commits through every step.
LEMMA VersionCountsNext == ProtocolInv /\ [Next]_vars => VersionCounts'
<1> SUFFICES ASSUME ProtocolInv, [Next]_vars PROVE VersionCounts'
  OBVIOUS
<1>0. /\ CleanupInv /\ TypeOK /\ LocksInv /\ PlacesInv /\ VersionCounts
      /\ KeptCommitted /\ PlacesApart /\ changes \in [Txn -> SUBSET Kind]
      /\ catalog_version \in [Txn -> Nat] /\ active_transactions \subseteq Txn
  BY DEF ProtocolInv, CleanupInv, PlacesInv, TypeOK
<1>1. ASSUME NEW t \in Txn, Starting(t) PROVE VersionCounts'
  BY <1>0, <1>1, StartKeepsVersions
<1>2. ASSUME NEW t \in Txn, NEW d \in DecisionSet, NEW X, Committing(t, d, X)
      PROVE  VersionCounts'
  BY <1>0, <1>2, CommitKeepsVersions
<1>3. ASSUME NEW t \in Txn, RollbackTransaction(t) PROVE VersionCounts'
  <2>1. /\ UNCHANGED <<clockVars, start_time, commit_id, catalog_version, changes>>
        /\ active_transactions' \subseteq active_transactions
    BY <1>0, <1>3, RollbackEffects DEF Removed
  <2> QED BY <1>0, <2>1, QuietKeepsVersions DEF clockVars
<1>4. ASSUME NEW t \in Txn, NEW k \in Kind, NEW made \in BOOLEAN, SetModifications(t, k, made)
      PROVE  VersionCounts'
  <2> DEFINE catalog == made /\ k \in {"create", "drop"}
  <2>1. /\ UNCHANGED <<listVars, clockVars, start_time, commit_id>>
        /\ pc[t] = "active" /\ t # Ckpt
        /\ changes' = IF made THEN [changes EXCEPT ![t] = @ \union {k}] ELSE changes
        /\ catalog_version' = IF catalog
                              THEN [catalog_version EXCEPT ![t] = TRANSACTION_ID_START]
                              ELSE catalog_version
    BY <1>4, ConstantsAssumption DEF SetModifications
  <2>2. t \in active_transactions /\ ~Committed(t)
    BY <1>0, <2>1 DEF PlacesApart, Running
  <2>3. \A u \in Txn : u # t => /\ changes'[u] = changes[u]
                                /\ catalog_version'[u] = catalog_version[u]
    BY <1>0, <2>1
  <2>4. VersionOf(t)'
    <3>1. CASE catalog
      <4>1. k \in changes'[t] /\ catalog_version'[t] = TRANSACTION_ID_START
        BY <1>0, <2>1, <3>1
      <4>2. HasCatalogChanges(t)'
        BY <3>1, <4>1 DEF HasCatalogChanges
      <4>3. TRANSACTION_ID_START >= TRANSACTION_ID_START
        BY ConstantsAssumption
      <4> QED BY <4>1, <4>2, <4>3 DEF VersionOf
    <3>2. CASE ~catalog
      <4>1. HasCatalogChanges(t)' <=> HasCatalogChanges(t)
        BY <1>0, <2>1, <3>2 DEF HasCatalogChanges
      <4>2. CatalogCommits' = CatalogCommits
        BY <2>1, <2>2, <2>3 DEF CatalogCommits, HasCatalogChanges, Committed
      <4>3. {u \in CatalogCommits : ~Precedes(t, u)}' = {u \in CatalogCommits : ~Precedes(t, u)}
        BY <2>1, <4>2 DEF Precedes
      <4>4. VersionOf(t) /\ catalog_version' = catalog_version
        BY <1>0, <2>1, <2>2, <3>2 DEF VersionCounts, VersionOf
      <4> HIDE DEF catalog
      <4> QED BY <4>1, <4>3, <4>4 DEF VersionOf
    <3> QED BY <3>1, <3>2
  <2> HIDE DEF catalog
  <2>5. \A u \in Txn : changes'[u] = changes[u] \/ ~Committed(u)
    BY <2>2, <2>3
  <2>6. \A a \in active_transactions :
          \/ changes'[a] = changes[a] /\ catalog_version'[a] = catalog_version[a]
          \/ VersionOf(a)'
    BY <1>0, <2>3, <2>4
  <2> QED BY <1>0, <2>1, <2>5, <2>6, QuietKeepsVersions DEF clockVars, listVars
<1>5. ASSUME NEW t \in Txn, CleanupEntry(t) \/ PopCleanup(t) PROVE VersionCounts'
  <2>1. UNCHANGED <<clockVars, txnVars, active_transactions>>
    BY <1>5 DEF CleanupEntry, PopCleanup
  <2> QED BY <1>0, <2>1, QuietKeepsVersions DEF clockVars, txnVars
<1>6. CASE Passing
  BY <1>0, <1>6, QuietKeepsVersions DEF Passing, listVars, clockVars, txnVars
<1> QED BY <1>0, <1>1, <1>2, <1>3, <1>4, <1>5, <1>6, StepKinds, Zenon

-----------------------------------------------------------------------------
(* The invariant as a whole.                                               *)

\* The initial states satisfy the invariant.
LEMMA ProtocolInvInit == Init => ProtocolInv
<1> SUFFICES ASSUME Init PROVE ProtocolInv
  OBVIOUS
<1>1. CleanupInv /\ TypeOK /\ LocksInv /\ PlacesInv
  BY CleanupInvInit, TypeOKInit, LocksInvInit, PlacesInvInit
<1>2. OwnUpdatesSettled /\ SkippedWalCommitsLast
  BY DEF Init, OwnUpdatesSettled, SkippedWalCommitsLast, Ending
<1>3. EntriesInv
  BY ConstantsAssumption DEF Init, EntriesInv, Committed
<1>4. VersionCounts
  <2>1. CatalogCommits = {}
    BY DEF Init, CatalogCommits, Committed
  <2>2. IsFiniteSet({}) /\ Cardinality({}) = 0
    BY FS_EmptySet
  <2>3. last_committed_version = 0 /\ current_start_timestamp = 2 /\ active_transactions = {}
    BY DEF Init
  <2> QED BY <2>1, <2>2, <2>3 DEF VersionCounts
<1> QED BY <1>1, <1>2, <1>3, <1>4 DEF ProtocolInv

\* Every step keeps the invariant.
LEMMA ProtocolInvNext == ProtocolInv /\ [Next]_vars => ProtocolInv'
<1> SUFFICES ASSUME ProtocolInv, [Next]_vars PROVE ProtocolInv'
  OBVIOUS
<1>1. CleanupInv /\ TypeOK /\ LocksInv /\ PlacesInv /\ KeptCommitted
  BY DEF ProtocolInv, CleanupInv
<1>2. CleanupInv' /\ TypeOK' /\ LocksInv' /\ PlacesInv'
  BY <1>1, CleanupInvNext, TypeOKNext, LocksInvNext, PlacesInvNext
<1>3. OwnUpdatesSettled' /\ SkippedWalCommitsLast' /\ EntriesInv' /\ VersionCounts'
  BY OwnUpdatesSettledNext, SkippedWalNext, EntriesInvNext, VersionCountsNext
<1> QED BY <1>2, <1>3 DEF ProtocolInv

-----------------------------------------------------------------------------
(* The theorems.                                                           *)

\* For any transactions and bounds: ProtocolInv, all of the above at once, is
\* an invariant of the transaction manager.
THEOREM ProtocolCorrect == Spec => []ProtocolInv
  BY ProtocolInvInit, ProtocolInvNext, PTL DEF Spec

\* SweepCommittedTransactions keeps no committed transaction for longer than an
\* active snapshot needs the first of them.
THEOREM SweepIsComplete == Spec => []NothingLingers
<1>1. ProtocolInv => NothingLingers
  <2> SUFFICES ASSUME ProtocolInv, recently_committed_transactions # <<>>
               PROVE  \E a \in active_transactions :
                        Precedes(a, Head(recently_committed_transactions))
    BY DEF NothingLingers
  <2>1. BoundAttained
    BY DEF ProtocolInv, PlacesInv
  <2>2. PICK a \in active_transactions : start_time[a] = lowest_visibility_bound
    BY <2>1 DEF BoundAttained
  <2>3. lowest_visibility_bound <= commit_id[Head(recently_committed_transactions)]
    BY <2>1 DEF BoundAttained
  <2> QED BY <2>2, <2>3 DEF Precedes
<1> QED BY <1>1, ProtocolCorrect, PTL

\* However often an exception interrupts CleanupTransactions, UndoBuffer::Cleanup
\* cleans each entry of a committed transaction exactly once before the
\* transaction is destroyed, and no entry of a rolled back one.
THEOREM CleanupIsExact == Spec => []EntriesCleanedOnce
<1>1. ProtocolInv => EntriesCleanedOnce
  <2> SUFFICES ASSUME ProtocolInv, NEW t \in Txn
               PROVE  /\ applied[t] <= (IF Committed(t) THEN NumEntries ELSE 0)
                      /\ Destroyed(t) /\ Committed(t) => applied[t] = NumEntries
    BY DEF EntriesCleanedOnce
  <2>1. EntriesInv /\ PlacesApart /\ applied[t] \in Nat
    BY DEF ProtocolInv, PlacesInv, TypeOK
  <2>2. applied[t] <= (IF Committed(t) THEN NumEntries ELSE 0)
    BY <2>1 DEF EntriesInv
  <2>3. ASSUME Destroyed(t), Committed(t) PROVE applied[t] = NumEntries
    <3>1. IsKept(t) => t \in ToSet(recently_committed_transactions)
      BY DEF IsKept, ToSet
    <3>2. IsQueued(t) => t \in QueuedIn(cleanup_queue)
      BY DEF IsQueued, QueuedIn, ToSet
    <3>3. ~IsKept(t) /\ ~IsQueued(t) /\ ChangesMade(t) /\ t \notin active_transactions
      BY <2>3, <3>1, <3>2 DEF Destroyed
    <3>4. t \notin awaiting_cleanup
      BY <2>1, <3>3 DEF PlacesApart
    <3> QED BY <2>1, <2>3, <3>3, <3>4 DEF EntriesInv
  <2> QED BY <2>2, <2>3
<1> QED BY <1>1, ProtocolCorrect, PTL

\* The catalog version that StartTransaction hands out counts exactly the
\* catalog commits of the transaction's snapshot.
THEOREM VersionsAreExact == Spec => []CatalogVersionExact
<1>1. ProtocolInv => CatalogVersionExact
  <2> SUFFICES ASSUME ProtocolInv, NEW t \in active_transactions, ~HasCatalogChanges(t)
               PROVE  catalog_version[t] =
                        Cardinality({u \in Txn : /\ Committed(u) /\ HasCatalogChanges(u)
                                                 /\ ~Precedes(t, u)})
    BY DEF CatalogVersionExact
  <2>1. catalog_version[t] = Cardinality({u \in CatalogCommits : ~Precedes(t, u)})
    BY DEF ProtocolInv, VersionCounts
  <2>2. {u \in CatalogCommits : ~Precedes(t, u)} =
          {u \in Txn : Committed(u) /\ HasCatalogChanges(u) /\ ~Precedes(t, u)}
    BY DEF CatalogCommits
  <2> QED BY <2>1, <2>2
<1> QED BY <1>1, ProtocolCorrect, PTL

\* Whatever failed in CommitTransaction, RollbackTransaction, Checkpoint or
\* CleanupTransactions: a system at rest has given every lock back.
THEOREM LocksAreReturned == Spec => []LocksReturned
<1>1. ProtocolInv => LocksReturned
  <2> SUFFICES ASSUME ProtocolInv, AtRest
               PROVE  /\ checkpoint_shared = {} /\ checkpoint_exclusive = {}
                      /\ vacuum_shared = {} /\ vacuum_exclusive = {}
                      /\ wal_lock = NoThread /\ cleanup_lock = NoThread
                      /\ start_transaction_lock = NoThread
    BY DEF LocksReturned, ProtocolInv
  <2>1. /\ TypeOK /\ PlacesApart /\ KeysOwned /\ BoundAttained
        /\ DecisionsLocal /\ MutexesHeld /\ ExclusiveHeld /\ CheckpointOwned
    BY DEF ProtocolInv, PlacesInv, LocksInv
  <2>2. /\ \A t \in Txn : pc[t] \in {"none", "done"}
        /\ client.at = "idle" /\ cleanup_queue = <<>>
    BY DEF AtRest
  <2>3. \A t \in Txn : ~Running(t) /\ ~Ending(t) /\ pc[t] \notin {"cleaning", "checkpointing"}
    BY <2>2 DEF Running, Ending
  <2>4. active_transactions = {}
    BY <2>1, <2>3 DEF PlacesApart, TypeOK
  <2>5. recently_committed_transactions = <<>>
    BY <2>1, <2>4 DEF BoundAttained
  <2>6. \A t \in Txn : ~IsKept(t) /\ ~IsQueued(t)
    BY <2>2, <2>5 DEF IsKept, IsQueued
  <2>7. checkpoint_shared = {} /\ vacuum_shared = {}
    BY <2>1, <2>4, <2>6 DEF KeysOwned, TypeOK
  <2>8. checkpoint_exclusive = {}
    <3>1. \A t \in Txn : ~HoldsCheckpoint(t)
      BY <2>2, <2>3 DEF HoldsCheckpoint
    <3>2. ~ClientHolds
      BY <2>2 DEF ClientHolds
    <3>3. checkpoint_exclusive \subseteq Txn \union {Client}
      BY <2>1 DEF TypeOK, Thread
    <3> QED BY <2>1, <3>1, <3>2, <3>3 DEF ExclusiveHeld
  <2>9. vacuum_exclusive = {}
    <3>1. checkpoint.owner \notin Txn /\ checkpoint.owner # Client
      BY <2>1, <2>2, <2>3 DEF CheckpointOwned
    <3>2. vacuum_exclusive \subseteq {checkpoint.owner} /\ vacuum_exclusive \subseteq Txn \union {Client}
      BY <2>1 DEF CheckpointOwned, TypeOK, Thread
    <3> QED BY <3>1, <3>2
  <2>10. wal_lock = NoThread /\ cleanup_lock = NoThread
    <3>1. {wal_lock, cleanup_lock} \subseteq Txn \union {Client, NoThread}
      BY <2>1 DEF TypeOK, Thread
    <3>2. \A t \in Txn : ~HoldsWal(t)
      BY <2>2, <2>3 DEF HoldsWal
    <3> QED BY <2>1, <2>3, <3>1, <3>2 DEF MutexesHeld
  <2>11. start_transaction_lock = NoThread
    BY <2>1, <2>2 DEF MutexesHeld
  <2> QED BY <2>7, <2>8, <2>9, <2>10, <2>11
<1> QED BY <1>1, ProtocolCorrect, PTL

\* GetCheckpointType and the shared checkpoint lock together: no checkpoint
\* writes tables while an active transaction reads from before a committed
\* update or drop.
THEOREM CheckpointsAreSettled == Spec => []CheckpointSeesSettledUpdates
<1>1. ProtocolInv => CheckpointSeesSettledUpdates
  <2> SUFFICES ASSUME ProtocolInv, checkpoint.phase = "writing", NEW u \in Txn,
                      NEW a \in active_transactions, Committed(u),
                      HasUpdates(u) \/ HasDroppedEntries(u)
               PROVE  ~Precedes(a, u)
    BY DEF CheckpointSeesSettledUpdates
  <2>1. /\ TypeOK /\ KeysOwned /\ GoneIsSettled /\ OwnUpdatesSettled
        /\ DecisionsLocal /\ ExclusiveHeld /\ CheckpointOwned
    BY DEF ProtocolInv, PlacesInv, LocksInv
  <2>2. CASE ~IsKept(u)
    <3>1. HasOldVersions(u)
      BY DEF HasUpdates, HasDroppedEntries, HasOldVersions
    <3> QED BY <2>1, <2>2, <3>1 DEF GoneIsSettled
  <2>3. CASE IsKept(u)
    <3>1. u \in checkpoint_shared
      BY <2>1, <2>3 DEF KeysOwned
    <3>2. checkpoint.owner \in Txn \union {Client}
      BY <2>1 DEF CheckpointOwned, TypeOK, Thread
    <3>3. CASE checkpoint.owner = Client
      <4>1. Client \in checkpoint_exclusive
        BY <2>1, <3>3 DEF CheckpointOwned, ExclusiveHeld, ClientHolds
      <4>2. u = Client
        BY <2>1, <3>1, <4>1 DEF ExclusiveHeld
      <4> QED BY <4>2, ConstantsAssumption DEF Txn
    <3>4. CASE checkpoint.owner \in Txn
      <4> DEFINE t == checkpoint.owner
      <4>1. pc[t] = "checkpointing"
        BY <2>1, <3>4 DEF CheckpointOwned
      <4>2. decision[t].can /\ Ending(t)
        BY <2>1, <3>4, <4>1 DEF DecisionsLocal, DecisionLocal, Ending
      <4>3. t \in checkpoint_exclusive
        BY <2>1, <3>4, <4>2 DEF ExclusiveHeld, HoldsCheckpoint
      <4>4. u = t
        BY <2>1, <3>1, <4>3 DEF ExclusiveHeld
      <4> QED BY <2>1, <2>3, <4>2, <4>4 DEF OwnUpdatesSettled
    <3> QED BY <3>2, <3>3, <3>4
  <2> QED BY <2>2, <2>3
<1> QED BY <1>1, ProtocolCorrect, PTL

\* CommitTransaction keeps the WAL lock after a skipped WAL write: nothing with
\* changes commits after it until its checkpoint has run.
THEOREM SkippedWalIsLast == Spec => []SkippedWalCommitsLast
<1>1. ProtocolInv => SkippedWalCommitsLast
  BY DEF ProtocolInv
<1> QED BY <1>1, ProtocolCorrect, PTL
=============================================================================
