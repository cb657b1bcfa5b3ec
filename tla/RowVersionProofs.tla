-------------------------- MODULE RowVersionProofs --------------------------
(***************************************************************************)
(* What transactions see of a vector, for any vector size, any set of      *)
(* transactions and any bounds: the compressed version information shows   *)
(* what one insert and one delete id per row would (VisibilityExact), a    *)
(* delete belongs to the transaction that made it (DeletesOwned), and what *)
(* a running transaction sees does not change under it (SnapshotStable).   *)
(* And what a checkpoint stores of the deletes: exactly those below its    *)
(* bound (DiskMatchesBound), although it writes nothing when its two       *)
(* watermarks say that nothing below the bound has changed.                *)
(*                                                                         *)
(* What is said of a delete leaves out the rows in strayed, and what is    *)
(* said of the disk those in ghosts.                                       *)
(***************************************************************************)
EXTENDS RowVersionManager, FiniteSetTheorems, TLAPS

-----------------------------------------------------------------------------
(* The inductive invariant *)

InfoType ==
  [present : BOOLEAN, delete_state : {"CONSTANT", "MASKED", "ARRAY"},
   constant_delete_id : Id, deleted_mask : SUBSET Row, mask_delete_id : Id,
   deleted : [Row -> Id], constant_insert : BOOLEAN, constant_insert_id : Id,
   inserted : [Row -> Id], recheck : BOOLEAN]

Statuses == {"new", "active", "failed", "committed", "aborted"}
Phases == {"none", "commit", "revert", "abort", "rollback"}

DeleteEntry == [type : {"DELETE_TUPLE"}, rows : Seq(Row)]
InsertEntry == [type : {"INSERT_TUPLE"}, start : 0 .. VectorSize, end : 0 .. VectorSize]

Types ==
  /\ info \in InfoType
  /\ row_count \in 0 .. VectorSize
  /\ clock \in 2 .. MaxClock
  /\ status \in [Txn -> Statuses]
  /\ start_time \in [Txn -> Nat]
  /\ undo \in [Txn -> Seq(DeleteEntry \cup InsertEntry)]
  /\ \A t \in Txn : Len(undo[t]) <= MaxUndo
  /\ ending \in [txn : Txn \cup {0}, phase : Phases, pos : Nat, id : Id]
  /\ cleanup \in [Txn -> Nat]
  /\ ckpt \in [phase : {"none", "started", "read", "compressed", "written"},
               bound : Nat, lowest : Nat]
  /\ ins \in [Row -> Id] /\ del \in [Row -> Id]
  /\ strayed \subseteq Row /\ ghosts \subseteq Row

\* The transaction that is ending: it is active, nobody starts or ends
\* meanwhile, and its commit id is the last timestamp.
Ending ==
  /\ ending.phase = "none" => ending = Idle
  /\ ending.phase # "none" => ending.txn \in Txn /\ Active(ending.txn)
  /\ ending.phase = "commit" =>
       ending.id = clock - 1 /\ ending.pos \in 1 .. (Len(undo[ending.txn]) + 1)
  /\ ending.phase = "revert" => ending.id = TransactionId(ending.txn)
  /\ ending.phase \in {"abort", "rollback"} => ending.id = NOT_DELETED_ID
  /\ ending.phase \in {"revert", "abort", "rollback"} =>
       ending.pos \in 0 .. Len(undo[ending.txn])

\* The bounds of the snapshots, and the bound a checkpoint compresses with.
Bounds ==
  /\ \A t \in Txn : Active(t) => start_time[t] \in 2 .. (clock - 1)
  /\ ending.phase \in {"commit", "revert", "abort"} =>
       \A t \in Txn : Active(t) => start_time[t] < clock - 1
  /\ ckpt.phase # "none" =>
       /\ ckpt.bound \in 2 .. (clock - 1) /\ ckpt.lowest <= ckpt.bound
       /\ \A t \in Txn : Active(t) => ckpt.lowest <= start_time[t]

\* Every snapshot, now and later, sees what has the id x.
Floors ==
  {clock} \cup {start_time[t] : t \in {u \in Txn : Active(u)}}
  \cup (IF ckpt.phase = "none" THEN {} ELSE {ckpt.bound})
SettledIn(x, floors) == \A b \in floors : x < b
SameIn(x, y, floors) == x = y \/ (SettledIn(x, floors) /\ SettledIn(y, floors))

\* The version information against the ids of every row.
InsertsSame == \A r \in Row : r < row_count => SameIn(InsertId(info, r), ins[r], Floors)
DeletesSame == \A r \in Row : SameIn(DeleteId(info, r), del[r], Floors)

IsAppend(t, i) == i \in DOMAIN undo[t] /\ undo[t][i].type = "INSERT_TUPLE"
IsDelete(t, i) == i \in DOMAIN undo[t] /\ undo[t][i].type = "DELETE_TUPLE"

\* A row that is not there, or was appended by a running transaction.
Fresh(r) ==
  \/ r >= row_count
  \/ \E t \in Txn : Active(t) /\ \E i \in DOMAIN undo[t] :
        IsAppend(t, i) /\ r >= undo[t][i].start

\* Appends: at most one is under way, the last entry of its undo buffer.
OneAppend ==
  /\ \A t \in Txn : \A i \in DOMAIN undo[t] : IsAppend(t, i) => i = Len(undo[t])
  /\ \A t, u \in Txn :
       Active(t) /\ Active(u) /\ FlushedAppend(t) /\ FlushedAppend(u) => t = u
  /\ ckpt.phase # "none" => \A t \in Txn : Active(t) => ~FlushedAppend(t)
  /\ \A t \in Txn : status[t] \in {"new", "aborted"} => undo[t] = << >>

Reverting(t) == ending.txn = t /\ ending.phase \in {"revert", "abort", "rollback"}

\* The rows of the append under way carry its transaction's id, or the commit
\* id once it is written.
AppendRows(t, i) ==
  /\ undo[t][i].start # 0 => ~info.constant_insert
  /\ \A r \in Row : r \in undo[t][i].start .. (undo[t][i].end - 1) =>
       /\ InsertId(info, r) = ins[r]
       /\ \/ ins[r] = TransactionId(t)
          \/ ins[r] = clock - 1 /\ ending.txn = t /\ ending.phase # "rollback"
       /\ (ending.txn = t /\ ending.phase = "commit" /\ ending.pos > i)
            => ins[r] = clock - 1

AppendState(t, i) ==
  /\ undo[t][i].start < undo[t][i].end
  /\ row_count = undo[t][i].end \/ (row_count = undo[t][i].start /\ Reverting(t))
  /\ (ending.txn = t /\ ending.phase \in {"abort", "rollback"} /\ ending.pos < i)
        => row_count = undo[t][i].start
  /\ row_count = undo[t][i].end => AppendRows(t, i)

Appending ==
  \A t \in Txn : \A i \in DOMAIN undo[t] :
    Active(t) /\ IsAppend(t, i) => AppendState(t, i)

\* Rows that are there were inserted in order, and are committed.
Inserted ==
  /\ \A r \in Row : ~Fresh(r) => ins[r] < clock
  /\ \A r, s \in Row : r < s /\ s < row_count => ins[r] <= ins[s]
  /\ row_count = 0 => info.constant_insert
  /\ ~info.constant_insert => VectorSize > 1

\* What a clean-up that is still to come may drop is settled.
Cleaning ==
  \A t \in Txn : cleanup[t] # 0 =>
    /\ status[t] = "committed"
    /\ (\E i \in DOMAIN undo[t] : IsAppend(t, i) /\ undo[t][i].end = VectorSize) =>
         /\ row_count = VectorSize
         /\ \A u \in Txn : Active(u) => ~FlushedAppend(u)
         /\ \A r \in Row : ins[r] < cleanup[t] => SettledIn(ins[r], Floors)

\* Deletes: how far the end of t has got with its undo entry i.
Undone(t, i) ==
  ending.txn = t /\ ending.phase \in {"abort", "rollback"} /\ i > ending.pos
Written(t, i) ==
  /\ ending.txn = t
  /\ \/ ending.phase = "commit" /\ i < ending.pos
     \/ ending.phase = "revert" /\ i <= ending.pos

\* The rows of a running transaction's undo buffer are deleted by it, those
\* of a committed one by an earlier commit than one under way.
Owned(t, i) ==
  \A r \in Elements(undo[t][i].rows) :
    /\ ~Fresh(r)
    /\ ~Undone(t, i) /\ r \notin strayed =>
         del[r] = IF Written(t, i) THEN clock - 1 ELSE TransactionId(t)

OwnedRows ==
  \A t \in Txn : \A i \in DOMAIN undo[t] : Active(t) /\ IsDelete(t, i) => Owned(t, i)

EntriesApart ==
  \A t \in Txn : \A i, j \in DOMAIN undo[t] :
    IsDelete(t, i) /\ IsDelete(t, j) /\ i # j =>
      Elements(undo[t][i].rows) \cap Elements(undo[t][j].rows) \subseteq strayed

CommittedRows ==
  \A t \in Txn : status[t] = "committed" =>
    \A r \in UndoRows(t) : ~Fresh(r) /\ (r \notin strayed =>
      /\ del[r] < clock
      /\ ending.phase \in {"commit", "revert", "abort"} => del[r] < clock - 1
      /\ \A u \in Txn \ {t} : status[u] = "committed" => r \notin UndoRows(u))

Owners == OwnedRows /\ EntriesApart /\ CommittedRows

FreshAlive == \A r \in Row : Fresh(r) => del[r] = NOT_DELETED_ID

VersionInv ==
  /\ Types /\ Ending /\ Bounds /\ InsertsSame /\ DeletesSame
  /\ OneAppend /\ Appending /\ Inserted /\ Cleaning /\ Owners /\ FreshAlive

-----------------------------------------------------------------------------
(* The operators on version information *)

LEMMA IdFacts ==
  /\ Id \subseteq Nat /\ 0 \in Id /\ NOT_DELETED_ID \in Id /\ 0 \in Row
  /\ \A t \in Txn : TransactionId(t) \in Id /\ TransactionId(t) # NOT_DELETED_ID
                    /\ TransactionId(t) > TRANSACTION_ID_START
  /\ \A t, u \in Txn : TransactionId(t) = TransactionId(u) => t = u
  BY IdAssumption, RowVersionAssumption DEF Id, TransactionId, Row

\* Ids are ids, whatever the representation.
LEMMA IdsTyped ==
  ASSUME NEW i \in InfoType, NEW r \in Row
  PROVE  DeleteId(i, r) \in Id /\ InsertId(i, r) \in Id
  BY IdFacts DEF InfoType, DeleteId, InsertId

\* GetVectorInfo of an absent info changes no id.
LEMMA PresentSame ==
  ASSUME NEW i \in InfoType
  PROVE  /\ Present(i) \in InfoType
         /\ Present(i).constant_insert = i.constant_insert
         /\ \A r \in Row : DeleteId(Present(i), r) = DeleteId(i, r)
         /\ \A r \in Row : InsertId(Present(i), r) = InsertId(i, r)
  BY DEF InfoType, Present, DeleteId, InsertId

LEMMA NewInfoIds ==
  ASSUME NEW x \in Id, NEW y \in Id
  PROVE  /\ NewInfo(x, y) \in InfoType /\ NewInfo(x, y).constant_insert
         /\ \A r \in Row : DeleteId(NewInfo(x, y), r) = y
         /\ \A r \in Row : InsertId(NewInfo(x, y), r) = x
  BY IdFacts DEF InfoType, NewInfo, DeleteId, InsertId

LEMMA NoInfoIds ==
  /\ NoInfo \in InfoType /\ NoInfo.constant_insert
  /\ \A r \in Row : DeleteId(NoInfo, r) = NOT_DELETED_ID
  /\ \A r \in Row : InsertId(NoInfo, r) = 0
  BY IdFacts DEF InfoType, NoInfo, NewInfo, DeleteId, InsertId

\* The three ways of writing deletes.
LEMMA ConstantDeletesIds ==
  ASSUME NEW i \in InfoType, NEW x \in Id
  PROVE  /\ ConstantDeletes(i, x) \in InfoType
         /\ ConstantDeletes(i, x).constant_insert = i.constant_insert
         /\ \A r \in Row : DeleteId(ConstantDeletes(i, x), r) = x
         /\ \A r \in Row : InsertId(ConstantDeletes(i, x), r) = InsertId(i, r)
  BY IdFacts DEF InfoType, ConstantDeletes, DeleteId, InsertId

LEMMA ArrayDeletesIds ==
  ASSUME NEW i \in InfoType, NEW ids \in [Row -> Id]
  PROVE  /\ ArrayDeletes(i, ids) \in InfoType
         /\ ArrayDeletes(i, ids).constant_insert = i.constant_insert
         /\ \A r \in Row : DeleteId(ArrayDeletes(i, ids), r) = ids[r]
         /\ \A r \in Row : InsertId(ArrayDeletes(i, ids), r) = InsertId(i, r)
  BY IdFacts DEF InfoType, ArrayDeletes, DeleteId, InsertId

LEMMA MaskedDeletesIds ==
  ASSUME NEW i \in InfoType, NEW x \in Id
  PROVE  /\ MaskedDeletes(i, x) \in InfoType
         /\ MaskedDeletes(i, x).constant_insert = i.constant_insert
         /\ \A r \in Row : DeleteId(MaskedDeletes(i, x), r)
                           = IF i.deleted[r] # NOT_DELETED_ID THEN x ELSE NOT_DELETED_ID
         /\ \A r \in Row : InsertId(MaskedDeletes(i, x), r) = InsertId(i, r)
  BY IdFacts DEF InfoType, MaskedDeletes, DeleteId, InsertId

LEMMA ElementsRows ==
  ASSUME NEW rows \in Seq(Row)
  PROVE  /\ Elements(rows) \subseteq Row
         /\ CoversVector(rows) => Elements(rows) = Row
<1>1. Elements(rows) \subseteq Row
  BY DEF Elements
<1>2. ASSUME CoversVector(rows), NEW r \in Row PROVE r \in Elements(rows)
  <2>1. r + 1 \in DOMAIN rows /\ rows[r + 1] = r
    BY <1>2, IdAssumption DEF CoversVector, IsConsecutive, Row
  <2> QED BY <2>1 DEF Elements
<1> QED BY <1>1, <1>2

\* CommitDelete writes the id over the rows of the entry, and nothing else.
LEMMA CommitDeleteIds ==
  ASSUME NEW i \in InfoType, NEW x \in Id, NEW rows \in Seq(Row)
  PROVE  /\ CommitDelete(i, x, rows) \in InfoType
         /\ CommitDelete(i, x, rows).constant_insert = i.constant_insert
         /\ \A r \in Row : DeleteId(CommitDelete(i, x, rows), r)
                           = IF r \in Elements(rows) THEN x ELSE DeleteId(i, r)
         /\ \A r \in Row : InsertId(CommitDelete(i, x, rows), r) = InsertId(i, r)
<1> DEFINE ids == [r \in Row |-> IF r \in Elements(rows) THEN x ELSE DeleteId(i, r)]
<1>1. ids \in [Row -> Id]
  BY IdsTyped
<1>2. CASE CoversVector(rows)
  <2>1. CommitDelete(i, x, rows) = ConstantDeletes(i, x)
    BY <1>2 DEF CommitDelete
  <2> QED BY <2>1, <1>2, ElementsRows, ConstantDeletesIds
<1>3. CASE ~CoversVector(rows) /\ i.delete_state = "CONSTANT" /\ i.constant_delete_id = x
  <2>1. CommitDelete(i, x, rows) = i
    BY <1>3 DEF CommitDelete
  <2>2. \A r \in Row : DeleteId(i, r) = x
    BY <1>3 DEF DeleteId
  <2> QED BY <2>1, <2>2
<1>4. CASE ~CoversVector(rows) /\ ~(i.delete_state = "CONSTANT" /\ i.constant_delete_id = x)
  <2>1. CommitDelete(i, x, rows) = IF \A r \in Row : ids[r] = x
                    THEN [ConstantDeletes(i, x) EXCEPT !.recheck = TRUE]
                    ELSE ArrayDeletes(i, ids)
    BY <1>4 DEF CommitDelete
  <2>2. CASE \A r \in Row : ids[r] = x
    <3> DEFINE c == ConstantDeletes(i, x)
    <3>1. CommitDelete(i, x, rows) = [c EXCEPT !.recheck = TRUE]
      BY <2>1, <2>2
    <3>2. /\ c \in InfoType /\ c.constant_insert = i.constant_insert
          /\ \A r \in Row : DeleteId(c, r) = x /\ InsertId(c, r) = InsertId(i, r)
      BY ConstantDeletesIds
    <3>3. \A r \in Row : x = IF r \in Elements(rows) THEN x ELSE DeleteId(i, r)
      BY <2>2
    <3> HIDE DEF c
    <3>4. /\ [c EXCEPT !.recheck = TRUE] \in InfoType
          /\ [c EXCEPT !.recheck = TRUE].constant_insert = i.constant_insert
          /\ \A r \in Row : DeleteId([c EXCEPT !.recheck = TRUE], r) = DeleteId(c, r)
          /\ \A r \in Row : InsertId([c EXCEPT !.recheck = TRUE], r) = InsertId(c, r)
      BY <3>2 DEF InfoType, DeleteId, InsertId
    <3> QED BY <3>1, <3>2, <3>3, <3>4
  <2>3. CASE ~\A r \in Row : ids[r] = x
    <3>1. CommitDelete(i, x, rows) = ArrayDeletes(i, ids)
      BY <2>1, <2>3
    <3>2. \A r \in Row : ids[r] = IF r \in Elements(rows) THEN x ELSE DeleteId(i, r)
      OBVIOUS
    <3> HIDE DEF ids
    <3> QED BY <1>1, <3>1, <3>2, ArrayDeletesIds
  <2> QED BY <2>2, <2>3
<1> QED BY <1>2, <1>3, <1>4

\* The smallest and the largest of a set of ids.
LEMMA LeastNat ==
  ASSUME NEW S \in SUBSET Nat, S # {}
  PROVE  \E m \in S : \A o \in S : m <= o
<1>1. IsWellFoundedOn(OpToRel(<, Nat), Nat)
  BY NatLessThanWellFounded
<1>2. PICK m \in S : \A y \in S : ~(<<y, m>> \in OpToRel(<, Nat))
  BY <1>1, WFMin
<1>3. \A y \in S : ~(y < m)
  BY <1>2 DEF OpToRel
<1> QED BY <1>3

LEMMA LargestId ==
  ASSUME NEW S \in SUBSET Id, S # {}
  PROVE  \E m \in S : \A o \in S : o <= m
<1> DEFINE T == {NOT_DELETED_ID - s : s \in S}
<1>1. T \in SUBSET Nat /\ T # {}
  <2>1. \A s \in S : NOT_DELETED_ID - s \in Nat
    BY IdAssumption DEF Id
  <2>2. PICK s \in S : TRUE
    OBVIOUS
  <2> QED BY <2>1, <2>2
<1>2. PICK m \in T : \A o \in T : m <= o
  BY <1>1, LeastNat
<1>3. PICK s \in S : m = NOT_DELETED_ID - s
  OBVIOUS
<1>4. \A o \in S : NOT_DELETED_ID - s <= NOT_DELETED_ID - o
  BY <1>2, <1>3
<1> QED BY <1>3, <1>4, IdAssumption DEF Id

\* Every rank up to the number of hits is the rank of a hit.
LEMMA RankExists ==
  ASSUME NEW m \in Nat, NEW hits \in SUBSET (1 .. m), NEW k \in 1 .. Cardinality(hits)
  PROVE  \E i \in hits : Cardinality({j \in hits : j <= i}) = k
<1> DEFINE upto(i) == {j \in hits : j <= i}
           c == Cardinality(hits)
           rank == [i \in hits |-> Cardinality(upto(i))]
<1>1. IsFiniteSet(hits) /\ c \in Nat /\ IsFiniteSet(1 .. c) /\ Cardinality(1 .. c) = c
  <2>1. IsFiniteSet(1 .. m)
    BY FS_Interval
  <2>2. IsFiniteSet(hits)
    BY <2>1, FS_Subset
  <2>3. c \in Nat
    BY <2>2, FS_CardinalityType
  <2>4. 1 \in Int /\ c \in Int
    BY <2>3
  <2>5. IsFiniteSet(1 .. c) /\ Cardinality(1 .. c) = IF 1 > c THEN 0 ELSE c - 1 + 1
    BY <2>4, FS_Interval, Zenon
  <2> HIDE DEF c
  <2> QED BY <2>2, <2>3, <2>5
<1>2. \A i \in hits : /\ IsFiniteSet(upto(i)) /\ Cardinality(upto(i)) \in 1 .. c
  <2> SUFFICES ASSUME NEW i \in hits
               PROVE  IsFiniteSet(upto(i)) /\ Cardinality(upto(i)) \in 1 .. c
    OBVIOUS
  <2>1. IsFiniteSet(upto(i)) /\ Cardinality(upto(i)) <= c
    BY <1>1, FS_Subset
  <2>2. Cardinality(upto(i)) \in Nat
    BY <2>1, FS_CardinalityType
  <2>3. i \in upto(i)
    OBVIOUS
  <2>4. Cardinality(upto(i)) # 0
    BY <2>1, <2>3, FS_EmptySet
  <2> HIDE DEF upto, c
  <2> QED BY <2>1, <2>2, <2>4, <1>1
<1>3. \A i, o \in hits : i < o => Cardinality(upto(i)) < Cardinality(upto(o))
  <2> SUFFICES ASSUME NEW i \in hits, NEW o \in hits, i < o
               PROVE  Cardinality(upto(i)) < Cardinality(upto(o))
    OBVIOUS
  <2>1. upto(i) \in SUBSET upto(o) /\ upto(i) # upto(o)
    <3>1. o \in upto(o) /\ o \notin upto(i)
      OBVIOUS
    <3>2. \A j \in upto(i) : j \in upto(o)
      OBVIOUS
    <3> QED BY <3>1, <3>2
  <2>2. Cardinality(upto(i)) <= Cardinality(upto(o)) /\ Cardinality(upto(i)) # Cardinality(upto(o))
    BY <1>2, <2>1, FS_Subset
  <2> HIDE DEF upto, c
  <2> QED BY <1>2, <2>2
<1>4. rank \in Injection(hits, 1 .. c)
  <2>1. rank \in [hits -> 1 .. c]
    BY <1>2
  <2>2. ASSUME NEW i \in hits, NEW o \in hits, rank[i] = rank[o] PROVE i = o
    <3>1. Cardinality(upto(i)) = Cardinality(upto(o)) /\ Cardinality(upto(i)) \in 1 .. c
      BY <2>2, <1>2
    <3>2. ~(i < o) /\ ~(o < i)
      <4> HIDE DEF upto, c
      <4> QED BY <3>1, <1>3
    <3> QED BY <3>2
  <2> HIDE DEF rank, upto, c
  <2> QED BY <2>1, <2>2 DEF Injection, IsInjective
<1>5. rank \in Surjection(hits, 1 .. c)
  <2> HIDE DEF rank, upto, c
  <2> QED BY <1>1, <1>4, FS_Injection DEF c
<1>6. PICK i \in hits : rank[i] = k
  <2> HIDE DEF rank
  <2> QED BY <1>5 DEF Surjection
<1> QED BY <1>6

LEMMA DeletedBeforeRows ==
  ASSUME NEW ids, NEW tid, NEW rows \in Seq(Row), NEW n \in 1 .. (Len(rows) + 1)
  PROVE  /\ DeletedBefore(ids, tid, rows, n) \in Seq(Row)
         /\ \A r \in Elements(DeletedBefore(ids, tid, rows, n)) :
              \E i \in 1 .. (n - 1) : r = rows[i] /\ Deletes(ids, tid, rows, i)
<1> DEFINE hits == {i \in 1 .. (n - 1) : Deletes(ids, tid, rows, i)}
           nth(k) == CHOOSE i \in hits : Cardinality({j \in hits : j <= i}) = k
           done == [k \in 1 .. Cardinality(hits) |-> rows[nth(k)]]
<1>1. DeletedBefore(ids, tid, rows, n) = done
  BY DEF DeletedBefore
<1>2. \A k \in 1 .. Cardinality(hits) : nth(k) \in hits
  <2> SUFFICES ASSUME NEW k \in 1 .. Cardinality(hits) PROVE nth(k) \in hits
    OBVIOUS
  <2>0. n - 1 \in Nat /\ hits \in SUBSET (1 .. (n - 1))
    OBVIOUS
  <2> HIDE DEF hits
  <2>1. \E i \in hits : Cardinality({j \in hits : j <= i}) = k
    BY <2>0, RankExists
  <2> QED BY <2>1
<1>3. Cardinality(hits) \in Nat
  <2>1. IsFiniteSet(1 .. (n - 1))
    BY FS_Interval
  <2>2. IsFiniteSet(hits)
    BY <2>1, FS_Subset
  <2> QED BY <2>2, FS_CardinalityType
<1> HIDE DEF nth
<1>4. \A k \in 1 .. Cardinality(hits) : rows[nth(k)] \in Row
  BY <1>2
<1>5. done \in Seq(Row) /\ DOMAIN done = 1 .. Cardinality(hits)
  <2> HIDE DEF hits
  <2> QED BY <1>3, <1>4
<1>6. \A r \in Elements(done) : \E k \in 1 .. Cardinality(hits) : r = rows[nth(k)]
  BY <1>5 DEF Elements
<1> QED BY <1>1, <1>2, <1>5, <1>6

LEMMA FirstConflictIs ==
  ASSUME NEW ids, NEW tid, NEW rows \in Seq(Row)
  PROVE  /\ FirstConflict(ids, tid, rows) \in 1 .. (Len(rows) + 1)
         /\ \A i \in 1 .. (FirstConflict(ids, tid, rows) - 1) : ~Conflicts(ids[rows[i]], tid)
<1> DEFINE bad == {i \in DOMAIN rows : Conflicts(ids[rows[i]], tid)}
           first == CHOOSE i \in bad : \A j \in bad : i <= j
<1>1. CASE bad = {}
  <2>1. FirstConflict(ids, tid, rows) = Len(rows) + 1
    BY <1>1 DEF FirstConflict
  <2>2. \A i \in DOMAIN rows : ~Conflicts(ids[rows[i]], tid)
    BY <1>1
  <2> QED BY <2>1, <2>2
<1>2. CASE bad # {}
  <2>1. FirstConflict(ids, tid, rows) = first
    BY <1>2 DEF FirstConflict
  <2>2. bad \in SUBSET Nat
    OBVIOUS
  <2>3. \E i \in bad : \A j \in bad : i <= j
    <3> HIDE DEF bad
    <3> QED BY <1>2, <2>2, LeastNat
  <2>4. first \in bad /\ \A j \in bad : first <= j
    <3> HIDE DEF bad
    <3> QED BY <2>3
  <2> HIDE DEF first
  <2>5. first \in 1 .. Len(rows)
    BY <2>4
  <2>6. \A i \in 1 .. (first - 1) : i \in DOMAIN rows /\ ~(first <= i)
    BY <2>5
  <2> QED BY <2>1, <2>4, <2>5, <2>6
<1> QED BY <1>1, <1>2

\* What a DELETE does: it marks rows that nobody had deleted, or a conflict
\* gives back rows that were its own before.
DeleteIs(i, tid, rows, out) ==
  /\ out.info \in InfoType /\ out.rows \in Seq(Row)
  /\ out.info.constant_insert = i.constant_insert
  /\ \A r \in Elements(out.rows) : r \in Elements(rows) /\ DeleteId(i, r) = NOT_DELETED_ID
  /\ \A r \in Row :
       \/ DeleteId(out.info, r) = IF r \in Elements(out.rows) THEN tid ELSE DeleteId(i, r)
       \/ DeleteId(i, r) = tid /\ DeleteId(out.info, r) = NOT_DELETED_ID
  /\ \A r \in Row : InsertId(out.info, r) = InsertId(i, r)

LEMMA ArrayDeleteIs ==
  ASSUME NEW i \in InfoType, NEW tid \in Id, NEW rows \in Seq(Row)
  PROVE  DeleteIs(i, tid, rows, ArrayDelete(i, tid, rows))
<1> DEFINE ids == DeleteArray(i)
           n == FirstConflict(ids, tid, rows)
           done == DeletedBefore(ids, tid, rows, n)
<1>1. ids \in [Row -> Id] /\ \A r \in Row : ids[r] = DeleteId(i, r)
  BY IdsTyped DEF DeleteArray
<1>2. n \in 1 .. (Len(rows) + 1) /\ \A k \in 1 .. (n - 1) : ~Conflicts(ids[rows[k]], tid)
  BY FirstConflictIs
<1>3. \A k \in 1 .. (n - 1) : rows[k] \in Row /\ DeleteId(i, rows[k]) \in {tid, NOT_DELETED_ID}
  <2> HIDE DEF ids, n
  <2>1. \A k \in 1 .. (n - 1) : k \in DOMAIN rows /\ rows[k] \in Row
    BY <1>2
  <2> QED BY <1>1, <1>2, <2>1 DEF Conflicts
<1>4. /\ done \in Seq(Row)
      /\ \A r \in Elements(done) :
           \E k \in 1 .. (n - 1) : r = rows[k] /\ Deletes(ids, tid, rows, k)
  <2> HIDE DEF ids, n
  <2>1. /\ DeletedBefore(ids, tid, rows, n) \in Seq(Row)
        /\ \A r \in Elements(DeletedBefore(ids, tid, rows, n)) :
             \E k \in 1 .. (n - 1) : r = rows[k] /\ Deletes(ids, tid, rows, k)
    BY <1>2, DeletedBeforeRows
  <2> QED BY <2>1
<1>5. \A r \in Elements(done) : r \in Elements(rows) /\ DeleteId(i, r) = NOT_DELETED_ID
  <2> HIDE DEF ids, n, done
  <2>1. \A k \in 1 .. (n - 1) : k \in DOMAIN rows
    BY <1>2
  <2> SUFFICES ASSUME NEW r \in Elements(done)
               PROVE  r \in Elements(rows) /\ DeleteId(i, r) = NOT_DELETED_ID
    OBVIOUS
  <2>2. PICK k \in 1 .. (n - 1) : r = rows[k] /\ Deletes(ids, tid, rows, k)
    BY <1>4
  <2>3. ids[r] # tid
    BY <2>2 DEF Deletes
  <2> QED BY <1>1, <1>3, <2>1, <2>2, <2>3 DEF Elements
<1>6. CASE n <= Len(rows)
  <2> DEFINE new == UndoConflict(ids, tid, rows, n)
  <2>1. ArrayDelete(i, tid, rows) = DeleteOutcome(ArrayDeletes(i, new), TRUE, << >>)
    BY <1>6 DEF ArrayDelete
  <2>2. \A r \in Elements(Compacted(ids, tid, rows, n)) :
          r \in Row /\ ids[r] \in {tid, NOT_DELETED_ID}
    <3> DEFINE left == [k \in 1 .. (n - 1) |-> IF k <= Len(done) THEN done[k] ELSE rows[k]]
    <3>1. Compacted(ids, tid, rows, n) = left
      BY DEF Compacted
    <3> HIDE DEF ids, n, done
    <3>2. \A k \in 1 .. (n - 1) : left[k] \in Row /\ DeleteId(i, left[k]) \in {tid, NOT_DELETED_ID}
      <4> SUFFICES ASSUME NEW k \in 1 .. (n - 1)
                   PROVE  left[k] \in Row /\ DeleteId(i, left[k]) \in {tid, NOT_DELETED_ID}
        OBVIOUS
      <4>1. CASE k <= Len(done)
        <5>1. k \in DOMAIN done /\ left[k] = done[k]
          BY <4>1, <1>2, <1>4
        <5>2. done[k] \in Elements(done) /\ done[k] \in Row
          BY <5>1, <1>4 DEF Elements
        <5> QED BY <5>1, <5>2, <1>5
      <4>2. CASE ~(k <= Len(done))
        BY <4>2, <1>3
      <4> QED BY <4>1, <4>2
    <3>3. \A r \in Elements(left) : \E k \in 1 .. (n - 1) : r = left[k]
      BY DEF Elements
    <3> HIDE DEF left
    <3> QED BY <3>1, <3>2, <3>3, <1>1
  <2>3. /\ new \in [Row -> Id]
        /\ \A r \in Row : new[r] = ids[r] \/ (ids[r] = tid /\ new[r] = NOT_DELETED_ID)
    <3> HIDE DEF n, ids
    <3> QED BY <1>1, <2>2, IdFacts DEF UndoConflict
  <2> HIDE DEF new, n, ids
  <2>4. /\ ArrayDelete(i, tid, rows).info = ArrayDeletes(i, new)
        /\ ArrayDelete(i, tid, rows).rows = << >>
    BY <2>1 DEF DeleteOutcome
  <2>5. Elements(<< >>) = {} /\ << >> \in Seq(Row)
    BY DEF Elements
  <2> QED BY <1>1, <2>3, <2>4, <2>5, ArrayDeletesIds DEF DeleteIs
<1>7. CASE ~(n <= Len(rows))
  <2> DEFINE new == [r \in Row |-> IF r \in Elements(done) THEN tid ELSE ids[r]]
  <2>1. ArrayDelete(i, tid, rows) = DeleteOutcome(ArrayDeletes(i, new), FALSE, done)
    BY <1>7 DEF ArrayDelete
  <2>2. /\ ArrayDelete(i, tid, rows).info = ArrayDeletes(i, new)
        /\ ArrayDelete(i, tid, rows).rows = done
    BY <2>1 DEF DeleteOutcome
  <2> HIDE DEF n, ids, done
  <2>3. new \in [Row -> Id]
        /\ \A r \in Row : new[r] = IF r \in Elements(done) THEN tid ELSE DeleteId(i, r)
    BY <1>1
  <2> HIDE DEF new
  <2> QED BY <1>4, <1>5, <2>2, <2>3, ArrayDeletesIds DEF DeleteIs
<1> QED BY <1>6, <1>7

LEMMA DeleteIsExact ==
  ASSUME NEW i \in InfoType, NEW tid \in Id, NEW rows \in Seq(Row)
  PROVE  DeleteIs(i, tid, rows, Delete(i, tid, rows))
<1> DEFINE constant == i.delete_state = "CONSTANT"
           id == i.constant_delete_id
<1>0. Elements(<< >>) = {} /\ << >> \in Seq(Row)
  BY DEF Elements
<1>1. CASE constant /\ id = tid
  <2>1. Delete(i, tid, rows) = DeleteOutcome(i, FALSE, << >>)
    BY <1>1 DEF Delete, Conflicts
  <2> QED BY <1>0, <2>1 DEF DeleteIs, DeleteOutcome
<1>2. CASE constant /\ Conflicts(id, tid)
  <2>1. Delete(i, tid, rows) = DeleteOutcome(i, TRUE, << >>)
    BY <1>2 DEF Delete, Conflicts
  <2> QED BY <1>0, <2>1 DEF DeleteIs, DeleteOutcome
<1>3. CASE constant /\ id # tid /\ ~Conflicts(id, tid) /\ CoversVector(rows)
  <2> DEFINE new == [i EXCEPT !.constant_delete_id = tid]
  <2>1. Delete(i, tid, rows) = DeleteOutcome(new, FALSE, rows)
    BY <1>3 DEF Delete
  <2>2. /\ new \in InfoType /\ new.constant_insert = i.constant_insert
        /\ \A r \in Row : InsertId(new, r) = InsertId(i, r)
        /\ \A r \in Row : DeleteId(new, r) = tid
        /\ \A r \in Row : DeleteId(i, r) = NOT_DELETED_ID
    BY <1>3 DEF InfoType, InsertId, DeleteId, Conflicts
  <2>3. Elements(rows) = Row
    BY <1>3, ElementsRows
  <2> HIDE DEF new
  <2> QED BY <2>1, <2>2, <2>3 DEF DeleteIs, DeleteOutcome
<1>4. CASE ~constant \/ (id # tid /\ ~Conflicts(id, tid) /\ ~CoversVector(rows))
  <2>1. Delete(i, tid, rows) = ArrayDelete(i, tid, rows)
    BY <1>4 DEF Delete
  <2> QED BY <2>1, ArrayDeleteIs
<1> QED BY <1>1, <1>2, <1>3, <1>4

\* Compression with a bound changes only ids below the bound.
EqualOrBelow(x, y, bound) == x = y \/ (x < bound /\ y < bound)

LEMMA CompressDeletesIds ==
  ASSUME NEW i \in InfoType, NEW bound \in Nat
  PROVE  /\ CompressDeletes(i, bound) \in InfoType
         /\ CompressDeletes(i, bound).constant_insert = i.constant_insert
         /\ \A r \in Row : EqualOrBelow(DeleteId(CompressDeletes(i, bound), r), DeleteId(i, r), bound)
         /\ \A r \in Row : InsertId(CompressDeletes(i, bound), r) = InsertId(i, r)
<1> DEFINE out == CompressDeletes(i, bound)
           dead == DeadRows(i)
           ids == {i.deleted[r] : r \in dead}
<1>1. CASE out = i
  BY <1>1 DEF EqualOrBelow
<1>2. CASE out # i
  <2>1. i.delete_state = "ARRAY" /\ \A r \in Row : DeleteId(i, r) = i.deleted[r] /\ i.deleted[r] \in Id
    BY <1>2 DEF CompressDeletes, DeleteId, InfoType
  <2>2. dead \in SUBSET Row /\ ids \in SUBSET Id
    BY <2>1 DEF DeadRows
  <2>3. dead # {} => MaxDeleteId(i) \in ids
    <3> HIDE DEF dead
    <3>1. dead # {} => ids # {}
      OBVIOUS
    <3> HIDE DEF ids
    <3>2. dead # {} => \E m \in ids : \A o \in ids : o <= m
      BY <2>2, <3>1, LargestId
    <3> QED BY <3>2 DEF MaxDeleteId, ids, dead
  <2>4. AllVisible(i, bound) => \A id \in ids : id < bound
    BY DEF AllVisible, VisibleToAll
  <2>5. CASE dead = Row
    <3>1. AllVisible(i, bound) /\ out = ConstantDeletes(i, MaxDeleteId(i))
      BY <1>2, <2>1, <2>5 DEF CompressDeletes
    <3>2. dead # {}
      BY <2>5, IdFacts
    <3>3. MaxDeleteId(i) \in Id /\ MaxDeleteId(i) < bound
      BY <2>2, <2>3, <2>4, <3>1, <3>2
    <3>4. \A r \in Row : DeleteId(i, r) < bound
      BY <2>1, <2>4, <2>5, <3>1
    <3> HIDE DEF dead, ids, out
    <3> QED BY <3>1, <3>3, <3>4, ConstantDeletesIds DEF EqualOrBelow, out
  <2>6. CASE dead # Row
    <3>1. /\ AllVisible(i, bound) \/ OneCommit(i)
          /\ out = MaskedDeletes(i, MaskId(i, bound))
      BY <1>2, <2>1, <2>6 DEF CompressDeletes
    <3>2. MaskId(i, bound) \in Id
      <4>1. CASE AllVisible(i, bound)
        BY <4>1, IdFacts DEF MaskId
      <4>2. CASE ~AllVisible(i, bound)
        <5>1. dead # {}
          BY <4>2 DEF AllVisible
        <5> HIDE DEF dead, ids
        <5> QED BY <4>2, <5>1, <2>2, <2>3 DEF MaskId
      <4> QED BY <4>1, <4>2
    <3>3. \A r \in dead : EqualOrBelow(MaskId(i, bound), i.deleted[r], bound)
      <4> SUFFICES ASSUME NEW r \in dead
                   PROVE  EqualOrBelow(MaskId(i, bound), i.deleted[r], bound)
        OBVIOUS
      <4>0. r \in Row /\ i.deleted[r] \in ids /\ i.deleted[r] \in Nat
        BY <2>1, <2>2, IdFacts
      <4>1. CASE AllVisible(i, bound)
        <5>1. MaskId(i, bound) = 0 /\ i.deleted[r] < bound
          BY <4>0, <4>1, <2>4 DEF MaskId
        <5> HIDE DEF dead, ids
        <5> QED BY <4>0, <5>1 DEF EqualOrBelow
      <4>2. CASE ~AllVisible(i, bound)
        <5>1. \A id, other \in ids : id = other
          BY <4>2, <3>1 DEF OneCommit
        <5>2. MaskId(i, bound) \in ids
          BY <4>2, <2>3 DEF MaskId
        <5> HIDE DEF dead, ids
        <5> QED BY <4>0, <5>1, <5>2 DEF EqualOrBelow
      <4> QED BY <4>1, <4>2
    <3>4. \A r \in Row : r \notin dead => i.deleted[r] = NOT_DELETED_ID
      BY DEF DeadRows
    <3>5. \A r \in Row : r \in dead => i.deleted[r] # NOT_DELETED_ID
      BY DEF DeadRows
    <3> HIDE DEF dead, ids, out
    <3>6. \A r \in Row : DeleteId(out, r)
             = IF i.deleted[r] # NOT_DELETED_ID THEN MaskId(i, bound) ELSE NOT_DELETED_ID
      BY <3>1, <3>2, MaskedDeletesIds
    <3>7. \A r \in Row : EqualOrBelow(DeleteId(out, r), DeleteId(i, r), bound)
      BY <2>1, <3>3, <3>4, <3>5, <3>6 DEF EqualOrBelow
    <3> QED BY <3>1, <3>2, <3>7, MaskedDeletesIds DEF out
  <2> QED BY <2>5, <2>6
<1> QED BY <1>1, <1>2

LEMMA CompressIds ==
  ASSUME NEW i \in InfoType, NEW bound \in Nat
  PROVE  /\ CompressVersionIds(i, bound) \in InfoType
         /\ i.constant_insert => CompressVersionIds(i, bound).constant_insert
         /\ \A r \in Row : EqualOrBelow(DeleteId(CompressVersionIds(i, bound), r), DeleteId(i, r), bound)
         /\ \A r \in Row : EqualOrBelow(InsertId(CompressVersionIds(i, bound), r), InsertId(i, r), bound)
<1>1. CASE ~i.recheck
  <2>1. CompressVersionIds(i, bound) = i
    BY <1>1 DEF CompressVersionIds
  <2> QED BY <2>1 DEF EqualOrBelow
<1>2. CASE i.recheck
  <2> DEFINE d == CompressDeletes(i, bound)
             c == CompressInserts(d, bound)
             out == [c EXCEPT !.recheck = CompressionPending(c)]
  <2>1. CompressVersionIds(i, bound) = out
    BY <1>2 DEF CompressVersionIds
  <2>2. /\ d \in InfoType /\ d.constant_insert = i.constant_insert
        /\ \A r \in Row : EqualOrBelow(DeleteId(d, r), DeleteId(i, r), bound)
        /\ \A r \in Row : InsertId(d, r) = InsertId(i, r)
    BY CompressDeletesIds
  <2> HIDE DEF d
  <2>3. /\ c \in InfoType
        /\ d.constant_insert => c.constant_insert
        /\ \A r \in Row : DeleteId(c, r) = DeleteId(d, r)
        /\ \A r \in Row : EqualOrBelow(InsertId(c, r), InsertId(d, r), bound)
    <3>1. CASE c = d
      BY <3>1, <2>2 DEF EqualOrBelow
    <3>2. CASE c # d
      <4>1. /\ ~d.constant_insert /\ \A r \in Row : d.inserted[r] < bound
            /\ c = [d EXCEPT !.constant_insert = TRUE,
                             !.constant_insert_id = 0,
                             !.inserted = [r \in Row |-> 0]]
        BY <3>2 DEF CompressInserts, VisibleToAll
      <4>2. /\ c \in InfoType /\ c.constant_insert
            /\ \A r \in Row : InsertId(c, r) = 0
            /\ \A r \in Row : DeleteId(c, r) = DeleteId(d, r)
        <5> HIDE DEF c
        <5> QED BY <4>1, <2>2, IdFacts DEF InfoType, InsertId, DeleteId
      <4>3. \A r \in Row : InsertId(d, r) = d.inserted[r] /\ d.inserted[r] \in Nat
        BY <4>1, <2>2, IdFacts DEF InsertId, InfoType
      <4> HIDE DEF c
      <4>4. \A r \in Row : 0 < bound /\ d.inserted[r] < bound
        BY <4>1, <4>3
      <4> QED BY <4>2, <4>3, <4>4 DEF EqualOrBelow
    <3> QED BY <3>1, <3>2
  <2> HIDE DEF c
  <2>4. /\ out \in InfoType /\ out.constant_insert = c.constant_insert
        /\ \A r \in Row : DeleteId(out, r) = DeleteId(c, r) /\ InsertId(out, r) = InsertId(c, r)
    <3>1. PICK pending \in BOOLEAN : pending = CompressionPending(c)
      BY DEF CompressionPending
    <3>2. out = [c EXCEPT !.recheck = pending] /\ c \in InfoType
      BY <2>3, <3>1
    <3> HIDE DEF out
    <3> QED BY <3>2 DEF InfoType, DeleteId, InsertId
  <2> HIDE DEF out
  <2> QED BY <2>1, <2>2, <2>3, <2>4
<1> QED BY <1>1, <1>2

\* An append gives its rows the id of its transaction.
LEMMA AppendIdsIs ==
  ASSUME NEW i \in InfoType, NEW start \in Nat, NEW end \in Nat, NEW tid \in Id,
         start = 0 => i.constant_insert,
         start # 0 => InsertId(i, 0) # tid
  PROVE  /\ AppendIds(i, start, end, tid) \in InfoType
         /\ start = 0 <=> AppendIds(i, start, end, tid).constant_insert
         /\ \A r \in Row : DeleteId(AppendIds(i, start, end, tid), r) = DeleteId(i, r)
         /\ \A r \in Row : r \in start .. (end - 1) => InsertId(AppendIds(i, start, end, tid), r) = tid
         /\ \A r \in Row : r < start => InsertId(AppendIds(i, start, end, tid), r) = InsertId(i, r)
<1>1. CASE start = 0
  <2>1. AppendIds(i, start, end, tid) = [i EXCEPT !.constant_insert_id = tid] /\ i.constant_insert
    BY <1>1 DEF AppendIds
  <2>2. \A r \in Row : ~(r < 0)
    BY DEF Row
  <2> QED BY <1>1, <2>1, <2>2 DEF InfoType, DeleteId, InsertId
<1>2. CASE start # 0
  <2> DEFINE new == [r \in Row |-> IF r \in start .. (end - 1) THEN tid ELSE InsertId(i, r)]
  <2>0. ~(i.constant_insert /\ i.constant_insert_id = tid)
    BY <1>2 DEF InsertId
  <2>1. AppendIds(i, start, end, tid)
          = [i EXCEPT !.constant_insert = FALSE, !.inserted = new, !.recheck = TRUE]
    BY <1>2, <2>0 DEF AppendIds
  <2>2. new \in [Row -> Id]
    BY IdsTyped
  <2>3. \A r \in Row : /\ r \in start .. (end - 1) => new[r] = tid
                       /\ r < start => new[r] = InsertId(i, r)
    BY DEF Row
  <2> HIDE DEF new
  <2>4. /\ AppendIds(i, start, end, tid) \in InfoType
        /\ AppendIds(i, start, end, tid).constant_insert = FALSE
        /\ \A r \in Row : DeleteId(AppendIds(i, start, end, tid), r) = DeleteId(i, r)
        /\ \A r \in Row : InsertId(AppendIds(i, start, end, tid), r) = new[r]
    BY <2>1, <2>2 DEF InfoType, DeleteId, InsertId
  <2> QED BY <1>2, <2>3, <2>4
<1> QED BY <1>1, <1>2

\* CommitAppend gives the rows the commit id; a constant id is that of an
\* append to an empty vector.
LEMMA CommitAppendIs ==
  ASSUME NEW i \in InfoType, NEW start \in Nat, NEW end \in Nat, NEW x \in Id,
         start # 0 => ~i.constant_insert
  PROVE  /\ CommitAppend(i, x, start, end) \in InfoType
         /\ CommitAppend(i, x, start, end).constant_insert = i.constant_insert
         /\ \A r \in Row : DeleteId(CommitAppend(i, x, start, end), r) = DeleteId(i, r)
         /\ \A r \in Row : r \in start .. (end - 1) => InsertId(CommitAppend(i, x, start, end), r) = x
         /\ \A r \in Row : r < start => InsertId(CommitAppend(i, x, start, end), r) = InsertId(i, r)
<1>1. CASE i.constant_insert
  <2>1. CommitAppend(i, x, start, end) = [i EXCEPT !.constant_insert_id = x] /\ start = 0
    BY <1>1 DEF CommitAppend
  <2>2. \A r \in Row : ~(r < 0)
    BY DEF Row
  <2> QED BY <1>1, <2>1, <2>2 DEF InfoType, DeleteId, InsertId
<1>2. CASE ~i.constant_insert
  <2> DEFINE new == [r \in Row |-> IF r \in start .. (end - 1) THEN x ELSE i.inserted[r]]
  <2>1. CommitAppend(i, x, start, end) = [i EXCEPT !.inserted = new, !.recheck = TRUE]
    BY <1>2 DEF CommitAppend
  <2>2. new \in [Row -> Id]
    BY DEF InfoType
  <2>3. \A r \in Row : /\ r \in start .. (end - 1) => new[r] = x
                       /\ r < start => new[r] = i.inserted[r]
    BY DEF Row
  <2> HIDE DEF new
  <2>4. /\ CommitAppend(i, x, start, end) \in InfoType
        /\ CommitAppend(i, x, start, end).constant_insert = i.constant_insert
        /\ \A r \in Row : DeleteId(CommitAppend(i, x, start, end), r) = DeleteId(i, r)
        /\ \A r \in Row : InsertId(CommitAppend(i, x, start, end), r) = new[r]
    BY <1>2, <2>1, <2>2 DEF InfoType, DeleteId, InsertId
  <2> QED BY <1>2, <2>3, <2>4 DEF InsertId
<1> QED BY <1>1, <1>2

-----------------------------------------------------------------------------
(* Steps that leave the rows alone *)

LEMMA ClockFacts ==
  ASSUME Types
  PROVE  /\ clock \in Nat /\ 2 <= clock /\ clock < TRANSACTION_ID_START
         /\ clock \in Id /\ clock - 1 \in Id
         /\ \A t \in Txn : TransactionId(t) > clock
         /\ NOT_DELETED_ID > clock
         /\ \A r \in Row : ins[r] \in Nat /\ del[r] \in Nat
  BY IdFacts, IdAssumption, RowVersionAssumption DEF Types, Id, TransactionId

LEMMA EntryFacts ==
  ASSUME Types, NEW t \in Txn, NEW i \in DOMAIN undo[t]
  PROVE  /\ undo[t] \in Seq(DeleteEntry \cup InsertEntry) /\ i \in 1 .. Len(undo[t])
         /\ undo[t][i].type \in {"DELETE_TUPLE", "INSERT_TUPLE"}
         /\ undo[t][i].type = "DELETE_TUPLE" =>
              undo[t][i].rows \in Seq(Row) /\ Elements(undo[t][i].rows) \subseteq Row
         /\ undo[t][i].type = "INSERT_TUPLE" =>
              undo[t][i].start \in 0 .. VectorSize /\ undo[t][i].end \in 0 .. VectorSize
<1>1. undo[t] \in Seq(DeleteEntry \cup InsertEntry) /\ i \in 1 .. Len(undo[t])
  BY DEF Types
<1>2. undo[t][i] \in DeleteEntry \cup InsertEntry
  BY <1>1
<1> QED BY <1>1, <1>2, ElementsRows DEF DeleteEntry, InsertEntry

LEMMA UndoRowsAre ==
  ASSUME NEW t \in Txn, NEW r
  PROVE  r \in UndoRows(t) <=> \E i \in DOMAIN undo[t] :
                                 IsDelete(t, i) /\ r \in Elements(undo[t][i].rows)
  BY DEF UndoRows, IsDelete

LEMMA FloorsFacts ==
  ASSUME Types, Bounds
  PROVE  /\ Floors \in SUBSET Nat /\ clock \in Floors
         /\ \A b \in Floors : 2 <= b /\ b <= clock
         /\ \A x \in Nat : x >= clock => ~SettledIn(x, Floors)
<1>1. /\ clock \in Nat /\ 2 <= clock /\ \A t \in Txn : start_time[t] \in Nat
      /\ ckpt.bound \in Nat
  BY ClockFacts DEF Types
<1>2. clock \in Floors
  BY DEF Floors
<1>3. \A b \in Floors : b \in Nat /\ 2 <= b /\ b <= clock
  <2> SUFFICES ASSUME NEW b \in Floors PROVE b \in Nat /\ 2 <= b /\ b <= clock
    OBVIOUS
  <2>1. CASE b = clock
    BY <1>1, <2>1
  <2>2. CASE \E t \in Txn : Active(t) /\ b = start_time[t]
    BY <1>1, <2>2 DEF Bounds
  <2>3. CASE ckpt.phase # "none" /\ b = ckpt.bound
    BY <1>1, <2>3 DEF Bounds
  <2> QED BY <2>1, <2>2, <2>3 DEF Floors
<1>4. \A x \in Nat : x >= clock => ~SettledIn(x, Floors)
  BY <1>1, <1>2 DEF SettledIn
<1> QED BY <1>2, <1>3, <1>4

\* Snapshots only move on.
Advance == \A b \in Floors' : \E c \in Floors : c <= b

LEMMA SameKept ==
  ASSUME NEW F \in SUBSET Nat, NEW G \in SUBSET Nat,
         \A b \in G : \E c \in F : c <= b,
         NEW x \in Nat, NEW y \in Nat
  PROVE  /\ SettledIn(x, F) => SettledIn(x, G)
         /\ SameIn(x, y, F) => SameIn(x, y, G)
<1>1. \A z \in Nat : SettledIn(z, F) => SettledIn(z, G)
  <2> SUFFICES ASSUME NEW z \in Nat, \A c \in F : z < c, NEW b \in G PROVE z < b
    BY DEF SettledIn
  <2>1. PICK c \in F : c <= b
    OBVIOUS
  <2> QED BY <2>1
<1> QED BY <1>1 DEF SameIn

LEMMA AdvanceIf ==
  ASSUME Types, Types', Bounds, Bounds', clock <= clock',
         \A t \in Txn : Active(t)' => \/ Active(t) /\ start_time'[t] = start_time[t]
                                      \/ start_time'[t] = clock,
         ckpt'.phase # "none" => \/ ckpt.phase # "none" /\ ckpt'.bound = ckpt.bound
                                 \/ ckpt'.bound = clock
  PROVE  Advance
<1>0. clock \in Nat /\ clock' \in Nat
  BY ClockFacts DEF Types
<1> SUFFICES ASSUME NEW b \in Floors' PROVE \E c \in Floors : c <= b
  BY DEF Advance
<1>1. clock \in Floors
  BY DEF Floors
<1>2. CASE b = clock'
  BY <1>1, <1>2
<1>3. CASE \E t \in Txn : Active(t)' /\ b = start_time'[t]
  <2>1. PICK t \in Txn : Active(t)' /\ b = start_time'[t]
    BY <1>3
  <2>2. CASE Active(t) /\ start_time'[t] = start_time[t]
    <3>1. start_time[t] \in Floors
      BY <2>2 DEF Floors
    <3>2. start_time[t] \in Nat
      BY DEF Types
    <3> QED BY <2>1, <2>2, <3>1, <3>2
  <2>3. CASE start_time'[t] = clock
    BY <1>0, <1>1, <2>1, <2>3
  <2> QED BY <2>1, <2>2, <2>3
<1>4. CASE ckpt'.phase # "none" /\ b = ckpt'.bound
  <2>1. CASE ckpt.phase # "none" /\ ckpt'.bound = ckpt.bound
    <3>1. ckpt.bound \in Floors /\ ckpt.bound \in Nat
      BY <2>1 DEF Floors, Types
    <3> QED BY <1>4, <2>1, <3>1
  <2>2. CASE ckpt'.bound = clock
    BY <1>0, <1>1, <1>4, <2>2
  <2> QED BY <1>4, <2>1, <2>2
<1> QED BY <1>2, <1>3, <1>4 DEF Floors

LEMMA SameStays ==
  ASSUME Types, Types', Bounds, Bounds', Advance
  PROVE  /\ \A x, y \in Nat : SameIn(x, y, Floors) => SameIn(x, y, Floors')
         /\ \A x \in Nat : SettledIn(x, Floors) => SettledIn(x, Floors')
<1>1. Floors \in SUBSET Nat
  BY FloorsFacts
<1>2. Floors' \in SUBSET Nat
  <2>1. (Types /\ Bounds) => Floors \in SUBSET Nat
    BY FloorsFacts
  <2>2. (Types /\ Bounds)' => Floors' \in SUBSET Nat
    <3>1. Types' => /\ clock' \in Nat /\ ckpt'.bound \in Nat
                    /\ \A t \in Txn : start_time'[t] \in Nat
      BY DEF Types
    <3> QED BY <3>1 DEF Floors
  <2> QED BY <2>2
<1>3. \A b \in Floors' : \E c \in Floors : c <= b
  BY DEF Advance
<1> HIDE DEF Floors
<1> QED BY <1>1, <1>2, <1>3, SameKept

LEMMA InitInv == Init => VersionInv
<1> SUFFICES ASSUME Init PROVE VersionInv
  OBVIOUS
<1>1. \A t \in Txn : status[t] = "new" /\ undo[t] = << >> /\ cleanup[t] = 0 /\ ~Active(t)
  BY DEF Init, Active
<1>2. ending = Idle /\ ending.phase = "none" /\ ending.txn = 0 /\ ckpt.phase = "none"
  BY DEF Init, Idle, NoCheckpoint
<1>3. Types
  <2>1. info \in InfoType
    BY NoInfoIds DEF Init
  <2>2. ending \in [txn : Txn \cup {0}, phase : Phases, pos : Nat, id : Id]
    BY IdFacts DEF Init, Idle, Phases
  <2>3. ckpt \in [phase : {"none", "started", "read", "compressed", "written"},
                  bound : Nat, lowest : Nat]
    BY DEF Init, NoCheckpoint
  <2>4. /\ row_count \in 0 .. VectorSize /\ clock \in 2 .. MaxClock
        /\ status \in [Txn -> Statuses] /\ start_time \in [Txn -> Nat]
        /\ cleanup \in [Txn -> Nat] /\ ins \in [Row -> Id] /\ del \in [Row -> Id]
    BY IdFacts, IdAssumption, RowVersionAssumption DEF Init, Statuses
  <2>5. undo \in [Txn -> Seq(DeleteEntry \cup InsertEntry)] /\ \A t \in Txn : Len(undo[t]) <= MaxUndo
    BY RowVersionAssumption DEF Init
  <2>6. strayed \subseteq Row /\ ghosts \subseteq Row
    BY DEF Init
  <2> QED BY <2>1, <2>2, <2>3, <2>4, <2>5, <2>6 DEF Types
<1>4. Ending /\ Bounds
  BY <1>1, <1>2 DEF Ending, Bounds
<1>5. InsertsSame /\ DeletesSame
  BY NoInfoIds DEF Init, InsertsSame, DeletesSame, SameIn
<1>6. OneAppend /\ Appending /\ Cleaning /\ OwnedRows /\ EntriesApart
  BY <1>1, <1>2 DEF OneAppend, Appending, Cleaning, OwnedRows, EntriesApart, IsAppend
<1>7. CommittedRows
  BY <1>1 DEF CommittedRows
<1>8. Inserted /\ FreshAlive
  <2>1. \A r \in Row : ins[r] = 0 /\ del[r] = NOT_DELETED_ID
    BY DEF Init
  <2>2. clock = 2 /\ info.constant_insert
    BY NoInfoIds DEF Init
  <2> QED BY <2>1, <2>2 DEF Inserted, FreshAlive
<1> QED BY <1>3, <1>4, <1>5, <1>6, <1>7, <1>8 DEF VersionInv, Owners

\* Nothing happens to the rows, and nobody who has written anything starts
\* or ends.
Quiet ==
  /\ info' = info /\ row_count' = row_count /\ undo' = undo
  /\ cleanup' = cleanup /\ ins' = ins /\ del' = del /\ strayed' = strayed
  /\ clock <= clock'
  /\ \A t \in Txn : /\ Active(t) => Active(t)'
                    /\ Active(t)' => Active(t) \/ undo[t] = << >>
                    /\ status'[t] = "committed" <=> status[t] = "committed"
                    /\ status'[t] \in {"new", "aborted"} => status[t] \in {"new", "aborted"}
  /\ ckpt'.phase # "none" => \A t \in Txn : Active(t) => ~FlushedAppend(t)

LEMMA QuietSame ==
  ASSUME Types, Quiet
  PROVE  /\ \A t \in Txn : FlushedAppend(t)' <=> FlushedAppend(t)
         /\ \A t \in Txn : \A i : IsAppend(t, i)' <=> IsAppend(t, i)
         /\ \A t \in Txn : \A i : IsDelete(t, i)' <=> IsDelete(t, i)
         /\ \A t \in Txn : UndoRows(t)' = UndoRows(t)
         /\ \A r : Fresh(r)' <=> Fresh(r)
         /\ \A t \in Txn : Active(t)' /\ ~Active(t) => DOMAIN undo[t] = {}
<1>1. undo' = undo /\ row_count' = row_count
  BY DEF Quiet
<1>2. /\ \A t \in Txn : FlushedAppend(t)' <=> FlushedAppend(t)
      /\ \A t \in Txn : \A i : IsAppend(t, i)' <=> IsAppend(t, i)
      /\ \A t \in Txn : \A i : IsDelete(t, i)' <=> IsDelete(t, i)
      /\ \A t \in Txn : UndoRows(t)' = UndoRows(t)
  BY <1>1 DEF FlushedAppend, IsAppend, IsDelete, UndoRows
<1>3. \A t \in Txn : Active(t)' /\ ~Active(t) => DOMAIN undo[t] = {}
  BY DEF Quiet
<1>4. \A t \in Txn : \A i : Active(t)' /\ i \in DOMAIN undo[t] => Active(t)
  BY <1>3
<1>5. \A t \in Txn : Active(t) => Active(t)'
  BY DEF Quiet
<1>6. \A r : Fresh(r)' <=> Fresh(r)
  BY <1>1, <1>2, <1>4, <1>5 DEF Fresh
<1> QED BY <1>2, <1>3, <1>6

LEMMA QuietStep ==
  ASSUME VersionInv, Types', Bounds', Advance, Quiet
  PROVE  InsertsSame' /\ DeletesSame' /\ OneAppend' /\ Inserted' /\ Cleaning'
         /\ EntriesApart' /\ FreshAlive'
<1> USE DEF VersionInv, Owners
<1>1. /\ \A x, y \in Nat : SameIn(x, y, Floors) => SameIn(x, y, Floors')
      /\ \A x \in Nat : SettledIn(x, Floors) => SettledIn(x, Floors')
  BY SameStays
<1>2. /\ info' = info /\ row_count' = row_count /\ undo' = undo
      /\ cleanup' = cleanup /\ ins' = ins /\ del' = del /\ clock <= clock'
      /\ strayed' = strayed
  BY DEF Quiet
<1>3. \A r \in Row : /\ InsertId(info, r) \in Nat /\ DeleteId(info, r) \in Nat
                     /\ ins[r] \in Nat /\ del[r] \in Nat
  BY IdsTyped, IdFacts, ClockFacts DEF Types
<1>4. InsertsSame' /\ DeletesSame'
  BY <1>1, <1>2, <1>3 DEF InsertsSame, DeletesSame
<1>5. OneAppend'
  <2>1. \A t \in Txn : Active(t)' /\ FlushedAppend(t)' => Active(t) /\ FlushedAppend(t)
    BY QuietSame DEF FlushedAppend
  <2>2. \A t \in Txn : status'[t] \in {"new", "aborted"} => status[t] \in {"new", "aborted"}
    BY DEF Quiet
  <2>3. ckpt'.phase # "none" => \A t \in Txn : Active(t) => ~FlushedAppend(t)
    BY DEF Quiet
  <2> QED BY <1>2, <2>1, <2>2, <2>3, QuietSame DEF OneAppend
<1>6. Inserted' /\ FreshAlive'
  <2>1. clock \in Nat /\ clock' \in Nat
    BY DEF Types
  <2>2. \A r \in Row : ins[r] < clock => ins[r] < clock'
    BY <1>2, <1>3, <2>1
  <2> QED BY <1>2, <2>2, QuietSame DEF Inserted, FreshAlive
<1>7. Cleaning'
  <2>1. \A t \in Txn : Active(t)' /\ FlushedAppend(t)' => Active(t) /\ FlushedAppend(t)
    BY QuietSame DEF FlushedAppend
  <2>2. \A t \in Txn : status'[t] = "committed" <=> status[t] = "committed"
    BY DEF Quiet
  <2> QED BY <1>1, <1>2, <1>3, <2>1, <2>2, QuietSame DEF Cleaning
<1>8. EntriesApart'
  BY <1>2, QuietSame DEF EntriesApart
<1> QED BY <1>4, <1>5, <1>6, <1>7, <1>8

\* Nobody starts or gets on with ending, or the clock moves while nobody does.
LEMMA QuietEnding ==
  ASSUME VersionInv, Types', Quiet, ending' = ending, clock' = clock \/ ending = Idle
  PROVE  Appending' /\ OwnedRows' /\ CommittedRows'
<1> USE DEF VersionInv, Owners
<1>2. /\ info' = info /\ row_count' = row_count /\ undo' = undo
      /\ cleanup' = cleanup /\ ins' = ins /\ del' = del /\ clock <= clock'
      /\ strayed' = strayed
  BY DEF Quiet
<1>3. \A r \in Row : ins[r] \in Nat /\ del[r] \in Nat
  BY ClockFacts
<1>4. \A t \in Txn : \A i : Active(t)' /\ i \in DOMAIN undo[t] => Active(t)
  BY QuietSame
<1>5. clock' # clock => ending.txn = 0 /\ ending.phase = "none" /\ 0 \notin Txn
  BY RowVersionAssumption DEF Idle
<1>6. Appending'
  <2> SUFFICES ASSUME NEW t \in Txn, NEW i \in DOMAIN undo[t], AppendState(t, i)
               PROVE  AppendState(t, i)'
    BY <1>2, <1>4, QuietSame DEF Appending
  <2>1. Reverting(t)' <=> Reverting(t)
    BY DEF Reverting
  <2>2. AppendRows(t, i) => AppendRows(t, i)'
    <3>1. CASE clock' = clock
      BY <1>2, <3>1 DEF AppendRows
    <3>2. CASE clock' # clock
      BY <1>2, <1>5, <3>2 DEF AppendRows
    <3> QED BY <3>1, <3>2
  <2> QED BY <1>2, <2>1, <2>2 DEF AppendState
<1>7. OwnedRows'
  <2> SUFFICES ASSUME NEW t \in Txn, NEW i \in DOMAIN undo[t], Owned(t, i)
               PROVE  Owned(t, i)'
    BY <1>2, <1>4, QuietSame DEF OwnedRows
  <2>1. (Undone(t, i)' <=> Undone(t, i)) /\ (Written(t, i)' <=> Written(t, i))
    BY DEF Undone, Written
  <2>2. clock' # clock => ~Written(t, i)
    BY <1>5 DEF Written
  <2> QED BY <1>2, <2>1, <2>2, QuietSame DEF Owned
<1>8. CommittedRows'
  <2>1. \A t \in Txn : status'[t] = "committed" <=> status[t] = "committed"
    BY DEF Quiet
  <2>2. \A t \in Txn : \A r \in UndoRows(t) : r \in Row
    <3> SUFFICES ASSUME NEW t \in Txn, NEW r \in UndoRows(t) PROVE r \in Row
      OBVIOUS
    <3>1. PICK i \in DOMAIN undo[t] : IsDelete(t, i) /\ r \in Elements(undo[t][i].rows)
      BY UndoRowsAre
    <3> QED BY <3>1, EntryFacts DEF IsDelete
  <2>3. clock \in Nat /\ clock' \in Nat
    BY DEF Types
  <2>4. \A r \in Row : del[r] < clock => del[r] < clock'
    BY <1>2, <1>3, <2>3
  <2>5. /\ ending'.phase \in {"commit", "revert", "abort"} => clock' = clock
        /\ ending'.phase = ending.phase
    BY <1>5
  <2> QED BY <1>2, <2>1, <2>2, <2>4, <2>5, QuietSame DEF CommittedRows
<1> QED BY <1>6, <1>7, <1>8

LEMMA StartTransactionInv ==
  ASSUME VersionInv, NEW t \in Txn, StartTransaction(t)
  PROVE  VersionInv'
<1> USE DEF VersionInv, Owners
<1>1. /\ status[t] = "new" /\ ending = Idle /\ clock < MaxClock
      /\ status' = [status EXCEPT ![t] = "active"]
      /\ start_time' = [start_time EXCEPT ![t] = clock] /\ clock' = clock + 1
      /\ UNCHANGED <<info, row_count, undo, ending, cleanup, ckpt, ins, del, strayed, ghosts>>
  BY DEF StartTransaction
<1>2. /\ clock \in Nat /\ MaxClock \in Nat /\ clock' \in Nat /\ 2 <= clock
  BY <1>1, ClockFacts, RowVersionAssumption DEF Types
<1>3. Types'
  BY <1>1, <1>2 DEF Types, Statuses
<1>4. /\ \A u \in Txn : u # t => (Active(u)' <=> Active(u)) /\ start_time'[u] = start_time[u]
      /\ Active(t)' /\ ~Active(t) /\ start_time'[t] = clock
  BY <1>1 DEF Active, Types
<1>5. ending.phase = "none" /\ ending'.phase = "none"
  BY <1>1 DEF Idle
<1>6. Ending'
  BY <1>1, <1>5 DEF Ending, Idle
<1>7. Bounds'
  <2>1. \A u \in Txn : Active(u)' => start_time'[u] \in 2 .. (clock' - 1)
    BY <1>1, <1>2, <1>4 DEF Bounds, Types
  <2>2. ckpt'.phase # "none" =>
          /\ ckpt'.bound \in 2 .. (clock' - 1) /\ ckpt'.lowest <= ckpt'.bound
          /\ \A u \in Txn : Active(u)' => ckpt'.lowest <= start_time'[u]
    <3> SUFFICES ASSUME ckpt.phase # "none"
                 PROVE  /\ ckpt.bound \in 2 .. (clock' - 1) /\ ckpt.lowest <= ckpt.bound
                        /\ \A u \in Txn : Active(u)' => ckpt.lowest <= start_time'[u]
      BY <1>1
    <3>1. ckpt.bound \in Nat /\ ckpt.lowest \in Nat
      BY DEF Types
    <3>2. ckpt.bound \in 2 .. (clock - 1) /\ ckpt.lowest <= ckpt.bound
      BY DEF Bounds
    <3>3. \A u \in Txn : Active(u)' => ckpt.lowest <= start_time'[u]
      BY <1>2, <1>4, <3>1, <3>2 DEF Bounds
    <3> QED BY <1>1, <1>2, <3>1, <3>2, <3>3
  <2> QED BY <1>5, <2>1, <2>2 DEF Bounds
<1>8. Quiet
  <2>1. undo[t] = << >>
    BY <1>1 DEF OneAppend
  <2>2. \A u \in Txn : /\ status'[u] = "committed" <=> status[u] = "committed"
                       /\ status'[u] \in {"new", "aborted"} => status[u] \in {"new", "aborted"}
    BY <1>1 DEF Types
  <2>3. \A u \in Txn : (Active(u) => Active(u)') /\ (Active(u)' => Active(u) \/ undo[u] = << >>)
    BY <1>4, <2>1
  <2>4. ckpt'.phase # "none" => \A u \in Txn : Active(u) => ~FlushedAppend(u)
    BY <1>1 DEF OneAppend
  <2>5. clock <= clock'
    BY <1>1, <1>2
  <2> QED BY <1>1, <2>2, <2>3, <2>4, <2>5 DEF Quiet
<1>9. Advance
  BY <1>1, <1>2, <1>3, <1>4, <1>7, AdvanceIf
<1> QED BY <1>1, <1>3, <1>6, <1>7, <1>8, <1>9, QuietStep, QuietEnding

LEMMA CheckpointStartInv ==
  ASSUME VersionInv, CheckpointStart
  PROVE  VersionInv'
<1> USE DEF VersionInv, Owners
<1>1. /\ ckpt.phase = "none" /\ ending = Idle /\ clock < MaxClock
      /\ \A u \in Txn : Active(u) => ~FlushedAppend(u)
      /\ ckpt' = [phase |-> "started", bound |-> clock, lowest |-> 0]
      /\ clock' = clock + 1
      /\ UNCHANGED <<info, row_count, status, start_time, undo, ending, cleanup, ins, del, strayed, ghosts>>
  BY DEF CheckpointStart
<1>2. /\ clock \in Nat /\ MaxClock \in Nat /\ clock' \in Nat /\ 2 <= clock
  BY <1>1, ClockFacts, RowVersionAssumption DEF Types
<1>3. Types'
  BY <1>1, <1>2 DEF Types
<1>4. \A u \in Txn : Active(u)' <=> Active(u)
  BY <1>1 DEF Active
<1>5. ending.phase = "none" /\ ending'.phase = "none"
  BY <1>1 DEF Idle
<1>6. Ending'
  BY <1>1, <1>5 DEF Ending, Idle
<1>7. Bounds'
  <2>1. \A u \in Txn : Active(u)' => start_time'[u] \in 2 .. (clock' - 1)
    BY <1>1, <1>2, <1>4 DEF Bounds, Types
  <2>2. ckpt'.bound = clock /\ ckpt'.lowest = 0
    BY <1>1
  <2>3. \A u \in Txn : start_time'[u] \in Nat
    BY <1>3 DEF Types
  <2> QED BY <1>1, <1>2, <1>5, <2>1, <2>2, <2>3 DEF Bounds
<1>8. Quiet
  BY <1>1, <1>2, <1>4 DEF Quiet
<1>9. Advance
  BY <1>1, <1>2, <1>3, <1>4, <1>7, AdvanceIf
<1> QED BY <1>1, <1>3, <1>6, <1>7, <1>8, <1>9, QuietStep, QuietEnding

\* The bound a checkpoint reads is below every snapshot.
LEMMA LowestBoundIs ==
  ASSUME Types, Bounds, NEW leaving \in SUBSET Txn
  PROVE  /\ LowestBound(leaving) \in Nat
         /\ \A u \in Txn \ leaving : Active(u) => LowestBound(leaving) <= start_time[u]
         /\ ckpt.phase # "none" => LowestBound(leaving) <= ckpt.bound
         /\ \/ LowestBound(leaving) = TRANSACTION_ID_START
            \/ LowestBound(leaving) < clock
<1> DEFINE starts == {start_time[u] : u \in {v \in Txn : Active(v)} \ leaving}
                     \union (IF ckpt.phase = "none" THEN {} ELSE {ckpt.bound})
           least == CHOOSE b \in starts : \A c \in starts : b <= c
<1>1. starts \in SUBSET Nat /\ \A b \in starts : b < clock
  <2>1. /\ clock \in Nat /\ ckpt.bound \in Nat /\ \A u \in Txn : start_time[u] \in Nat
    BY DEF Types
  <2>2. /\ \A u \in Txn : Active(u) => start_time[u] < clock
        /\ ckpt.phase # "none" => ckpt.bound < clock
    BY <2>1 DEF Bounds
  <2> QED BY <2>1, <2>2
<1>2. /\ \A u \in Txn \ leaving : Active(u) => start_time[u] \in starts
      /\ ckpt.phase # "none" => ckpt.bound \in starts
  OBVIOUS
<1>3. LowestBound(leaving) = IF starts = {} THEN TRANSACTION_ID_START ELSE least
  BY DEF LowestBound
<1> HIDE DEF starts
<1>4. starts # {} => least \in starts /\ \A c \in starts : least <= c
  <2>1. starts # {} => \E b \in starts : \A c \in starts : b <= c
    BY <1>1, LeastNat
  <2> QED BY <2>1
<1> HIDE DEF least
<1>5. CASE starts = {}
  BY <1>2, <1>3, <1>5, IdAssumption
<1>6. CASE starts # {}
  BY <1>1, <1>2, <1>3, <1>4, <1>6
<1> QED BY <1>5, <1>6

LEMMA CheckpointReadBoundInv ==
  ASSUME VersionInv, CheckpointReadBound
  PROVE  VersionInv'
<1> USE DEF VersionInv, Owners
<1>1. /\ ckpt.phase = "started"
      /\ ckpt' = [ckpt EXCEPT !.phase = "read", !.lowest = LowestBound({})]
      /\ UNCHANGED <<info, row_count, status, start_time, undo, ending, cleanup, ins, del, clock, strayed, ghosts>>
  BY DEF CheckpointReadBound
<1>2. /\ ckpt'.phase = "read" /\ ckpt'.bound = ckpt.bound /\ ckpt'.lowest = LowestBound({})
  BY <1>1 DEF Types
<1>3. /\ LowestBound({}) \in Nat /\ LowestBound({}) <= ckpt.bound
      /\ \A u \in Txn : Active(u) => LowestBound({}) <= start_time[u]
  BY <1>1, LowestBoundIs
<1>4. Types'
  BY <1>1, <1>3 DEF Types
<1>5. \A u \in Txn : Active(u)' <=> Active(u)
  BY <1>1 DEF Active
<1>6. Ending'
  BY <1>1, <1>5 DEF Ending, Active
<1>7. Bounds'
  BY <1>1, <1>2, <1>3, <1>5 DEF Bounds
<1>8. Quiet
  <2>1. \A u \in Txn : Active(u) => ~FlushedAppend(u)
    BY <1>1 DEF OneAppend
  <2>2. clock <= clock'
    BY <1>1, ClockFacts
  <2> QED BY <1>1, <1>5, <2>1, <2>2 DEF Quiet
<1>9. Advance
  <2>1. clock <= clock'
    BY <1>1, ClockFacts
  <2> QED BY <1>1, <1>2, <1>4, <1>5, <1>7, <2>1, AdvanceIf
<1> QED BY <1>1, <1>4, <1>6, <1>7, <1>8, <1>9, QuietStep, QuietEnding

LEMMA CheckpointDeletesInv ==
  ASSUME VersionInv, CheckpointDeletes
  PROVE  VersionInv'
<1> USE DEF VersionInv, Owners
<1>1. /\ ckpt.phase = "compressed"
      /\ ckpt' = [ckpt EXCEPT !.phase = "written"]
      /\ UNCHANGED <<info, row_count, status, start_time, undo, ending, cleanup, ins, del, strayed, clock>>
  BY DEF CheckpointDeletes
<1>2. /\ ckpt'.phase = "written" /\ ckpt'.bound = ckpt.bound /\ ckpt'.lowest = ckpt.lowest
  BY <1>1 DEF Types
<1>3. ghosts' \subseteq Row
  BY DEF CheckpointDeletes, Types
<1>4. Types'
  BY <1>1, <1>3 DEF Types
<1>5. \A u \in Txn : Active(u)' <=> Active(u)
  BY <1>1 DEF Active
<1>6. Ending'
  BY <1>1, <1>5 DEF Ending, Active
<1>7. Bounds'
  BY <1>1, <1>2, <1>5 DEF Bounds
<1>8. Quiet
  <2>1. \A u \in Txn : Active(u) => ~FlushedAppend(u)
    BY <1>1 DEF OneAppend
  <2>2. clock <= clock'
    BY <1>1, ClockFacts
  <2> QED BY <1>1, <1>5, <2>1, <2>2 DEF Quiet
<1>9. Advance
  <2>1. clock <= clock'
    BY <1>1, ClockFacts
  <2> QED BY <1>1, <1>2, <1>4, <1>5, <1>7, <2>1, AdvanceIf
<1> QED BY <1>1, <1>4, <1>6, <1>7, <1>8, <1>9, QuietStep, QuietEnding

LEMMA CheckpointDoneInv ==
  ASSUME VersionInv, CheckpointDone
  PROVE  VersionInv'
<1> USE DEF VersionInv, Owners
<1>1. /\ ckpt' = NoCheckpoint /\ ckpt'.phase = "none"
      /\ UNCHANGED <<info, row_count, status, start_time, undo, ending, cleanup, ins, del, clock, strayed, ghosts>>
  BY DEF CheckpointDone, NoCheckpoint
<1>4. Types'
  BY <1>1 DEF Types, NoCheckpoint
<1>5. \A u \in Txn : Active(u)' <=> Active(u)
  BY <1>1 DEF Active
<1>6. Ending'
  BY <1>1, <1>5 DEF Ending, Active
<1>7. Bounds'
  BY <1>1, <1>5 DEF Bounds
<1>8. Quiet
  <2>2. clock <= clock'
    BY <1>1, ClockFacts
  <2> QED BY <1>1, <1>5, <2>2 DEF Quiet
<1>9. Advance
  <2>1. clock <= clock'
    BY <1>1, ClockFacts
  <2> QED BY <1>1, <1>4, <1>5, <1>7, <2>1, AdvanceIf
<1> QED BY <1>1, <1>4, <1>6, <1>7, <1>8, <1>9, QuietStep, QuietEnding

\* A transaction gets on with its end, but not with an undo entry.
LEMMA OwnedMoves ==
  ASSUME VersionInv, Types', Quiet,
         \A t \in Txn : \A i \in DOMAIN undo[t] :
           /\ Undone(t, i)' <=> Undone(t, i)
           /\ Written(t, i)' <=> Written(t, i)
           /\ Written(t, i) => clock' = clock,
         ending'.phase \in {"commit", "revert", "abort"} =>
           \/ clock' = clock + 1
           \/ clock' = clock /\ ending.phase \in {"commit", "revert", "abort"}
  PROVE  OwnedRows' /\ CommittedRows'
<1> USE DEF VersionInv, Owners
<1>2. /\ info' = info /\ row_count' = row_count /\ undo' = undo
      /\ cleanup' = cleanup /\ ins' = ins /\ del' = del /\ clock <= clock'
      /\ strayed' = strayed
  BY DEF Quiet
<1>3. \A r \in Row : ins[r] \in Nat /\ del[r] \in Nat
  BY ClockFacts
<1>4. \A t \in Txn : \A i : Active(t)' /\ i \in DOMAIN undo[t] => Active(t)
  BY QuietSame
<1>7. OwnedRows'
  <2> SUFFICES ASSUME NEW t \in Txn, NEW i \in DOMAIN undo[t], Owned(t, i)
               PROVE  Owned(t, i)'
    BY <1>2, <1>4, QuietSame DEF OwnedRows
  <2>1. (Undone(t, i)' <=> Undone(t, i)) /\ (Written(t, i)' <=> Written(t, i))
    OBVIOUS
  <2>2. clock' # clock => ~Written(t, i)
    OBVIOUS
  <2> QED BY <1>2, <2>1, <2>2, QuietSame DEF Owned
<1>8. CommittedRows'
  <2>1. \A t \in Txn : status'[t] = "committed" <=> status[t] = "committed"
    BY DEF Quiet
  <2>2. \A t \in Txn : \A r \in UndoRows(t) : r \in Row
    <3> SUFFICES ASSUME NEW t \in Txn, NEW r \in UndoRows(t) PROVE r \in Row
      OBVIOUS
    <3>1. PICK i \in DOMAIN undo[t] : IsDelete(t, i) /\ r \in Elements(undo[t][i].rows)
      BY UndoRowsAre
    <3> QED BY <3>1, EntryFacts DEF IsDelete
  <2>3. clock \in Nat /\ clock' \in Nat
    BY DEF Types
  <2>4. \A r \in Row : del[r] < clock => del[r] < clock'
    BY <1>2, <1>3, <2>3
  <2>5. \A r \in Row : /\ del[r] < clock
                       /\ ending.phase \in {"commit", "revert", "abort"} => del[r] < clock - 1
                       => (ending'.phase \in {"commit", "revert", "abort"} => del[r] < clock' - 1)
    BY <1>3, <2>3
  <2> QED BY <1>2, <2>1, <2>2, <2>4, <2>5, QuietSame DEF CommittedRows
<1> QED BY <1>7, <1>8

LEMMA AppendMoves ==
  ASSUME VersionInv, Types', Quiet,
         \A t \in Txn : \A i \in DOMAIN undo[t] :
           /\ Reverting(t) => Reverting(t)'
           /\ ~(ending'.txn = t /\ ending'.phase \in {"abort", "rollback"} /\ ending'.pos < i)
           /\ (ending.txn = t /\ ending.phase # "rollback") =>
                ending'.txn = t /\ ending'.phase # "rollback" /\ clock' = clock
           /\ ~(ending'.txn = t /\ ending'.phase = "commit" /\ ending'.pos > i)
  PROVE  Appending'
<1> USE DEF VersionInv, Owners
<1>2. /\ info' = info /\ row_count' = row_count /\ undo' = undo
      /\ cleanup' = cleanup /\ ins' = ins /\ del' = del
  BY DEF Quiet
<1>4. \A t \in Txn : \A i : Active(t)' /\ i \in DOMAIN undo[t] => Active(t)
  BY QuietSame
<1> SUFFICES ASSUME NEW t \in Txn, NEW i \in DOMAIN undo[t], AppendState(t, i)
             PROVE  AppendState(t, i)'
  BY <1>2, <1>4, QuietSame DEF Appending
<1>5. AppendRows(t, i) => AppendRows(t, i)'
  BY <1>2 DEF AppendRows
<1> QED BY <1>2, <1>5 DEF AppendState

LEMMA CommitTransactionInv ==
  ASSUME VersionInv, NEW t \in Txn, CommitTransaction(t)
  PROVE  VersionInv'
<1> USE DEF VersionInv, Owners
<1>1. /\ status[t] = "active" /\ ending = Idle /\ clock < MaxClock
      /\ ending' = [txn |-> t, phase |-> "commit", pos |-> 1, id |-> clock]
      /\ clock' = clock + 1
      /\ UNCHANGED <<info, row_count, status, start_time, undo, cleanup, ckpt, ins, del, strayed, ghosts>>
  BY DEF CommitTransaction
<1>2. /\ clock \in Nat /\ MaxClock \in Nat /\ clock' \in Nat /\ 2 <= clock /\ clock \in Id
  <2>1. clock \in Nat /\ 2 <= clock /\ clock \in Id
    BY ClockFacts
  <2> QED BY <1>1, <2>1, RowVersionAssumption, IdAssumption
<1>3. Types'
  <2>1. /\ ending' \in [txn : Txn \cup {0}, phase : Phases, pos : Nat, id : Id]
        /\ clock' \in 2 .. MaxClock
    BY <1>1, <1>2 DEF Phases
  <2> QED BY <1>1, <2>1 DEF Types
<1>4. \A u \in Txn : Active(u)' <=> Active(u)
  BY <1>1 DEF Active
<1>5. /\ ending.txn = 0 /\ ending.phase = "none" /\ 0 \notin Txn
      /\ ending'.txn = t /\ ending'.phase = "commit" /\ ending'.pos = 1 /\ ending'.id = clock
  BY <1>1, RowVersionAssumption DEF Idle
<1>6. Ending'
  <2>1. Active(t)' /\ Len(undo[t]) \in Nat
    BY <1>1 DEF Active, Types
  <2> QED BY <1>1, <1>2, <1>5, <2>1 DEF Ending
<1>7. Bounds'
  <2>1. \A u \in Txn : start_time[u] \in Nat
    BY DEF Types
  <2>2. ckpt.bound \in Nat
    BY DEF Types
  <2> QED BY <1>1, <1>2, <1>4, <1>5, <2>1, <2>2 DEF Bounds
<1>8. Quiet
  <2>1. clock <= clock'
    BY <1>1, <1>2
  <2>2. ckpt'.phase # "none" => \A u \in Txn : Active(u) => ~FlushedAppend(u)
    BY <1>1 DEF OneAppend
  <2> QED BY <1>1, <1>4, <2>1, <2>2 DEF Quiet
<1>9. Advance
  BY <1>1, <1>2, <1>3, <1>4, <1>7, AdvanceIf
<1>10. \A u \in Txn : \A i \in DOMAIN undo[u] : i \in Nat /\ i >= 1
  BY EntryFacts
<1>11. OwnedRows' /\ CommittedRows'
  <2>1. \A u \in Txn : \A i \in DOMAIN undo[u] :
           /\ Undone(u, i)' <=> Undone(u, i)
           /\ Written(u, i)' <=> Written(u, i)
           /\ Written(u, i) => clock' = clock
    BY <1>5, <1>10 DEF Undone, Written
  <2> QED BY <1>1, <1>3, <1>5, <1>8, <2>1, OwnedMoves
<1>12. Appending'
  <2>1. \A u \in Txn : \A i \in DOMAIN undo[u] :
           /\ Reverting(u) => Reverting(u)'
           /\ ~(ending'.txn = u /\ ending'.phase \in {"abort", "rollback"} /\ ending'.pos < i)
           /\ (ending.txn = u /\ ending.phase # "rollback") =>
                ending'.txn = u /\ ending'.phase # "rollback" /\ clock' = clock
           /\ ~(ending'.txn = u /\ ending'.phase = "commit" /\ ending'.pos > i)
    BY <1>5, <1>10 DEF Reverting
  <2> QED BY <1>3, <1>8, <2>1, AppendMoves
<1> QED BY <1>3, <1>6, <1>7, <1>8, <1>9, <1>11, <1>12, QuietStep

LEMMA RollbackTransactionInv ==
  ASSUME VersionInv, NEW t \in Txn, RollbackTransaction(t)
  PROVE  VersionInv'
<1> USE DEF VersionInv, Owners
<1>1. /\ Active(t) /\ ending = Idle
      /\ ending' = [txn |-> t, phase |-> "rollback", pos |-> Len(undo[t]), id |-> NOT_DELETED_ID]
      /\ UNCHANGED <<info, row_count, clock, status, start_time, undo, cleanup, ckpt, ins, del, strayed, ghosts>>
  BY DEF RollbackTransaction
<1>2. Len(undo[t]) \in Nat
  BY DEF Types
<1>3. Types'
  BY <1>1, <1>2, IdFacts DEF Types, Phases
<1>4. \A u \in Txn : Active(u)' <=> Active(u)
  BY <1>1 DEF Active
<1>5. /\ ending.txn = 0 /\ ending.phase = "none" /\ 0 \notin Txn
      /\ ending'.txn = t /\ ending'.phase = "rollback" /\ ending'.pos = Len(undo[t])
      /\ ending'.id = NOT_DELETED_ID
  BY <1>1, RowVersionAssumption DEF Idle
<1>6. Ending'
  BY <1>1, <1>2, <1>4, <1>5 DEF Ending
<1>7. Bounds'
  BY <1>1, <1>4, <1>5 DEF Bounds
<1>0. clock <= clock'
  BY <1>1, ClockFacts
<1>8. Quiet
  <2>2. ckpt'.phase # "none" => \A u \in Txn : Active(u) => ~FlushedAppend(u)
    BY <1>1 DEF OneAppend
  <2> QED BY <1>0, <1>1, <1>4, <2>2 DEF Quiet
<1>9. Advance
  BY <1>0, <1>1, <1>3, <1>4, <1>7, AdvanceIf
<1>10. \A u \in Txn : \A i \in DOMAIN undo[u] : i <= Len(undo[u]) /\ i \in Nat /\ Len(undo[u]) \in Nat
  BY EntryFacts
<1>11. OwnedRows' /\ CommittedRows'
  <2>1. \A u \in Txn : \A i \in DOMAIN undo[u] :
           /\ Undone(u, i)' <=> Undone(u, i)
           /\ Written(u, i)' <=> Written(u, i)
           /\ Written(u, i) => clock' = clock
    BY <1>5, <1>10 DEF Undone, Written
  <2> QED BY <1>1, <1>3, <1>5, <1>8, <2>1, OwnedMoves
<1>12. Appending'
  <2>1. \A u \in Txn : \A i \in DOMAIN undo[u] :
           /\ Reverting(u) => Reverting(u)'
           /\ ~(ending'.txn = u /\ ending'.phase \in {"abort", "rollback"} /\ ending'.pos < i)
           /\ (ending.txn = u /\ ending.phase # "rollback") =>
                ending'.txn = u /\ ending'.phase # "rollback" /\ clock' = clock
           /\ ~(ending'.txn = u /\ ending'.phase = "commit" /\ ending'.pos > i)
    BY <1>5, <1>10 DEF Reverting
  <2> QED BY <1>3, <1>8, <2>1, AppendMoves
<1> QED BY <1>3, <1>6, <1>7, <1>8, <1>9, <1>11, <1>12, QuietStep

LEMMA CommitFailsInv ==
  ASSUME VersionInv, CommitFails
  PROVE  VersionInv'
<1> USE DEF VersionInv, Owners
<1> DEFINE t == ending.txn
<1>1. /\ ending.phase = "commit"
      /\ ending' = [ending EXCEPT !.phase = "revert", !.pos = @ - 1, !.id = TransactionId(t)]
      /\ UNCHANGED <<info, row_count, clock, status, start_time, undo, cleanup, ckpt, ins, del, strayed, ghosts>>
  BY DEF CommitFails
<1>2. /\ t \in Txn /\ Active(t) /\ ending.pos \in 1 .. (Len(undo[t]) + 1)
      /\ Len(undo[t]) \in Nat /\ TransactionId(t) \in Id
  BY <1>1, IdFacts DEF Ending, Types
<1>5. /\ ending'.txn = t /\ ending'.phase = "revert" /\ ending'.pos = ending.pos - 1
      /\ ending'.id = TransactionId(t)
  BY <1>1 DEF Types
<1>3. Types'
  <2>1. ending' \in [txn : Txn \cup {0}, phase : Phases, pos : Nat, id : Id]
    <3>1. PICK p \in Nat : p = ending.pos - 1
      BY <1>2
    <3>2. ending' = [ending EXCEPT !.phase = "revert", !.pos = p, !.id = TransactionId(t)]
      BY <1>1, <3>1
    <3> HIDE DEF t
    <3> QED BY <1>2, <3>2 DEF Types, Phases
  <2> QED BY <1>1, <2>1 DEF Types
<1>4. \A u \in Txn : Active(u)' <=> Active(u)
  BY <1>1 DEF Active
<1>6. Ending'
  BY <1>1, <1>2, <1>4, <1>5 DEF Ending
<1>7. Bounds'
  BY <1>1, <1>4, <1>5 DEF Bounds
<1>0. clock <= clock'
  BY <1>1, ClockFacts
<1>8. Quiet
  <2>2. ckpt'.phase # "none" => \A u \in Txn : Active(u) => ~FlushedAppend(u)
    BY <1>1 DEF OneAppend
  <2> QED BY <1>0, <1>1, <1>4, <2>2 DEF Quiet
<1>9. Advance
  BY <1>0, <1>1, <1>3, <1>4, <1>7, AdvanceIf
<1>10. \A u \in Txn : \A i \in DOMAIN undo[u] : i \in Nat /\ i >= 1
  BY EntryFacts
<1>11. OwnedRows' /\ CommittedRows'
  <2>1. \A u \in Txn : \A i \in DOMAIN undo[u] :
           /\ Undone(u, i)' <=> Undone(u, i)
           /\ Written(u, i)' <=> Written(u, i)
           /\ Written(u, i) => clock' = clock
    BY <1>1, <1>2, <1>5, <1>10 DEF Undone, Written
  <2> QED BY <1>1, <1>3, <1>5, <1>8, <2>1, OwnedMoves
<1>12. Appending'
  <2>1. \A u \in Txn : \A i \in DOMAIN undo[u] :
           /\ Reverting(u) => Reverting(u)'
           /\ ~(ending'.txn = u /\ ending'.phase \in {"abort", "rollback"} /\ ending'.pos < i)
           /\ (ending.txn = u /\ ending.phase # "rollback") =>
                ending'.txn = u /\ ending'.phase # "rollback" /\ clock' = clock
           /\ ~(ending'.txn = u /\ ending'.phase = "commit" /\ ending'.pos > i)
    BY <1>1, <1>5, <1>10 DEF Reverting
  <2> QED BY <1>3, <1>8, <2>1, AppendMoves
<1> QED BY <1>3, <1>6, <1>7, <1>8, <1>9, <1>11, <1>12, QuietStep

LEMMA RevertDoneInv ==
  ASSUME VersionInv, RevertDone
  PROVE  VersionInv'
<1> USE DEF VersionInv, Owners
<1> DEFINE t == ending.txn
<1>1. /\ ending.phase = "revert" /\ ending.pos = 0
      /\ ending' = [ending EXCEPT !.phase = "abort", !.id = NOT_DELETED_ID, !.pos = Len(undo[t])]
      /\ UNCHANGED <<info, row_count, clock, status, start_time, undo, cleanup, ckpt, ins, del, strayed, ghosts>>
  BY DEF RevertDone
<1>2. /\ t \in Txn /\ Active(t) /\ Len(undo[t]) \in Nat
  BY <1>1 DEF Ending, Types
<1>5. /\ ending'.txn = t /\ ending'.phase = "abort" /\ ending'.pos = Len(undo[t])
      /\ ending'.id = NOT_DELETED_ID
  BY <1>1 DEF Types
<1>3. Types'
  <2>1. ending' \in [txn : Txn \cup {0}, phase : Phases, pos : Nat, id : Id]
    BY <1>1, <1>2, IdFacts DEF Types, Phases
  <2> QED BY <1>1, <2>1 DEF Types
<1>4. \A u \in Txn : Active(u)' <=> Active(u)
  BY <1>1 DEF Active
<1>6. Ending'
  BY <1>1, <1>2, <1>4, <1>5 DEF Ending
<1>7. Bounds'
  BY <1>1, <1>4, <1>5 DEF Bounds
<1>0. clock <= clock'
  BY <1>1, ClockFacts
<1>8. Quiet
  <2>2. ckpt'.phase # "none" => \A u \in Txn : Active(u) => ~FlushedAppend(u)
    BY <1>1 DEF OneAppend
  <2> QED BY <1>0, <1>1, <1>4, <2>2 DEF Quiet
<1>9. Advance
  BY <1>0, <1>1, <1>3, <1>4, <1>7, AdvanceIf
<1>10. \A u \in Txn : \A i \in DOMAIN undo[u] : /\ i \in Nat /\ i >= 1 /\ i <= Len(undo[u])
                                                /\ Len(undo[u]) \in Nat
  BY EntryFacts
<1>11. OwnedRows' /\ CommittedRows'
  <2>1. \A u \in Txn : \A i \in DOMAIN undo[u] :
           /\ Undone(u, i)' <=> Undone(u, i)
           /\ Written(u, i)' <=> Written(u, i)
           /\ Written(u, i) => clock' = clock
    BY <1>1, <1>2, <1>5, <1>10 DEF Undone, Written
  <2> QED BY <1>1, <1>3, <1>5, <1>8, <2>1, OwnedMoves
<1>12. Appending'
  <2>1. \A u \in Txn : \A i \in DOMAIN undo[u] :
           /\ Reverting(u) => Reverting(u)'
           /\ ~(ending'.txn = u /\ ending'.phase \in {"abort", "rollback"} /\ ending'.pos < i)
           /\ (ending.txn = u /\ ending.phase # "rollback") =>
                ending'.txn = u /\ ending'.phase # "rollback" /\ clock' = clock
           /\ ~(ending'.txn = u /\ ending'.phase = "commit" /\ ending'.pos > i)
    BY <1>1, <1>5, <1>10 DEF Reverting
  <2> QED BY <1>3, <1>8, <2>1, AppendMoves
<1> QED BY <1>3, <1>6, <1>7, <1>8, <1>9, <1>11, <1>12, QuietStep

-----------------------------------------------------------------------------
(* Compression and clean-up *)

\* Undo buffers and row count stay, and nobody starts or ends.
LEMMA FramesSame ==
  ASSUME undo' = undo, status' = status, row_count' = row_count
  PROVE  /\ \A t \in Txn : FlushedAppend(t)' <=> FlushedAppend(t)
         /\ \A t \in Txn : Active(t)' <=> Active(t)
         /\ \A t \in Txn : \A i : IsAppend(t, i)' <=> IsAppend(t, i)
         /\ \A t \in Txn : \A i : IsDelete(t, i)' <=> IsDelete(t, i)
         /\ \A t \in Txn : UndoRows(t)' = UndoRows(t)
         /\ \A r : Fresh(r)' <=> Fresh(r)
  BY DEF FlushedAppend, Active, IsAppend, IsDelete, UndoRows, Fresh

LEMMA FloorsSame ==
  ASSUME clock' = clock, status' = status, start_time' = start_time,
         (ckpt'.phase = "none") <=> (ckpt.phase = "none"), ckpt'.bound = ckpt.bound
  PROVE  Floors' = Floors
  BY DEF Floors, Active

\* Nothing but the version information changes, and no append is under way.
LEMMA OtherPartsSame ==
  ASSUME VersionInv,
         UNCHANGED <<row_count, clock, status, start_time, undo, ending, ins, del, strayed, ghosts>>,
         ckpt'.phase # "none" => ckpt.phase # "none",
         \A t \in Txn : Active(t) => ~FlushedAppend(t)
  PROVE  OneAppend' /\ Appending' /\ OwnedRows' /\ EntriesApart' /\ CommittedRows' /\ FreshAlive'
<1> USE DEF VersionInv, Owners
<1>1. /\ undo' = undo /\ status' = status /\ row_count' = row_count /\ del' = del
      /\ ending' = ending /\ clock' = clock
  OBVIOUS
<1>2. OneAppend'
  BY <1>1, FramesSame DEF OneAppend
<1>3. Appending'
  BY <1>1, FramesSame DEF Appending, IsAppend, FlushedAppend
<1>4. OwnedRows'
  <2> SUFFICES ASSUME NEW t \in Txn, NEW i \in DOMAIN undo[t], Owned(t, i)
               PROVE  Owned(t, i)'
    BY <1>1, FramesSame DEF OwnedRows
  <2>1. (Undone(t, i)' <=> Undone(t, i)) /\ (Written(t, i)' <=> Written(t, i))
    BY <1>1 DEF Undone, Written
  <2> QED BY <1>1, <2>1, FramesSame DEF Owned
<1>5. EntriesApart' /\ FreshAlive'
  BY <1>1, FramesSame DEF EntriesApart, FreshAlive
<1>6. CommittedRows'
  BY <1>1, FramesSame DEF CommittedRows
<1> QED BY <1>2, <1>3, <1>4, <1>5, <1>6

LEMMA CheckpointCompressInv ==
  ASSUME VersionInv, CheckpointCompress
  PROVE  VersionInv'
<1> USE DEF VersionInv, Owners
<1> DEFINE done == CompressVersionIds(info, ckpt.lowest)
<1>1. /\ ckpt.phase = "read" /\ ckpt' = [ckpt EXCEPT !.phase = "compressed"]
      /\ info' = done \/ info' = info
      /\ UNCHANGED <<row_count, clock, status, start_time, undo, ending, cleanup, ins, del, strayed, ghosts>>
  BY DEF CheckpointCompress
<1>2. /\ ckpt'.phase = "compressed" /\ ckpt'.bound = ckpt.bound /\ ckpt'.lowest = ckpt.lowest
      /\ ckpt.lowest \in Nat /\ ckpt.bound \in Nat /\ info \in InfoType
  BY <1>1 DEF Types
<1>3. /\ info' \in InfoType
      /\ info.constant_insert => info'.constant_insert
      /\ \A r \in Row : EqualOrBelow(DeleteId(info', r), DeleteId(info, r), ckpt.lowest)
      /\ \A r \in Row : EqualOrBelow(InsertId(info', r), InsertId(info, r), ckpt.lowest)
  <2>1. CASE info' = done
    <3>1. /\ done \in InfoType
          /\ info.constant_insert => done.constant_insert
          /\ \A r \in Row : EqualOrBelow(DeleteId(done, r), DeleteId(info, r), ckpt.lowest)
          /\ \A r \in Row : EqualOrBelow(InsertId(done, r), InsertId(info, r), ckpt.lowest)
      BY <1>2, CompressIds
    <3> HIDE DEF done
    <3> QED BY <2>1, <3>1
  <2>2. CASE info' = info
    BY <1>2, <2>2 DEF EqualOrBelow
  <2> QED BY <1>1, <2>1, <2>2
<1>4. Types'
  BY <1>1, <1>3 DEF Types
<1>5. \A u \in Txn : Active(u)' <=> Active(u)
  BY <1>1 DEF Active
<1>6. Ending'
  BY <1>1, <1>5 DEF Ending, Active
<1>7. Bounds'
  BY <1>1, <1>2, <1>5 DEF Bounds
<1>8. Floors' = Floors
  BY <1>1, <1>2, FloorsSame
<1>9. \A x \in Nat : x < ckpt.lowest => SettledIn(x, Floors)
  <2> SUFFICES ASSUME NEW x \in Nat, x < ckpt.lowest, NEW b \in Floors PROVE x < b
    BY DEF SettledIn
  <2>1. clock \in Nat /\ \A t \in Txn : start_time[t] \in Nat
    BY DEF Types
  <2>2. /\ ckpt.bound \in 2 .. (clock - 1) /\ ckpt.lowest <= ckpt.bound
        /\ \A t \in Txn : Active(t) => ckpt.lowest <= start_time[t]
    BY <1>1 DEF Bounds
  <2>3. CASE b = clock
    BY <1>2, <2>1, <2>2, <2>3
  <2>4. CASE \E t \in Txn : Active(t) /\ b = start_time[t]
    BY <1>2, <2>1, <2>2, <2>4
  <2>5. CASE b = ckpt.bound
    BY <1>2, <2>2, <2>5
  <2> QED BY <2>3, <2>4, <2>5 DEF Floors
<1>10. \A r \in Row : /\ InsertId(info, r) \in Nat /\ DeleteId(info, r) \in Nat
                      /\ InsertId(info', r) \in Nat /\ DeleteId(info', r) \in Nat
  BY <1>2, <1>3, IdsTyped, IdFacts
<1>11. InsertsSame'
  <2> SUFFICES ASSUME NEW r \in Row, r < row_count
               PROVE  SameIn(InsertId(info', r), ins[r], Floors)
    BY <1>1, <1>8 DEF InsertsSame
  <2>1. SameIn(InsertId(info, r), ins[r], Floors)
    BY DEF InsertsSame
  <2> QED BY <1>3, <1>9, <1>10, <2>1 DEF EqualOrBelow, SameIn
<1>12. DeletesSame'
  <2> SUFFICES ASSUME NEW r \in Row
               PROVE  SameIn(DeleteId(info', r), del[r], Floors)
    BY <1>1, <1>8 DEF DeletesSame
  <2>1. SameIn(DeleteId(info, r), del[r], Floors)
    BY DEF DeletesSame
  <2> QED BY <1>3, <1>9, <1>10, <2>1 DEF EqualOrBelow, SameIn
<1>13. Inserted'
  BY <1>1, <1>3, FramesSame DEF Inserted
<1>14. Cleaning'
  BY <1>1, <1>8, FramesSame DEF Cleaning
<1>15. \A t \in Txn : Active(t) => ~FlushedAppend(t)
  BY <1>1 DEF OneAppend
<1>16. OneAppend' /\ Appending' /\ OwnedRows' /\ EntriesApart' /\ CommittedRows' /\ FreshAlive'
  BY <1>1, <1>15, OtherPartsSame
<1> QED BY <1>4, <1>6, <1>7, <1>11, <1>12, <1>13, <1>14, <1>16

\* CleanupAppend drops the information of a vector whose rows everyone sees.
LEMMA CleanupAppendInv ==
  ASSUME VersionInv, NEW t \in Txn, CleanupAppend(t)
  PROVE  VersionInv'
<1> USE DEF VersionInv, Owners
<1>1. /\ cleanup[t] # 0 /\ cleanup' = [cleanup EXCEPT ![t] = 0]
      /\ UNCHANGED <<row_count, clock, status, start_time, undo, ending, ckpt, ins, del, strayed, ghosts>>
  BY DEF CleanupAppend
<1>2. cleanup' \in [Txn -> Nat] /\ \A u \in Txn : cleanup'[u] # 0 => cleanup'[u] = cleanup[u]
  BY <1>1 DEF Types
<1>3. \A u \in Txn : Active(u)' <=> Active(u)
  BY <1>1 DEF Active
<1>4. Ending' /\ Bounds'
  BY <1>1, <1>3 DEF Ending, Bounds, Active
<1>5. Floors' = Floors
  BY <1>1, FloorsSame
<1>6. Cleaning'
  <2>1. \A u \in Txn : (\E i \in DOMAIN undo'[u] : IsAppend(u, i)' /\ undo'[u][i].end = VectorSize)
          <=> (\E i \in DOMAIN undo[u] : IsAppend(u, i) /\ undo[u][i].end = VectorSize)
    BY <1>1, FramesSame
  <2> QED BY <1>1, <1>2, <1>5, <2>1, FramesSame DEF Cleaning
<1>7. CASE info' = info
  <2>1. Types' /\ InsertsSame' /\ DeletesSame' /\ Inserted'
    BY <1>1, <1>2, <1>5, <1>7, FramesSame DEF Types, InsertsSame, DeletesSame, Inserted
  <2>2. Appending'
    <3> SUFFICES ASSUME NEW u \in Txn, NEW i \in DOMAIN undo[u], AppendState(u, i)
                 PROVE  AppendState(u, i)'
      BY <1>1, FramesSame DEF Appending
    <3> QED BY <1>1, <1>7 DEF AppendState, AppendRows, Reverting
  <2>3. OneAppend'
    BY <1>1, FramesSame DEF OneAppend
  <2>4. OwnedRows'
    <3> SUFFICES ASSUME NEW u \in Txn, NEW i \in DOMAIN undo[u], Owned(u, i)
                 PROVE  Owned(u, i)'
      BY <1>1, FramesSame DEF OwnedRows
    <3>1. (Undone(u, i)' <=> Undone(u, i)) /\ (Written(u, i)' <=> Written(u, i))
      BY <1>1 DEF Undone, Written
    <3> QED BY <1>1, <3>1, FramesSame DEF Owned
  <2>5. EntriesApart' /\ FreshAlive' /\ CommittedRows'
    BY <1>1, FramesSame DEF EntriesApart, FreshAlive, CommittedRows
  <2> QED BY <1>4, <1>6, <2>1, <2>2, <2>3, <2>4, <2>5
<1>8. CASE info' # info
  <2>1. /\ info' = NoInfo /\ Cleanup(info, cleanup[t])
        /\ \E i \in DOMAIN undo[t] : IsAppend(t, i) /\ undo[t][i].end = VectorSize
    BY <1>8 DEF CleanupAppend, IsAppend
  <2>2. /\ row_count = VectorSize
        /\ \A u \in Txn : Active(u) => ~FlushedAppend(u)
        /\ \A r \in Row : ins[r] < cleanup[t] => SettledIn(ins[r], Floors)
    BY <1>1, <2>1 DEF Cleaning
  <2>3. Types'
    BY <1>1, <1>2, <2>1, NoInfoIds DEF Types
  <2>4. OneAppend' /\ Appending' /\ OwnedRows' /\ EntriesApart' /\ CommittedRows' /\ FreshAlive'
    BY <1>1, <2>2, OtherPartsSame
  <2>5. Inserted'
    BY <1>1, <2>1, NoInfoIds, FramesSame DEF Inserted
  <2>6. \A r \in Row : DeleteId(info, r) = NOT_DELETED_ID
    BY <2>1 DEF Cleanup, AnyDeleted, DeleteId
  <2>7. DeletesSame'
    BY <1>1, <1>5, <2>1, <2>6, NoInfoIds DEF DeletesSame
  <2>8. /\ Floors \in SUBSET Nat /\ \A b \in Floors : 2 <= b
    BY FloorsFacts
  <2>9. SettledIn(0, Floors)
    <3> HIDE DEF Floors
    <3> QED BY <2>8 DEF SettledIn
  <2>10. \A r \in Row : r \in Nat /\ r < row_count /\ ins[r] \in Nat /\ InsertId(info, r) \in Nat
    <3>1. \A r \in Row : r \in Nat /\ r < row_count
      BY <2>2, IdAssumption DEF Row
    <3>2. \A r \in Row : ins[r] \in Nat /\ InsertId(info, r) \in Nat
      BY ClockFacts, IdsTyped, IdFacts DEF Types
    <3> QED BY <3>1, <3>2
  <2>11. \A r \in Row : InsertId(info, r) < cleanup[t] => SettledIn(ins[r], Floors)
    <3> SUFFICES ASSUME NEW r \in Row, InsertId(info, r) < cleanup[t]
                 PROVE  SettledIn(ins[r], Floors)
      OBVIOUS
    <3>1. SameIn(InsertId(info, r), ins[r], Floors)
      BY <2>10 DEF InsertsSame
    <3>2. InsertId(info, r) = ins[r] \/ SettledIn(ins[r], Floors)
      BY <3>1 DEF SameIn
    <3> QED BY <2>2, <3>2
  <2>12. \A r \in Row : SettledIn(ins[r], Floors)
    <3>1. CASE info.constant_insert
      <4>1. \A r \in Row : InsertId(info, r) < cleanup[t]
        BY <2>1, <3>1 DEF Cleanup, InsertId
      <4> QED BY <2>11, <4>1
    <3>2. CASE ~info.constant_insert
      <4>1. \A r \in Row \ {0} : InsertId(info, r) < cleanup[t]
        BY <2>1, <3>2 DEF Cleanup, InsertId
      <4>2. VectorSize > 1 /\ 1 \in Row /\ 0 \in Row
        BY <3>2, IdAssumption DEF Inserted, Row
      <4>3. SettledIn(ins[1], Floors) /\ ins[0] <= ins[1]
        BY <2>10, <2>11, <4>1, <4>2 DEF Inserted
      <4>4. SettledIn(ins[0], Floors)
        <5> HIDE DEF Floors
        <5> QED BY <2>8, <2>10, <4>2, <4>3 DEF SettledIn
      <4> QED BY <2>11, <4>1, <4>4
    <3> QED BY <3>1, <3>2
  <2>13. InsertsSame'
    BY <1>1, <1>5, <2>1, <2>9, <2>12, NoInfoIds DEF InsertsSame, SameIn
  <2> QED BY <1>4, <1>6, <2>3, <2>4, <2>5, <2>7, <2>13
<1> QED BY <1>7, <1>8

-----------------------------------------------------------------------------
(* Deletes and appends *)

LEMMA UndoGrows ==
  ASSUME Types, NEW t \in Txn, NEW e \in DeleteEntry \cup InsertEntry,
         Len(undo[t]) < MaxUndo,
         undo' = [undo EXCEPT ![t] = Append(@, e)]
  PROVE  /\ undo' \in [Txn -> Seq(DeleteEntry \cup InsertEntry)]
         /\ \A u \in Txn : Len(undo'[u]) <= MaxUndo
         /\ \A u \in Txn : u # t => undo'[u] = undo[u]
         /\ Len(undo[t]) \in Nat /\ Len(undo'[t]) = Len(undo[t]) + 1
         /\ DOMAIN undo[t] = 1 .. Len(undo[t]) /\ DOMAIN undo'[t] = 1 .. (Len(undo[t]) + 1)
         /\ \A i \in DOMAIN undo[t] : undo'[t][i] = undo[t][i]
         /\ undo'[t][Len(undo[t]) + 1] = e
<1>1. undo'[t] = Append(undo[t], e) /\ \A u \in Txn : u # t => undo'[u] = undo[u]
  BY DEF Types
<1>2. undo[t] \in Seq(DeleteEntry \cup InsertEntry)
  BY DEF Types
<1>3. /\ undo'[t] \in Seq(DeleteEntry \cup InsertEntry)
      /\ Len(undo[t]) \in Nat /\ Len(undo'[t]) = Len(undo[t]) + 1
      /\ DOMAIN undo[t] = 1 .. Len(undo[t]) /\ DOMAIN undo'[t] = 1 .. (Len(undo[t]) + 1)
      /\ \A i \in DOMAIN undo[t] : undo'[t][i] = undo[t][i]
      /\ undo'[t][Len(undo[t]) + 1] = e
  <2> HIDE DEF DeleteEntry, InsertEntry
  <2> QED BY <1>1, <1>2
<1>4. undo' \in [Txn -> Seq(DeleteEntry \cup InsertEntry)]
  <2>1. undo \in [Txn -> Seq(DeleteEntry \cup InsertEntry)]
    BY DEF Types
  <2>2. Append(undo[t], e) \in Seq(DeleteEntry \cup InsertEntry)
    BY <1>1, <1>3
  <2> QED BY <2>1, <2>2
<1>5. \A u \in Txn : Len(undo'[u]) <= MaxUndo
  <2>1. \A u \in Txn : u # t => Len(undo'[u]) <= MaxUndo
    BY <1>1 DEF Types
  <2>2. Len(undo'[t]) <= MaxUndo
    BY <1>3, RowVersionAssumption
  <2> QED BY <2>1, <2>2
<1> QED BY <1>1, <1>3, <1>4, <1>5

\* A transaction does not see the rows that another one is appending.
LEMMA SeenIsNotFresh ==
  ASSUME VersionInv, NEW t \in Txn, Active(t), ~FlushedAppend(t),
         NEW r \in Row, r < row_count, Sees(View(t), InsertId(info, r))
  PROVE  ~Fresh(r)
<1> USE DEF VersionInv, Owners
<1> SUFFICES ASSUME Fresh(r) PROVE FALSE
  OBVIOUS
<1>0. row_count \in Nat /\ r \in Nat
  BY IdAssumption DEF Types, Row
<1>1. PICK u \in Txn : Active(u) /\ \E i \in DOMAIN undo[u] : IsAppend(u, i) /\ r >= undo[u][i].start
  BY <1>0 DEF Fresh
<1>2. PICK i \in DOMAIN undo[u] : IsAppend(u, i) /\ r >= undo[u][i].start
  BY <1>1
<1>3. AppendState(u, i) /\ u # t
  BY <1>1, <1>2 DEF Appending, FlushedAppend, IsAppend
<1>4. undo[u][i].start \in Nat /\ undo[u][i].end \in Nat
  BY <1>2, EntryFacts, IdAssumption DEF IsAppend
<1>5. row_count = undo[u][i].end /\ AppendRows(u, i)
  BY <1>0, <1>2, <1>3, <1>4 DEF AppendState
<1>6. InsertId(info, r) = TransactionId(u) \/ InsertId(info, r) = clock - 1
  <2>1. r \in undo[u][i].start .. (undo[u][i].end - 1)
    BY <1>0, <1>2, <1>4, <1>5
  <2> QED BY <1>5, <2>1 DEF AppendRows
<1>7. InsertId(info, r) < start_time[t] \/ InsertId(info, r) = TransactionId(t)
  BY DEF Sees, View
<1>8. start_time[t] \in Nat /\ start_time[t] <= clock - 1
  BY DEF Types, Bounds
<1>9. /\ clock \in Nat /\ TransactionId(u) > clock /\ TransactionId(t) > clock
      /\ TransactionId(u) # TransactionId(t)
      /\ TransactionId(u) \in Nat /\ TransactionId(t) \in Nat
  BY <1>3, ClockFacts, IdFacts
<1> QED BY <1>6, <1>7, <1>8, <1>9

LEMMA DeleteRowsFacts ==
  ASSUME VersionInv, NEW t \in Txn, NEW rows \in DeleteLists, DeleteRows(t, rows)
  PROVE  \E dead \in Seq(Row), back \in SUBSET Row :
           /\ info' \in InfoType /\ info'.constant_insert = info.constant_insert
           /\ \A r \in Row : InsertId(info', r) = InsertId(info, r)
           /\ \A r \in Row : DeleteId(info', r) = IF r \in Elements(dead) THEN TransactionId(t)
                                                  ELSE IF r \in back THEN NOT_DELETED_ID
                                                  ELSE DeleteId(info, r)
           /\ \A r \in Elements(dead) : ~Fresh(r) /\ del[r] = NOT_DELETED_ID
           /\ \A r \in back : del[r] = TransactionId(t)
           /\ \A r \in Row : del'[r] = IF r \in Elements(dead) THEN TransactionId(t)
                                       ELSE IF r \in back THEN NOT_DELETED_ID ELSE del[r]
           /\ del' \in [Row -> Id] /\ strayed' = strayed \cup back
           /\ \/ undo' = undo /\ Elements(dead) = {}
              \/ undo' = [undo EXCEPT ![t] = Append(@, [type |-> "DELETE_TUPLE", rows |-> dead])]
<1> USE DEF VersionInv, Owners
<1> DEFINE tid == TransactionId(t)
           out == Delete(Present(info), tid, rows)
           back == GivenBack(t, out.info)
<1>1. /\ status[t] = "active" /\ ~FlushedAppend(t) /\ MayDelete(t, rows)
      /\ info' = out.info
      /\ undo' = IF out.rows = << >> THEN undo
                 ELSE [undo EXCEPT ![t] = Append(@, [type |-> "DELETE_TUPLE", rows |-> out.rows])]
      /\ del' = [r \in Row |-> IF r \in Elements(out.rows) THEN tid
                               ELSE IF r \in back THEN NOT_DELETED_ID ELSE del[r]]
      /\ strayed' = strayed \cup back
  BY DEF DeleteRows
<1>2. rows \in Seq(Row) /\ tid \in Id /\ info \in InfoType
  BY RowVersionAssumption, IdFacts DEF Types
<1>3. \A k \in DOMAIN rows :
        /\ rows[k] \in Row /\ rows[k] < row_count
        /\ \/ Sees(View(t), InsertId(info, rows[k]))
           \/ DeleteId(info, rows[k]) = tid
  BY <1>1, <1>2 DEF MayDelete, Fetch
<1>4. /\ Present(info) \in InfoType /\ Present(info).constant_insert = info.constant_insert
      /\ \A r \in Row : DeleteId(Present(info), r) = DeleteId(info, r)
      /\ \A r \in Row : InsertId(Present(info), r) = InsertId(info, r)
  BY <1>2, PresentSame
<1>5. tid # NOT_DELETED_ID /\ tid \in Nat /\ ~SettledIn(tid, Floors)
  <2>1. tid # NOT_DELETED_ID /\ tid \in Nat /\ tid > clock /\ clock \in Nat
    BY ClockFacts, IdFacts
  <2> HIDE DEF tid
  <2>2. tid >= clock
    BY <2>1
  <2> QED BY <2>1, <2>2, FloorsFacts
<1>6. DeleteIs(Present(info), tid, rows, out)
  BY <1>2, <1>4, DeleteIsExact
<1> HIDE DEF out
<1>7. \A r \in Elements(out.rows) : r \in Row /\ DeleteId(info, r) = NOT_DELETED_ID /\ ~Fresh(r)
  <2> SUFFICES ASSUME NEW r \in Elements(out.rows)
               PROVE  r \in Row /\ DeleteId(info, r) = NOT_DELETED_ID /\ ~Fresh(r)
    OBVIOUS
  <2>1. r \in Elements(rows) /\ DeleteId(Present(info), r) = NOT_DELETED_ID
    BY <1>6 DEF DeleteIs
  <2>2. PICK k \in DOMAIN rows : r = rows[k]
    BY <2>1 DEF Elements
  <2>3. Active(t)
    BY <1>1 DEF Active
  <2> QED BY <1>1, <1>3, <1>4, <1>5, <2>1, <2>2, <2>3, SeenIsNotFresh
<1>8. \A r \in Elements(out.rows) : del[r] = NOT_DELETED_ID
  <2> SUFFICES ASSUME NEW r \in Elements(out.rows) PROVE del[r] = NOT_DELETED_ID
    OBVIOUS
  <2>1. SameIn(NOT_DELETED_ID, del[r], Floors)
    BY <1>7 DEF DeletesSame
  <2>2. ~SettledIn(NOT_DELETED_ID, Floors)
    BY FloorsFacts, ClockFacts, IdFacts
  <2> QED BY <2>1, <2>2 DEF SameIn
<1>9. /\ info' \in InfoType /\ info'.constant_insert = info.constant_insert
      /\ \A r \in Row : InsertId(info', r) = InsertId(info, r)
      /\ out.rows \in Seq(Row)
  BY <1>1, <1>4, <1>6 DEF DeleteIs
<1>11. /\ back \in SUBSET Row
       /\ \A r \in back : DeleteId(info, r) = tid
       /\ \A r \in Row : DeleteId(info', r) = IF r \in Elements(out.rows) THEN tid
                                              ELSE IF r \in back THEN NOT_DELETED_ID
                                              ELSE DeleteId(info, r)
  <2>1. \A r \in Row : \/ DeleteId(info', r) = IF r \in Elements(out.rows) THEN tid
                                                ELSE DeleteId(info, r)
                       \/ DeleteId(info, r) = tid /\ DeleteId(info', r) = NOT_DELETED_ID
    BY <1>1, <1>4, <1>6 DEF DeleteIs
  <2> QED BY <1>1, <1>5, <1>7, <2>1 DEF GivenBack
<1> HIDE DEF back
<1>12. \A r \in back : del[r] = tid
  <2> SUFFICES ASSUME NEW r \in back PROVE del[r] = tid
    OBVIOUS
  <2>1. SameIn(tid, del[r], Floors)
    BY <1>11 DEF DeletesSame
  <2> QED BY <1>5, <2>1 DEF SameIn
<1>13. /\ \A r \in Row : del'[r] = IF r \in Elements(out.rows) THEN tid
                                   ELSE IF r \in back THEN NOT_DELETED_ID ELSE del[r]
       /\ del' \in [Row -> Id]
  BY <1>1, <1>2, IdFacts DEF Types
<1>10. \/ undo' = undo /\ Elements(out.rows) = {}
       \/ undo' = [undo EXCEPT ![t] = Append(@, [type |-> "DELETE_TUPLE", rows |-> out.rows])]
  <2>1. Elements(<< >>) = {}
    BY DEF Elements
  <2> QED BY <1>1, <2>1
<1> QED BY <1>1, <1>7, <1>8, <1>9, <1>10, <1>11, <1>12, <1>13

LEMMA DeleteRowsInv ==
  ASSUME VersionInv, NEW t \in Txn, NEW rows \in DeleteLists, DeleteRows(t, rows)
  PROVE  VersionInv'
<1> USE DEF VersionInv, Owners
<1> DEFINE tid == TransactionId(t)
           n == Len(undo[t]) + 1
<1>1. /\ status[t] = "active" /\ ending.txn # t /\ ~FlushedAppend(t) /\ Len(undo[t]) < MaxUndo
      /\ status' = [status EXCEPT ![t] = "failed"] \/ status' = status
      /\ UNCHANGED <<row_count, clock, start_time, ending, cleanup, ckpt, ins, ghosts>>
  BY DEF DeleteRows
<1>2. PICK dead \in Seq(Row), back \in SUBSET Row :
        /\ info' \in InfoType /\ info'.constant_insert = info.constant_insert
        /\ \A r \in Row : InsertId(info', r) = InsertId(info, r)
        /\ \A r \in Row : DeleteId(info', r) = IF r \in Elements(dead) THEN tid
                                               ELSE IF r \in back THEN NOT_DELETED_ID
                                               ELSE DeleteId(info, r)
        /\ \A r \in Elements(dead) : ~Fresh(r) /\ del[r] = NOT_DELETED_ID
        /\ \A r \in back : del[r] = tid
        /\ \A r \in Row : del'[r] = IF r \in Elements(dead) THEN tid
                                    ELSE IF r \in back THEN NOT_DELETED_ID ELSE del[r]
        /\ del' \in [Row -> Id] /\ strayed' = strayed \cup back
        /\ \/ undo' = undo /\ Elements(dead) = {}
           \/ undo' = [undo EXCEPT ![t] = Append(@, [type |-> "DELETE_TUPLE", rows |-> dead])]
  BY DeleteRowsFacts
<1>3. /\ \A u \in Txn : Active(u)' <=> Active(u)
      /\ \A u \in Txn : status'[u] = "committed" <=> status[u] = "committed"
      /\ \A u \in Txn : status'[u] \in {"new", "aborted"} => status[u] \in {"new", "aborted"} /\ u # t
      /\ status' \in [Txn -> Statuses] /\ Active(t)
  BY <1>1 DEF Active, Types, Statuses
\* The entry of the undo buffer, if there is one.
<1>4. /\ undo' \in [Txn -> Seq(DeleteEntry \cup InsertEntry)]
      /\ \A u \in Txn : Len(undo'[u]) <= MaxUndo
      /\ \A u \in Txn : u # t => undo'[u] = undo[u]
      /\ \A i \in DOMAIN undo[t] : i \in DOMAIN undo'[t] /\ undo'[t][i] = undo[t][i]
      /\ \A i \in DOMAIN undo'[t] :
           \/ i \in DOMAIN undo[t]
           \/ undo'[t][i].type = "DELETE_TUPLE" /\ undo'[t][i].rows = dead /\ i = n
      /\ Len(undo'[t]) \in {n - 1, n}
  <2>1. CASE undo' = undo
    BY SMTT(40), <2>1 DEF Types
  <2>2. CASE undo' = [undo EXCEPT ![t] = Append(@, [type |-> "DELETE_TUPLE", rows |-> dead])]
    <3> DEFINE e == [type |-> "DELETE_TUPLE", rows |-> dead]
    <3>1. e \in DeleteEntry \cup InsertEntry /\ e.type = "DELETE_TUPLE" /\ e.rows = dead
      BY DEF DeleteEntry
    <3> HIDE DEF e
    <3>2. /\ undo' \in [Txn -> Seq(DeleteEntry \cup InsertEntry)]
          /\ \A u \in Txn : Len(undo'[u]) <= MaxUndo
          /\ \A u \in Txn : u # t => undo'[u] = undo[u]
          /\ Len(undo[t]) \in Nat /\ Len(undo'[t]) = Len(undo[t]) + 1
          /\ DOMAIN undo[t] = 1 .. Len(undo[t]) /\ DOMAIN undo'[t] = 1 .. (Len(undo[t]) + 1)
          /\ \A i \in DOMAIN undo[t] : undo'[t][i] = undo[t][i]
          /\ undo'[t][Len(undo[t]) + 1] = e
      BY <1>1, <2>2, <3>1, UndoGrows DEF e
    <3>3. \A i \in DOMAIN undo'[t] : i \in DOMAIN undo[t] \/ i = n
      BY <3>2
    <3>4. \A i \in DOMAIN undo[t] : i \in DOMAIN undo'[t]
      BY <3>2
    <3> QED BY <3>1, <3>2, <3>3, <3>4
  <2> QED BY <1>2, <2>1, <2>2
<1>5. /\ \A u \in Txn : \A i \in DOMAIN undo[u] : i \in DOMAIN undo'[u] /\ undo'[u][i] = undo[u][i]
      /\ \A u \in Txn : \A i \in DOMAIN undo'[u] :
           \/ i \in DOMAIN undo[u]
           \/ u = t /\ i = n /\ undo'[t][i].type = "DELETE_TUPLE" /\ undo'[t][i].rows = dead
  BY <1>4
<1>6. /\ \A u \in Txn : \A i : IsAppend(u, i)' <=> IsAppend(u, i)
      /\ \A u \in Txn : FlushedAppend(u)' <=> FlushedAppend(u)
      /\ \A u \in Txn : \A i \in DOMAIN undo[u] : IsDelete(u, i)' <=> IsDelete(u, i)
  <2>1. \A u \in Txn : \A i : IsAppend(u, i)' <=> IsAppend(u, i)
    BY <1>5 DEF IsAppend
  <2>2. \A u \in Txn : FlushedAppend(u)' <=> FlushedAppend(u)
    BY <1>5 DEF FlushedAppend
  <2>3. \A u \in Txn : \A i \in DOMAIN undo[u] : IsDelete(u, i)' <=> IsDelete(u, i)
    BY <1>5 DEF IsDelete
  <2> QED BY <2>1, <2>2, <2>3
<1>7. \A r : Fresh(r)' <=> Fresh(r)
  <2>1. \A u \in Txn : \A i : IsAppend(u, i) => /\ i \in DOMAIN undo[u] /\ i \in DOMAIN undo'[u]
                                                /\ undo'[u][i].start = undo[u][i].start
    BY <1>5 DEF IsAppend
  <2> QED BY <1>1, <1>3, <1>6, <2>1 DEF Fresh
<1>8. Floors' = Floors
  <2>1. {u \in Txn : Active(u)'} = {u \in Txn : Active(u)}
    BY <1>3
  <2> QED BY <1>1, <2>1 DEF Floors
<1>9. \A r \in Row : r \notin Elements(dead) /\ r \notin back => del'[r] = del[r]
  BY <1>2
<1>10. Types'
  <2>1. strayed' \subseteq Row
    BY <1>2 DEF Types
  <2> QED BY <1>1, <1>2, <1>3, <1>4, <2>1 DEF Types
<1>11. Ending'
  <2>1. ending.txn \in Txn => undo'[ending.txn] = undo[ending.txn]
    BY <1>1, <1>4
  <2> QED BY <1>1, <1>3, <2>1 DEF Ending
<1>12. Bounds'
  BY <1>1, <1>3 DEF Bounds
<1>13. InsertsSame' /\ DeletesSame'
  <2>1. InsertsSame'
    BY <1>1, <1>2, <1>8 DEF InsertsSame
  <2>2. DeletesSame'
    BY <1>2, <1>8 DEF DeletesSame, SameIn
  <2> QED BY <2>1, <2>2
<1>14. OneAppend'
  <2>1. \A u \in Txn : \A i \in DOMAIN undo'[u] : IsAppend(u, i)' => i = Len(undo'[u])
    <3> SUFFICES ASSUME NEW u \in Txn, NEW i \in DOMAIN undo'[u], IsAppend(u, i)
                 PROVE  i = Len(undo'[u])
      BY <1>6
    <3>1. u # t
      BY <1>1 DEF FlushedAppend, IsAppend
    <3> QED BY <1>4, <3>1 DEF OneAppend, IsAppend
  <2>2. \A u \in Txn : status'[u] \in {"new", "aborted"} => undo'[u] = << >>
    BY <1>3, <1>4 DEF OneAppend
  <2> QED BY <1>1, <1>3, <1>6, <2>1, <2>2 DEF OneAppend
<1>15. Appending'
  <2> SUFFICES ASSUME NEW u \in Txn, NEW i \in DOMAIN undo[u], AppendState(u, i)
               PROVE  AppendState(u, i)'
    BY <1>3, <1>5, <1>6 DEF Appending, IsAppend
  <2>1. undo'[u][i] = undo[u][i]
    BY <1>5
  <2>2. AppendRows(u, i) => AppendRows(u, i)'
    BY <1>1, <1>2, <2>1 DEF AppendRows
  <2>3. Reverting(u)' <=> Reverting(u)
    BY <1>1 DEF Reverting
  <2> QED BY <1>1, <2>1, <2>2, <2>3 DEF AppendState
<1>16. Inserted'
  BY <1>1, <1>2, <1>7 DEF Inserted
<1>17. Cleaning'
  <2>1. \A u \in Txn : status[u] = "committed" => undo'[u] = undo[u]
    BY <1>1, <1>4
  <2> QED BY <1>1, <1>3, <1>6, <1>8, <2>1 DEF Cleaning
<1>18. \A r \in Elements(dead) : r \in Row /\ del'[r] = tid
  BY <1>2, ElementsRows
<1>19. /\ clock \in Nat /\ NOT_DELETED_ID > clock /\ NOT_DELETED_ID \in Nat
       /\ \A u \in Txn : TransactionId(u) # NOT_DELETED_ID /\ TransactionId(u) > clock
       /\ \A u \in Txn : TransactionId(u) \in Nat
  BY ClockFacts, IdFacts
<1>20. OwnedRows'
  <2> SUFFICES ASSUME NEW u \in Txn, NEW i \in DOMAIN undo'[u], Active(u), IsDelete(u, i)'
               PROVE  Owned(u, i)'
    BY <1>3 DEF OwnedRows
  <2>1. (Undone(u, i)' <=> Undone(u, i)) /\ (Written(u, i)' <=> Written(u, i))
    BY <1>1 DEF Undone, Written
  <2>2. CASE i \in DOMAIN undo[u]
    <3>1. Owned(u, i) /\ undo'[u][i] = undo[u][i]
      BY <1>5, <1>6, <2>2 DEF OwnedRows
    <3>2. \A r \in Elements(undo[u][i].rows) : r \in Row
      BY <1>6, <2>2, EntryFacts DEF IsDelete
    <3>3. \A r \in Elements(undo[u][i].rows) :
            ~Undone(u, i) /\ r \notin strayed' =>
              r \notin strayed /\ r \notin Elements(dead) /\ r \notin back
      BY <1>2, <1>19, <3>1 DEF Owned
    <3> QED BY <1>1, <1>7, <1>9, <2>1, <3>1, <3>2, <3>3 DEF Owned
  <2>3. CASE i \notin DOMAIN undo[u]
    <3>1. u = t /\ undo'[u][i].rows = dead
      BY <1>5, <2>3
    <3>2. ~Written(u, i)
      BY <1>1, <3>1 DEF Written
    <3> QED BY <1>2, <1>7, <1>18, <2>1, <3>1, <3>2 DEF Owned
  <2> QED BY <2>2, <2>3
<1>21. EntriesApart'
  <2> SUFFICES ASSUME NEW u \in Txn, NEW i \in DOMAIN undo'[u], NEW j \in DOMAIN undo'[u],
                      IsDelete(u, i)', IsDelete(u, j)', i # j,
                      NEW r \in Elements(undo'[u][i].rows), r \in Elements(undo'[u][j].rows),
                      r \notin strayed, r \notin strayed'
               PROVE  FALSE
    BY <1>2 DEF EntriesApart
  <2>1. ASSUME NEW k \in DOMAIN undo[t], IsDelete(t, k)', r \in Elements(undo'[t][k].rows)
        PROVE  r \notin Elements(dead)
    <3>1. Owned(t, k) /\ r \in Elements(undo[t][k].rows)
      BY <1>3, <1>5, <1>6, <2>1 DEF OwnedRows
    <3>2. ~Undone(t, k) /\ ~Written(t, k)
      BY <1>1 DEF Undone, Written
    <3>3. del[r] = tid
      BY <3>1, <3>2 DEF Owned
    <3> QED BY <1>2, <1>19, <3>3
  <2>2. CASE i \in DOMAIN undo[u] /\ j \in DOMAIN undo[u]
    BY ZenonT(60), <1>5, <1>6, <2>2 DEF EntriesApart
  <2>3. CASE i \notin DOMAIN undo[u]
    BY <1>5, <2>1, <2>3
  <2>4. CASE j \notin DOMAIN undo[u]
    BY <1>5, <2>1, <2>4
  <2> QED BY <2>2, <2>3, <2>4
<1>22. CommittedRows'
  <2>1. \A u \in Txn : status[u] = "committed" => UndoRows(u)' = UndoRows(u)
    <3> SUFFICES ASSUME NEW u \in Txn, status[u] = "committed" PROVE UndoRows(u)' = UndoRows(u)
      OBVIOUS
    <3>1. undo'[u] = undo[u]
      BY <1>1, <1>4
    <3> QED BY <3>1 DEF UndoRows
  <2>2. \A u \in Txn : \A r \in UndoRows(u) : r \in Row
    <3> SUFFICES ASSUME NEW u \in Txn, NEW r \in UndoRows(u) PROVE r \in Row
      OBVIOUS
    <3>1. PICK i \in DOMAIN undo[u] : IsDelete(u, i) /\ r \in Elements(undo[u][i].rows)
      BY UndoRowsAre
    <3> QED BY <3>1, EntryFacts DEF IsDelete
  <2>3. \A r \in Row : del[r] < clock => r \notin Elements(dead) /\ r \notin back
    BY <1>2, <1>19
  <2>4. \A r \in Row : del[r] < clock => del'[r] = del[r]
    BY <1>9, <2>3
  <2>5. \A r : r \notin strayed' => r \notin strayed
    BY <1>2
  <2> QED BY <1>1, <1>3, <1>7, <2>1, <2>2, <2>4, <2>5 DEF CommittedRows
<1>23. FreshAlive'
  BY <1>2, <1>7, <1>9 DEF FreshAlive
<1> QED BY <1>10, <1>11, <1>12, <1>13, <1>14, <1>15, <1>16, <1>17, <1>20, <1>21, <1>22, <1>23

\* Without an append under way exactly the missing rows are fresh.
LEMMA FreshWithoutAppend ==
  ASSUME VersionInv, \A u \in Txn : Active(u) => ~FlushedAppend(u)
  PROVE  \A r : Fresh(r) <=> r >= row_count
  BY DEF Fresh, FlushedAppend, IsAppend

LEMMA AppendFacts ==
  ASSUME VersionInv, NEW t \in Txn, NEW n \in 1 .. VectorSize, AppendVersionInfo(t, n)
  PROVE  /\ info' \in InfoType
         /\ row_count' = row_count + n /\ row_count' \in 1 .. VectorSize /\ row_count < row_count'
         /\ row_count = 0 <=> info'.constant_insert
         /\ \A r \in Row : SameIn(DeleteId(info', r), del[r], Floors)
         /\ \A r \in Row : r \in row_count .. (row_count' - 1) =>
                             InsertId(info', r) = TransactionId(t)
         /\ \A r \in Row : r < row_count => InsertId(info', r) = InsertId(info, r)
         /\ \A u \in Txn : Active(u) => ~FlushedAppend(u)
<1> USE DEF VersionInv, Owners
<1> DEFINE tid == TransactionId(t)
           end == row_count + n
<1>1. /\ status[t] = "active" /\ ~FlushedAppend(t) /\ WALLockFree(t) /\ end <= VectorSize
      /\ info' = IF row_count = 0 /\ end = VectorSize
                 THEN NewInfo(TransactionId(t), NOT_DELETED_ID)
                 ELSE AppendIds(Present(info), row_count, end, TransactionId(t))
      /\ row_count' = end
  BY DEF AppendVersionInfo, Fits
<1>2. /\ row_count \in Nat /\ end \in Nat /\ end \in 1 .. VectorSize /\ row_count < end
  BY <1>1, IdAssumption DEF Types
<1>3. \A u \in Txn : Active(u) => ~FlushedAppend(u)
  BY <1>1 DEF WALLockFree
<1>4. tid \in Id /\ NOT_DELETED_ID \in Id /\ info \in InfoType /\ 0 \in Row
  BY IdFacts DEF Types
<1>5. \A r : Fresh(r) <=> r >= row_count
  BY <1>3, FreshWithoutAppend
<1> HIDE DEF end
<1>6. CASE row_count = 0 /\ end = VectorSize
  <2>1. info' = NewInfo(tid, NOT_DELETED_ID)
    BY <1>1, <1>6
  <2>2. /\ info' \in InfoType /\ info'.constant_insert
        /\ \A r \in Row : DeleteId(info', r) = NOT_DELETED_ID /\ InsertId(info', r) = tid
    BY <1>4, <2>1, NewInfoIds
  <2>3. \A r \in Row : r \in Nat /\ r >= row_count
    BY <1>6 DEF Row
  <2>4. \A r \in Row : del[r] = NOT_DELETED_ID
    BY <1>5, <2>3 DEF FreshAlive
  <2>5. \A r \in Row : ~(r < row_count)
    BY <1>2, <2>3
  <2> QED BY <1>1, <1>2, <1>3, <1>6, <2>2, <2>4, <2>5 DEF SameIn, end
<1>7. CASE ~(row_count = 0 /\ end = VectorSize)
  <2>1. info' = AppendIds(Present(info), row_count, end, tid)
    BY <1>1, <1>7 DEF end
  <2>2. /\ Present(info) \in InfoType /\ Present(info).constant_insert = info.constant_insert
        /\ \A r \in Row : DeleteId(Present(info), r) = DeleteId(info, r)
        /\ \A r \in Row : InsertId(Present(info), r) = InsertId(info, r)
    BY <1>4, PresentSame
  <2>3. row_count = 0 => Present(info).constant_insert
    BY <2>2 DEF Inserted
  <2>4. row_count # 0 => InsertId(Present(info), 0) # tid
    <3> SUFFICES ASSUME row_count # 0, InsertId(info, 0) = tid PROVE FALSE
      BY <1>4, <2>2
    <3>1. 0 < row_count /\ ~Fresh(0)
      BY <1>2, <1>5
    <3>2. ins[0] < clock
      BY <1>4, <3>1 DEF Inserted
    <3>3. SameIn(tid, ins[0], Floors)
      BY <1>4, <3>1 DEF InsertsSame
    <3>4. tid \in Nat /\ tid > clock /\ ins[0] \in Nat /\ clock \in Nat
      BY <1>4, ClockFacts, IdFacts
    <3>5. ~SettledIn(tid, Floors)
      BY <3>4, FloorsFacts
    <3> QED BY <3>2, <3>3, <3>4, <3>5 DEF SameIn
  <2>5. /\ info' \in InfoType
        /\ row_count = 0 <=> info'.constant_insert
        /\ \A r \in Row : DeleteId(info', r) = DeleteId(Present(info), r)
        /\ \A r \in Row : r \in row_count .. (end - 1) => InsertId(info', r) = tid
        /\ \A r \in Row : r < row_count => InsertId(info', r) = InsertId(Present(info), r)
    BY <1>2, <1>4, <2>1, <2>2, <2>3, <2>4, AppendIdsIs
  <2>6. \A r \in Row : SameIn(DeleteId(info', r), del[r], Floors)
    BY <2>2, <2>5 DEF DeletesSame
  <2> QED BY <1>1, <1>2, <1>3, <2>2, <2>5, <2>6 DEF end
<1> QED BY <1>6, <1>7

LEMMA AppendVersionInfoInv ==
  ASSUME VersionInv, NEW t \in Txn, NEW n \in 1 .. VectorSize, AppendVersionInfo(t, n)
  PROVE  VersionInv'
<1> USE DEF VersionInv, Owners
<1> DEFINE tid == TransactionId(t)
           e == [type |-> "INSERT_TUPLE", start |-> row_count, end |-> row_count + n]
<1>1. /\ status[t] = "active" /\ ~FlushedAppend(t) /\ Len(undo[t]) < MaxUndo
      /\ ckpt.phase = "none"
      /\ ending = Idle \/ (ending.phase = "rollback" /\ ending.txn # t)
      /\ undo' = [undo EXCEPT ![t] = Append(@, e)]
      /\ ins' = [r \in Row |-> IF r \in row_count .. ((row_count + n) - 1) THEN tid ELSE ins[r]]
      /\ UNCHANGED <<clock, status, start_time, ending, cleanup, ckpt, del, strayed, ghosts>>
  BY DEF AppendVersionInfo, AppendRequiresNewRowGroup
<1>2. /\ info' \in InfoType
      /\ row_count' = row_count + n /\ row_count' \in 1 .. VectorSize /\ row_count < row_count'
      /\ row_count = 0 <=> info'.constant_insert
      /\ \A r \in Row : SameIn(DeleteId(info', r), del[r], Floors)
      /\ \A r \in Row : r \in row_count .. (row_count' - 1) => InsertId(info', r) = tid
      /\ \A r \in Row : r < row_count => InsertId(info', r) = InsertId(info, r)
      /\ \A u \in Txn : Active(u) => ~FlushedAppend(u)
  BY AppendFacts
<1>3. /\ \A u \in Txn : Active(u)' <=> Active(u)
      /\ Active(t) /\ row_count \in Nat /\ row_count' \in Nat /\ VectorSize \in Nat
      /\ ending.txn # t
  BY SMTT(40), <1>1, <1>2, IdAssumption, RowVersionAssumption DEF Active, Types, Idle
<1>4. /\ e \in DeleteEntry \cup InsertEntry /\ e.type = "INSERT_TUPLE" /\ e.start = row_count
      /\ e.end = row_count'
  BY <1>2, <1>3 DEF InsertEntry
<1> HIDE DEF e
<1>0. PICK new : new = Len(undo[t]) + 1
  OBVIOUS
<1>5. /\ undo' \in [Txn -> Seq(DeleteEntry \cup InsertEntry)]
      /\ \A u \in Txn : Len(undo'[u]) <= MaxUndo
      /\ \A u \in Txn : u # t => undo'[u] = undo[u]
      /\ Len(undo[t]) \in Nat /\ Len(undo'[t]) = new
      /\ DOMAIN undo[t] = 1 .. Len(undo[t]) /\ DOMAIN undo'[t] = 1 .. new
      /\ \A i \in DOMAIN undo[t] : undo'[t][i] = undo[t][i]
      /\ undo'[t][new] = e
  BY <1>0, <1>1, <1>4, UndoGrows
<1>6. /\ \A u \in Txn : \A i \in DOMAIN undo[u] : i \in DOMAIN undo'[u] /\ undo'[u][i] = undo[u][i]
      /\ \A u \in Txn : \A i \in DOMAIN undo'[u] : i \in DOMAIN undo[u] \/ (u = t /\ i = new)
      /\ new \in DOMAIN undo'[t] /\ new \notin DOMAIN undo[t]
  <2>1. /\ \A i \in DOMAIN undo[t] : i \in DOMAIN undo'[t]
        /\ \A i \in DOMAIN undo'[t] : i \in DOMAIN undo[t] \/ i = new
        /\ new \in DOMAIN undo'[t] /\ new \notin DOMAIN undo[t]
    BY <1>0, <1>5
  <2> QED BY <1>5, <2>1
<1>7. /\ \A u \in Txn : \A i : IsDelete(u, i)' <=> IsDelete(u, i)
      /\ \A u \in Txn : \A i \in DOMAIN undo[u] : IsAppend(u, i)' <=> IsAppend(u, i)
      /\ IsAppend(t, new)'
      /\ \A u \in Txn : Active(u) => \A i : IsAppend(u, i)' => u = t /\ i = new
      /\ \A u \in Txn : Active(u) /\ FlushedAppend(u)' => u = t
  <2>1. \A u \in Txn : \A i : IsDelete(u, i)' <=> IsDelete(u, i)
    BY <1>4, <1>5, <1>6 DEF IsDelete
  <2>2. \A u \in Txn : \A i \in DOMAIN undo[u] : IsAppend(u, i)' <=> IsAppend(u, i)
    BY <1>6 DEF IsAppend
  <2>3. IsAppend(t, new)'
    BY <1>4, <1>5, <1>6 DEF IsAppend
  <2>4. \A u \in Txn : Active(u) => \A i : IsAppend(u, i)' => u = t /\ i = new
    BY <1>2, <1>6 DEF IsAppend, FlushedAppend
  <2>5. \A u \in Txn : FlushedAppend(u)' => \E i : IsAppend(u, i)'
    BY DEF FlushedAppend, IsAppend
  <2> QED BY <2>1, <2>2, <2>3, <2>4, <2>5
<1>8. \A r \in Row : r \in Nat
  BY DEF Row
<1>9. \A r \in Row : (Fresh(r) <=> r >= row_count) /\ (Fresh(r)' <=> r >= row_count)
  <2>1. \A r \in Row : Fresh(r) <=> r >= row_count
    BY <1>2, FreshWithoutAppend
  <2>2. ASSUME NEW r \in Row, Fresh(r)' PROVE r >= row_count
    <3>1. CASE r >= row_count'
      BY <1>2, <1>3, <1>8, <3>1
    <3>2. CASE ~(r >= row_count')
      <4>1. PICK u \in Txn : Active(u)' /\ \E i \in DOMAIN undo'[u] : IsAppend(u, i)' /\ r >= undo'[u][i].start
        BY <2>2, <3>2 DEF Fresh
      <4>2. PICK i \in DOMAIN undo'[u] : IsAppend(u, i)' /\ r >= undo'[u][i].start
        BY <4>1
      <4>3. u = t /\ i = new
        BY <1>3, <1>7, <4>1, <4>2
      <4> QED BY <1>4, <1>5, <4>2, <4>3
    <3> QED BY <3>1, <3>2
  <2>3. ASSUME NEW r \in Row, r >= row_count PROVE Fresh(r)'
    <3>1. Active(t)' /\ new \in DOMAIN undo'[t] /\ IsAppend(t, new)' /\ r >= undo'[t][new].start
      BY <1>3, <1>4, <1>5, <1>6, <1>7, <2>3
    <3> QED BY <3>1 DEF Fresh
  <2> QED BY <2>1, <2>2, <2>3
<1>10. Floors' = Floors
  BY <1>1, FloorsSame
<1>11. /\ \A r \in Row : r \in row_count .. (row_count' - 1) => ins'[r] = tid
       /\ \A r \in Row : r < row_count => ins'[r] = ins[r]
  BY <1>1, <1>2, <1>3, <1>8
<1>12. Types'
  <2>1. ins' \in [Row -> Id]
    BY <1>1, IdFacts DEF Types
  <2> QED BY SMTT(40), <1>1, <1>2, <1>3, <1>5, <2>1 DEF Types
<1>13. Ending'
  <2>1. ending.txn \in Txn => undo'[ending.txn] = undo[ending.txn]
    BY <1>3, <1>5
  <2> QED BY <1>1, <1>3, <2>1 DEF Ending
<1>14. Bounds'
  BY <1>1, <1>3 DEF Bounds
<1>15. DeletesSame'
  BY <1>1, <1>2, <1>10 DEF DeletesSame
<1>16. InsertsSame'
  <2> SUFFICES ASSUME NEW r \in Row, r < row_count'
               PROVE  SameIn(InsertId(info', r), ins'[r], Floors)
    BY <1>10 DEF InsertsSame
  <2>1. CASE r < row_count
    BY <1>2, <1>11, <2>1 DEF InsertsSame
  <2>2. CASE ~(r < row_count)
    <3>1. r \in row_count .. (row_count' - 1)
      BY <1>3, <1>8, <2>2
    <3> QED BY <1>2, <1>11, <3>1 DEF SameIn
  <2> QED BY <2>1, <2>2
<1>17. OneAppend'
  <2>1. \A u \in Txn : \A i \in DOMAIN undo'[u] : IsAppend(u, i)' => i = Len(undo'[u])
    <3> SUFFICES ASSUME NEW u \in Txn, NEW i \in DOMAIN undo'[u], IsAppend(u, i)'
                 PROVE  i = Len(undo'[u])
      OBVIOUS
    <3>1. CASE u = t
      BY <1>3, <1>5, <1>7, <3>1
    <3>2. CASE u # t
      BY <1>5, <1>6, <1>7, <3>2 DEF OneAppend
    <3> QED BY <3>1, <3>2
  <2>2. \A u \in Txn : status'[u] \in {"new", "aborted"} => undo'[u] = << >>
    BY <1>1, <1>5 DEF OneAppend
  <2> QED BY <1>1, <1>3, <1>7, <2>1, <2>2 DEF OneAppend
<1>18. Appending'
  <2> SUFFICES ASSUME NEW u \in Txn, NEW i \in DOMAIN undo'[u], Active(u)', IsAppend(u, i)'
               PROVE  AppendState(u, i)'
    BY DEF Appending
  <2>1. u = t /\ i = new /\ undo'[u][i].start = row_count /\ undo'[u][i].end = row_count'
    BY <1>3, <1>4, <1>5, <1>7
  <2>2. AppendRows(u, i)'
    <3>1. ending'.txn # u
      BY <1>1, <1>3, <2>1
    <3>2. \A r \in Row : r \in row_count .. (row_count' - 1) =>
            InsertId(info', r) = ins'[r] /\ ins'[r] = tid
      BY <1>2, <1>11
    <3>3. row_count # 0 => ~info'.constant_insert
      BY <1>2
    <3> QED BY <2>1, <3>1, <3>2, <3>3 DEF AppendRows
  <2>3. ~(ending'.txn = u)
    BY <1>1, <1>3, <2>1
  <2> QED BY <1>2, <2>1, <2>2, <2>3 DEF AppendState
<1>19. /\ clock \in Nat /\ \A r \in Row : ins[r] \in Nat /\ tid \in Nat /\ tid > clock
  BY ClockFacts, IdFacts
<1>20. Inserted'
  <2>1. \A r \in Row : ~Fresh(r)' => ins'[r] < clock'
    <3> SUFFICES ASSUME NEW r \in Row, ~(r >= row_count) PROVE ins'[r] < clock
      BY <1>1, <1>9
    <3>1. r < row_count
      BY <1>3, <1>8
    <3> QED BY <1>9, <1>11, <3>1 DEF Inserted
  <2>2. ASSUME NEW r \in Row, NEW s \in Row, r < s, s < row_count' PROVE ins'[r] <= ins'[s]
    <3>1. CASE s < row_count
      <4>1. r < row_count
        BY <1>3, <1>8, <2>2, <3>1
      <4> QED BY <1>11, <2>2, <3>1, <4>1 DEF Inserted
    <3>2. CASE ~(s < row_count)
      <4>1. ins'[s] = tid
        BY <1>3, <1>8, <1>11, <2>2, <3>2
      <4>2. CASE r < row_count
        <5>1. ins'[r] < clock
          BY <1>3, <1>8, <1>9, <1>11, <4>2 DEF Inserted
        <5>2. ins'[r] \in Nat
          BY <1>11, <1>19, <4>2
        <5> QED BY <1>19, <4>1, <5>1, <5>2
      <4>3. CASE ~(r < row_count)
        <5>1. ins'[r] = tid
          BY <1>3, <1>8, <1>11, <2>2, <4>3
        <5> QED BY <1>19, <4>1, <5>1
      <4> QED BY <4>2, <4>3
    <3> QED BY <3>1, <3>2
  <2>3. row_count' # 0
    BY <1>2, <1>3
  <2>4. ~info'.constant_insert => VectorSize > 1
    BY <1>2, <1>3
  <2> QED BY <2>1, <2>2, <2>3, <2>4 DEF Inserted
<1>21. Cleaning'
  <2>1. \A u \in Txn : status[u] = "committed" => undo'[u] = undo[u] /\ u # t
    BY <1>1, <1>5
  <2>2. row_count # VectorSize
    BY <1>2, <1>3
  <2>3. \A u \in Txn : cleanup[u] # 0 => /\ status[u] = "committed"
          /\ ~\E i \in DOMAIN undo[u] : IsAppend(u, i) /\ undo[u][i].end = VectorSize
    BY <2>2 DEF Cleaning
  <2>4. \A u \in Txn : status[u] = "committed" => \A i : IsAppend(u, i)' <=> IsAppend(u, i)
    BY <2>1 DEF IsAppend
  <2> QED BY <1>1, <2>1, <2>3, <2>4 DEF Cleaning
<1>22. OwnedRows'
  <2> SUFFICES ASSUME NEW u \in Txn, NEW i \in DOMAIN undo[u], IsDelete(u, i), Owned(u, i)
               PROVE  Owned(u, i)'
    BY <1>3, <1>7 DEF OwnedRows, IsDelete
  <2>1. (Undone(u, i)' <=> Undone(u, i)) /\ (Written(u, i)' <=> Written(u, i))
    BY <1>1 DEF Undone, Written
  <2>2. undo'[u][i] = undo[u][i] /\ Elements(undo[u][i].rows) \subseteq Row
    BY <1>6, EntryFacts DEF IsDelete
  <2> QED BY <1>1, <1>9, <2>1, <2>2 DEF Owned
<1>23. EntriesApart'
  <2>1. \A u \in Txn : \A i : IsDelete(u, i) => i \in DOMAIN undo[u] /\ undo'[u][i] = undo[u][i]
    BY <1>6 DEF IsDelete
  <2> QED BY <1>1, <1>7, <2>1 DEF EntriesApart
<1>24. CommittedRows'
  <2>1. \A u \in Txn : status[u] = "committed" => UndoRows(u)' = UndoRows(u)
    <3> SUFFICES ASSUME NEW u \in Txn, status[u] = "committed" PROVE UndoRows(u)' = UndoRows(u)
      OBVIOUS
    <3>1. undo'[u] = undo[u]
      BY <1>1, <1>5
    <3> QED BY <3>1 DEF UndoRows
  <2>2. \A u \in Txn : \A r \in UndoRows(u) : r \in Row
    <3> SUFFICES ASSUME NEW u \in Txn, NEW r \in UndoRows(u) PROVE r \in Row
      OBVIOUS
    <3>1. PICK i \in DOMAIN undo[u] : IsDelete(u, i) /\ r \in Elements(undo[u][i].rows)
      BY UndoRowsAre
    <3> QED BY <3>1, EntryFacts DEF IsDelete
  <2> QED BY <1>1, <1>9, <2>1, <2>2 DEF CommittedRows
<1>25. FreshAlive'
  BY <1>1, <1>9 DEF FreshAlive
<1> QED BY <1>12, <1>13, <1>14, <1>15, <1>16, <1>17, <1>18, <1>20, <1>21, <1>22, <1>23, <1>24, <1>25

-----------------------------------------------------------------------------
(* The end of a transaction, entry by entry *)

\* What both directions have in common: the ending transaction moves from
\* entry i to a neighbour.
EntryStep(t, i) ==
  /\ t \in Txn /\ ending.txn = t /\ ending.phase # "none" /\ ending.pos = i
  /\ i \in DOMAIN undo[t] /\ ~Undone(t, i)
  /\ ending'.txn = t /\ ending'.phase = ending.phase /\ ending'.id = ending.id
  /\ \/ ending.phase = "commit" /\ ending'.pos = i + 1
     \/ ending.phase \in {"revert", "abort", "rollback"} /\ ending'.pos = i - 1
  /\ UNCHANGED <<clock, status, start_time, undo, cleanup, ckpt, strayed, ghosts>>

LEMMA EntryStepFacts ==
  ASSUME VersionInv, NEW t, NEW i, EntryStep(t, i)
  PROVE  /\ t \in Txn /\ Active(t) /\ i \in Nat /\ i >= 1 /\ i <= Len(undo[t]) /\ Len(undo[t]) \in Nat
         /\ Ending' /\ Bounds' /\ Floors' = Floors
         /\ \A u \in Txn : Active(u)' <=> Active(u)
         /\ \A u \in Txn : FlushedAppend(u)' <=> FlushedAppend(u)
         /\ \A u \in Txn : \A j : IsAppend(u, j)' <=> IsAppend(u, j)
         /\ \A u \in Txn : \A j : IsDelete(u, j)' <=> IsDelete(u, j)
         /\ \A u \in Txn : UndoRows(u)' = UndoRows(u)
         /\ \A u \in Txn : \A j \in DOMAIN undo[u] : u # t \/ j # i =>
              (Undone(u, j)' <=> Undone(u, j)) /\ (Written(u, j)' <=> Written(u, j))
         /\ \A u \in Txn : Reverting(u)' <=> Reverting(u)
         /\ OneAppend' /\ EntriesApart'
<1> USE DEF VersionInv, Owners
<1>1. /\ t \in Txn /\ ending.txn = t /\ ending.phase # "none" /\ ending.pos = i
      /\ i \in DOMAIN undo[t]
      /\ ending'.txn = t /\ ending'.phase = ending.phase /\ ending'.id = ending.id
      /\ \/ ending.phase = "commit" /\ ending'.pos = i + 1
         \/ ending.phase \in {"revert", "abort", "rollback"} /\ ending'.pos = i - 1
      /\ UNCHANGED <<clock, status, start_time, undo, cleanup, ckpt, strayed, ghosts>>
  BY DEF EntryStep
<1>2. Active(t) /\ i \in Nat /\ i >= 1 /\ i <= Len(undo[t]) /\ Len(undo[t]) \in Nat
  BY <1>1, EntryFacts DEF Ending
<1>3. /\ \A u \in Txn : Active(u)' <=> Active(u)
      /\ \A u \in Txn : FlushedAppend(u)' <=> FlushedAppend(u)
      /\ \A u \in Txn : \A j : IsAppend(u, j)' <=> IsAppend(u, j)
      /\ \A u \in Txn : \A j : IsDelete(u, j)' <=> IsDelete(u, j)
      /\ \A u \in Txn : UndoRows(u)' = UndoRows(u)
  BY <1>1 DEF Active, FlushedAppend, IsAppend, IsDelete, UndoRows
<1>4. Ending'
  <2>1. ending'.txn \in Txn /\ Active(t)' /\ ending'.phase # "none"
    BY <1>1, <1>2, <1>3
  <2>2. ending.phase = "commit" => ending'.pos \in 1 .. (Len(undo[t]) + 1)
    BY <1>1, <1>2
  <2>3. ending.phase \in {"revert", "abort", "rollback"} => ending'.pos \in 0 .. Len(undo[t])
    BY <1>1, <1>2
  <2> QED BY <1>1, <2>1, <2>2, <2>3 DEF Ending
<1>5. Bounds'
  BY <1>1, <1>3 DEF Bounds
<1>6. Floors' = Floors
  BY <1>1, FloorsSame
<1>7. \A u \in Txn : \A j \in DOMAIN undo[u] : u # t \/ j # i =>
        (Undone(u, j)' <=> Undone(u, j)) /\ (Written(u, j)' <=> Written(u, j))
  <2> SUFFICES ASSUME NEW u \in Txn, NEW j \in DOMAIN undo[u], u # t \/ j # i
               PROVE  (Undone(u, j)' <=> Undone(u, j)) /\ (Written(u, j)' <=> Written(u, j))
    OBVIOUS
  <2>1. CASE u # t
    BY <1>1, <2>1 DEF Undone, Written
  <2>2. CASE u = t /\ j # i
    <3>1. j \in Nat
      BY EntryFacts
    <3>2. /\ j > i <=> j > i - 1
          /\ j < i <=> j < i + 1
          /\ j <= i <=> j <= i - 1
      BY <1>2, <2>2, <3>1
    <3> QED BY <1>1, <2>2, <3>2 DEF Undone, Written
  <2> QED BY <2>1, <2>2
<1>8. \A u \in Txn : Reverting(u)' <=> Reverting(u)
  BY <1>1 DEF Reverting
<1>9. OneAppend' /\ EntriesApart'
  BY <1>1, <1>3 DEF OneAppend, EntriesApart
<1> QED BY <1>1, <1>2, <1>3, <1>4, <1>5, <1>6, <1>7, <1>8, <1>9

LEMMA RowsOfUndo ==
  ASSUME Types, NEW t \in Txn, NEW r \in UndoRows(t)
  PROVE  r \in Row
<1>1. PICK i \in DOMAIN undo[t] : IsDelete(t, i) /\ r \in Elements(undo[t][i].rows)
  BY UndoRowsAre
<1> QED BY <1>1, EntryFacts DEF IsDelete

\* The entry of a delete.
LEMMA DeleteEntryInv ==
  ASSUME VersionInv, NEW t, NEW i, EntryStep(t, i), Types', IsDelete(t, i),
         WriteDelete(undo[t][i].rows, ending.id),
         Undone(t, i)' \/ ending.id = IF Written(t, i)' THEN clock - 1 ELSE TransactionId(t)
  PROVE  VersionInv'
<1> USE DEF VersionInv, Owners
<1> DEFINE R == Elements(undo[t][i].rows)
<1>1. /\ t \in Txn /\ ending.txn = t /\ ending.pos = i /\ i \in DOMAIN undo[t] /\ ~Undone(t, i)
      /\ ending'.txn = t /\ ending'.phase = ending.phase
      /\ \/ ending.phase = "commit" /\ ending'.pos = i + 1
         \/ ending.phase \in {"revert", "abort", "rollback"} /\ ending'.pos = i - 1
      /\ UNCHANGED <<clock, status, start_time, undo, cleanup, ckpt, strayed, ghosts>>
  BY DEF EntryStep
<1>2. /\ info' = CommitDelete(Present(info), ending.id, undo[t][i].rows)
      /\ del' = [r \in Row |-> IF r \in R THEN ending.id ELSE del[r]]
      /\ row_count' = row_count /\ ins' = ins
  BY DEF WriteDelete
<1>3. /\ Active(t) /\ i \in Nat /\ i >= 1 /\ i <= Len(undo[t]) /\ Len(undo[t]) \in Nat
      /\ Ending' /\ Bounds' /\ Floors' = Floors
      /\ \A u \in Txn : Active(u)' <=> Active(u)
      /\ \A u \in Txn : FlushedAppend(u)' <=> FlushedAppend(u)
      /\ \A u \in Txn : \A j : IsAppend(u, j)' <=> IsAppend(u, j)
      /\ \A u \in Txn : \A j : IsDelete(u, j)' <=> IsDelete(u, j)
      /\ \A u \in Txn : UndoRows(u)' = UndoRows(u)
      /\ \A u \in Txn : \A j \in DOMAIN undo[u] : u # t \/ j # i =>
           (Undone(u, j)' <=> Undone(u, j)) /\ (Written(u, j)' <=> Written(u, j))
      /\ \A u \in Txn : Reverting(u)' <=> Reverting(u)
      /\ OneAppend' /\ EntriesApart'
  BY EntryStepFacts
<1>4. /\ undo[t][i].rows \in Seq(Row) /\ R \subseteq Row
      /\ ending.id \in Id /\ info \in InfoType
  BY <1>1, EntryFacts DEF IsDelete, Types
<1>5. /\ info' \in InfoType /\ info'.constant_insert = info.constant_insert
      /\ \A r \in Row : DeleteId(info', r) = IF r \in R THEN ending.id ELSE DeleteId(info, r)
      /\ \A r \in Row : InsertId(info', r) = InsertId(info, r)
  <2>1. /\ Present(info) \in InfoType /\ Present(info).constant_insert = info.constant_insert
        /\ \A r \in Row : DeleteId(Present(info), r) = DeleteId(info, r)
        /\ \A r \in Row : InsertId(Present(info), r) = InsertId(info, r)
    BY <1>4, PresentSame
  <2> QED BY <1>2, <1>4, <2>1, CommitDeleteIds
<1>6. \A r : Fresh(r)' <=> Fresh(r)
  BY <1>1, <1>2, FramesSame
<1>7. /\ \A r \in R : r \in Row /\ ~Fresh(r) /\ del'[r] = ending.id
      /\ \A r \in R : r \notin strayed =>
           del[r] = IF Written(t, i) THEN clock - 1 ELSE TransactionId(t)
      /\ \A r \in Row : r \notin R => del'[r] = del[r]
  <2>1. Owned(t, i)
    BY <1>1, <1>3 DEF OwnedRows
  <2> QED BY <1>1, <1>2, <1>4, <2>1 DEF Owned
<1> HIDE DEF R
<1>8. InsertsSame' /\ DeletesSame'
  <2>1. InsertsSame'
    BY <1>2, <1>3, <1>5 DEF InsertsSame
  <2>2. DeletesSame'
    BY <1>3, <1>5, <1>7 DEF DeletesSame, SameIn
  <2> QED BY <2>1, <2>2
<1>9. Inserted'
  BY <1>1, <1>2, <1>5, <1>6 DEF Inserted
<1>10. Cleaning'
  BY <1>1, <1>2, <1>3 DEF Cleaning
<1>11. FreshAlive'
  BY <1>6, <1>7 DEF FreshAlive
<1>12. Appending'
  <2> SUFFICES ASSUME NEW u \in Txn, NEW k \in DOMAIN undo[u], IsAppend(u, k), AppendState(u, k)
               PROVE  AppendState(u, k)'
    BY <1>1, <1>3 DEF Appending
  <2>1. k \in Nat /\ (u = t => k # i)
    BY EntryFacts DEF IsAppend, IsDelete
  <2>2. u = t => (ending'.pos < k => ending.phase = "commit" \/ ending.pos < k)
    BY <1>1, <1>3, <2>1
  <2>3. u = t => (ending'.pos > k => ending.phase # "commit" \/ ending.pos > k)
    BY <1>1, <1>3, <2>1
  <2>4. AppendRows(u, k) => AppendRows(u, k)'
    BY <1>1, <1>2, <1>5, <2>3 DEF AppendRows
  <2> QED BY <1>1, <1>2, <1>3, <2>2, <2>4 DEF AppendState
<1>13. /\ clock \in Nat /\ \A u \in Txn : TransactionId(u) \in Nat /\ TransactionId(u) > clock
       /\ \A u, v \in Txn : TransactionId(u) = TransactionId(v) => u = v
       /\ \A r \in Row : del[r] \in Nat
  BY ClockFacts, IdFacts
<1>14. OwnedRows'
  <2> SUFFICES ASSUME NEW u \in Txn, NEW j \in DOMAIN undo[u], Active(u), IsDelete(u, j), Owned(u, j)
               PROVE  Owned(u, j)'
    BY <1>1, <1>3 DEF OwnedRows
  <2>1. CASE u = t /\ j = i
    BY <1>1, <1>6, <1>7, <2>1 DEF Owned, R
  <2>2. CASE u # t \/ j # i
    <3>1. \A r \in Elements(undo[u][j].rows) : r \in Row
      BY EntryFacts DEF IsDelete
    <3>2. \A r \in Elements(undo[u][j].rows) : r \notin strayed => r \notin R
      <4>1. CASE u = t
        BY <1>1, <2>2, <4>1 DEF EntriesApart, R
      <4>2. CASE u # t
        <5>1. ~Undone(u, j) /\ ~Written(u, j)
          BY <1>1, <4>2 DEF Undone, Written
        <5>2. \A r \in Elements(undo[u][j].rows) : r \notin strayed => del[r] = TransactionId(u)
          BY <5>1 DEF Owned
        <5> QED BY <1>1, <1>7, <1>13, <4>2, <5>2
      <4> QED BY <4>1, <4>2
    <3> QED BY <1>1, <1>3, <1>6, <1>7, <2>2, <3>1, <3>2 DEF Owned
  <2> QED BY <2>1, <2>2
<1>15. CommittedRows'
  <2>1. \A u \in Txn : status[u] = "committed" => \A r \in UndoRows(u) :
          r \in Row /\ (r \notin strayed => r \notin R)
    <3> SUFFICES ASSUME NEW u \in Txn, status[u] = "committed", NEW r \in UndoRows(u)
                 PROVE  r \in Row /\ (r \notin strayed => r \notin R)
      OBVIOUS
    <3>1. r \in Row
      BY RowsOfUndo
    <3>2. r \notin strayed =>
            /\ del[r] < clock
            /\ ending.phase \in {"commit", "revert", "abort"} => del[r] < clock - 1
      BY DEF CommittedRows
    <3>3. Written(t, i) => ending.phase \in {"commit", "revert", "abort"}
      BY DEF Written
    <3> QED BY <1>1, <1>7, <1>13, <3>1, <3>2, <3>3
  <2> QED BY <1>1, <1>3, <1>6, <1>7, <2>1 DEF CommittedRows
<1> QED BY <1>3, <1>8, <1>9, <1>10, <1>11, <1>12, <1>14, <1>15

\* With an append under way its rows, and the missing ones, are fresh.
LEMMA FreshWithAppend ==
  ASSUME VersionInv, NEW t \in Txn, NEW i, Active(t), IsAppend(t, i)
  PROVE  /\ i \in DOMAIN undo[t] /\ AppendState(t, i)
         /\ undo[t][i].start \in 0 .. VectorSize /\ undo[t][i].end \in 0 .. VectorSize
         /\ \A u \in Txn : \A j : Active(u) /\ IsAppend(u, j) => u = t /\ j = i
         /\ \A r \in Row : Fresh(r) <=> r >= undo[t][i].start
         /\ \A u \in Txn : cleanup[u] # 0 =>
              ~\E j \in DOMAIN undo[u] : IsAppend(u, j) /\ undo[u][j].end = VectorSize
<1> USE DEF VersionInv, Owners
<1>1. i \in DOMAIN undo[t] /\ AppendState(t, i)
  BY DEF Appending, IsAppend
<1>2. undo[t][i].start \in 0 .. VectorSize /\ undo[t][i].end \in 0 .. VectorSize
  BY <1>1, EntryFacts DEF IsAppend
<1>3. \A u \in Txn : \A j : Active(u) /\ IsAppend(u, j) => u = t /\ j = i
  <2> SUFFICES ASSUME NEW u \in Txn, NEW j, Active(u), IsAppend(u, j) PROVE u = t /\ j = i
    OBVIOUS
  <2>1. FlushedAppend(u) /\ FlushedAppend(t)
    BY DEF FlushedAppend, IsAppend
  <2>2. u = t
    BY <2>1 DEF OneAppend
  <2>3. j = Len(undo[t]) /\ i = Len(undo[t])
    BY <2>2 DEF OneAppend, IsAppend
  <2> QED BY <2>2, <2>3
<1>4. row_count >= undo[t][i].start /\ row_count \in Nat
  BY <1>1, <1>2, IdAssumption DEF AppendState, Types
<1>5. \A r \in Row : Fresh(r) <=> r >= undo[t][i].start
  <2>1. \A r \in Row : r \in Nat
    BY DEF Row
  <2>2. \A r \in Row : r >= row_count => r >= undo[t][i].start
    BY <1>2, <1>4, <2>1
  <2> QED BY <1>1, <1>3, <2>2 DEF Fresh
<1>6. \A u \in Txn : cleanup[u] # 0 =>
        ~\E j \in DOMAIN undo[u] : IsAppend(u, j) /\ undo[u][j].end = VectorSize
  <2>1. FlushedAppend(t)
    BY DEF FlushedAppend, IsAppend
  <2> QED BY <2>1 DEF Cleaning
<1> QED BY <1>1, <1>2, <1>3, <1>5, <1>6

LEMMA AppendEntryOwners ==
  ASSUME VersionInv, NEW t, NEW i, EntryStep(t, i), IsAppend(t, i), del' = del,
         \A r \in Row : Fresh(r)' <=> Fresh(r)
  PROVE  OwnedRows' /\ CommittedRows' /\ FreshAlive'
<1> USE DEF VersionInv, Owners
<1>1. /\ t \in Txn /\ i \in DOMAIN undo[t] /\ ending'.phase = ending.phase
      /\ UNCHANGED <<clock, status, start_time, undo, cleanup, ckpt, strayed, ghosts>>
  BY DEF EntryStep
<1>3. /\ \A u \in Txn : Active(u)' <=> Active(u)
      /\ \A u \in Txn : \A j : IsDelete(u, j)' <=> IsDelete(u, j)
      /\ \A u \in Txn : UndoRows(u)' = UndoRows(u)
      /\ \A u \in Txn : \A j \in DOMAIN undo[u] : u # t \/ j # i =>
           (Undone(u, j)' <=> Undone(u, j)) /\ (Written(u, j)' <=> Written(u, j))
  BY EntryStepFacts
<1>4. OwnedRows'
  <2> SUFFICES ASSUME NEW u \in Txn, NEW j \in DOMAIN undo[u], IsDelete(u, j), Owned(u, j)
               PROVE  Owned(u, j)'
    BY <1>1, <1>3 DEF OwnedRows
  <2>1. u # t \/ j # i
    BY DEF IsAppend, IsDelete
  <2>2. \A r \in Elements(undo[u][j].rows) : r \in Row
    BY EntryFacts DEF IsDelete
  <2> QED BY <1>1, <1>3, <2>1, <2>2 DEF Owned
<1>5. CommittedRows'
  <2>1. \A u \in Txn : \A r \in UndoRows(u) : r \in Row
    BY RowsOfUndo
  <2> QED BY <1>1, <1>3, <2>1 DEF CommittedRows
<1>6. FreshAlive'
  BY DEF FreshAlive
<1> QED BY <1>4, <1>5, <1>6

\* The entry of an append, committed.
LEMMA CommitAppendEntryInv ==
  ASSUME VersionInv, NEW t, NEW i, EntryStep(t, i), ending' \in [txn : Txn \cup {0}, phase : Phases, pos : Nat, id : Id],
         IsAppend(t, i), ending.phase = "commit",
         WriteAppend(undo[t][i].start, undo[t][i].end, ending.id)
  PROVE  VersionInv'
<1> USE DEF VersionInv, Owners
<1>1. /\ t \in Txn /\ ending.txn = t /\ ending.pos = i /\ i \in DOMAIN undo[t]
      /\ ending'.txn = t /\ ending'.phase = "commit" /\ ending'.pos = i + 1
      /\ UNCHANGED <<clock, status, start_time, undo, cleanup, ckpt, strayed, ghosts>>
  BY DEF EntryStep
<1>2. /\ Active(t) /\ i \in Nat
      /\ Ending' /\ Bounds' /\ Floors' = Floors
      /\ \A u \in Txn : Active(u)' <=> Active(u)
      /\ \A u \in Txn : FlushedAppend(u)' <=> FlushedAppend(u)
      /\ \A u \in Txn : \A j : IsAppend(u, j)' <=> IsAppend(u, j)
      /\ OneAppend' /\ EntriesApart'
  BY EntryStepFacts
<1>3. PICK start \in Nat : start = undo[t][i].start
  BY <1>1, EntryFacts DEF IsAppend
<1>4. PICK end \in Nat : end = undo[t][i].end
  BY <1>1, EntryFacts DEF IsAppend
<1>5. /\ AppendState(t, i)
      /\ \A u \in Txn : \A j : Active(u) /\ IsAppend(u, j) => u = t /\ j = i
      /\ \A r \in Row : Fresh(r) <=> r >= start
      /\ \A u \in Txn : cleanup[u] # 0 =>
           ~\E j \in DOMAIN undo[u] : IsAppend(u, j) /\ undo[u][j].end = VectorSize
  BY <1>1, <1>2, <1>3, FreshWithAppend
<1>6. row_count = end /\ start < end /\ AppendRows(t, i)
  BY <1>3, <1>4, <1>5 DEF AppendState, Reverting
<1>7. /\ info' = CommitAppend(info, ending.id, start, end)
      /\ ins' = [r \in Row |-> IF r \in start .. (end - 1) THEN ending.id ELSE ins[r]]
      /\ row_count' = row_count /\ del' = del
  BY <1>3, <1>4 DEF WriteAppend
<1>8. ending.id = clock - 1 /\ ending.id \in Id /\ info \in InfoType
  BY DEF Ending, Types
<1>9. /\ info' \in InfoType /\ info'.constant_insert = info.constant_insert
      /\ \A r \in Row : DeleteId(info', r) = DeleteId(info, r)
      /\ \A r \in Row : r \in start .. (end - 1) => InsertId(info', r) = clock - 1
      /\ \A r \in Row : r < start => InsertId(info', r) = InsertId(info, r)
  <2>1. start # 0 => ~info.constant_insert
    BY <1>3, <1>6 DEF AppendRows
  <2>2. PICK id \in Id : id = ending.id
    BY <1>8
  <2>3. PICK i0 \in InfoType : i0 = info
    BY <1>8
  <2>4. start # 0 => ~i0.constant_insert
    BY <2>1, <2>3
  <2> DEFINE new == CommitAppend(i0, id, start, end)
  <2>5. /\ new \in InfoType
        /\ new.constant_insert = i0.constant_insert
        /\ \A r \in Row : DeleteId(new, r) = DeleteId(i0, r)
        /\ \A r \in Row : r \in start .. (end - 1) => InsertId(new, r) = id
        /\ \A r \in Row : r < start => InsertId(new, r) = InsertId(i0, r)
    BY SMTT(40), <2>4, CommitAppendIs
  <2> HIDE DEF new
  <2> QED BY <1>7, <1>8, <2>2, <2>3, <2>5 DEF new
<1>10. \A r \in Row : r \in Nat
  BY DEF Row
<1>11. /\ \A r \in Row : r \in start .. (end - 1) => ins'[r] = clock - 1
       /\ \A r \in Row : r < start => ins'[r] = ins[r]
  BY <1>7, <1>8, <1>10
<1>12. Types'
  <2>1. ins' \in [Row -> Id]
    BY <1>7, <1>8 DEF Types
  <2> QED BY <1>1, <1>7, <1>9, <2>1 DEF Types
<1>13. InsertsSame' /\ DeletesSame'
  <2>1. DeletesSame'
    BY <1>2, <1>7, <1>9 DEF DeletesSame
  <2>2. ASSUME NEW r \in Row, r < row_count PROVE SameIn(InsertId(info', r), ins'[r], Floors)
    <3>1. CASE r < start
      BY <1>9, <1>11, <2>2, <3>1 DEF InsertsSame
    <3>2. CASE ~(r < start)
      <4>1. r \in start .. (end - 1)
        BY <1>6, <1>10, <2>2, <3>2
      <4> QED BY <1>9, <1>11, <4>1 DEF SameIn
    <3> QED BY <3>1, <3>2
  <2>3. InsertsSame'
    BY <1>2, <1>7, <2>2 DEF InsertsSame
  <2> QED BY <2>1, <2>3
<1>14. \A r : Fresh(r)' <=> Fresh(r)
  BY <1>1, <1>7, FramesSame
<1>15. clock \in Nat /\ 2 <= clock /\ \A r \in Row : ins[r] \in Nat
  BY ClockFacts
<1>16. Inserted'
  <2>1. \A r \in Row : ~Fresh(r)' => ins'[r] < clock'
    <3> SUFFICES ASSUME NEW r \in Row, ~Fresh(r) PROVE ins'[r] < clock
      BY <1>1, <1>14
    <3>1. r < start
      BY <1>5, <1>10
    <3> QED BY <1>11, <3>1 DEF Inserted
  <2>2. ASSUME NEW r \in Row, NEW s \in Row, r < s, s < row_count' PROVE ins'[r] <= ins'[s]
    <3>1. CASE s < start
      <4>1. r < start
        BY <1>10, <2>2, <3>1
      <4> QED BY <1>7, <1>11, <2>2, <3>1, <4>1 DEF Inserted
    <3>2. CASE ~(s < start)
      <4>1. ins'[s] = clock - 1
        <5>1. s \in start .. (end - 1)
          BY <1>6, <1>7, <1>10, <2>2, <3>2
        <5> QED BY <1>11, <5>1
      <4>2. CASE r < start
        <5>1. ~Fresh(r)
          BY <1>5, <1>10, <4>2
        <5>2. ins'[r] < clock /\ ins'[r] \in Nat
          BY <1>11, <1>15, <4>2, <5>1 DEF Inserted
        <5> QED BY <1>15, <4>1, <5>2
      <4>3. CASE ~(r < start)
        <5>1. r \in start .. (end - 1)
          BY <1>6, <1>7, <1>10, <2>2, <4>3
        <5> QED BY <1>11, <1>15, <4>1, <5>1
      <4> QED BY <4>2, <4>3
    <3> QED BY <3>1, <3>2
  <2> QED BY <1>7, <1>9, <2>1, <2>2 DEF Inserted
<1>17. Cleaning'
  BY <1>1, <1>2, <1>5 DEF Cleaning
<1>18. Appending'
  <2> SUFFICES AppendState(t, i)'
    BY <1>1, <1>2, <1>5 DEF Appending
  <2>1. AppendRows(t, i)'
    <3>1. \A r \in Row : r \in start .. (end - 1) => InsertId(info', r) = ins'[r] /\ ins'[r] = clock - 1
      BY <1>9, <1>11
    <3>2. undo'[t][i].start = start /\ undo'[t][i].end = end /\ clock' = clock
      BY <1>1, <1>3, <1>4
    <3>3. start # 0 => ~info'.constant_insert
      BY <1>3, <1>6, <1>9 DEF AppendRows
    <3> QED BY <1>1, <3>1, <3>2, <3>3 DEF AppendRows
  <2> QED BY <1>1, <1>3, <1>4, <1>6, <1>7, <2>1 DEF AppendState
<1>19. OwnedRows' /\ CommittedRows' /\ FreshAlive'
  BY <1>7, <1>14, AppendEntryOwners
<1> QED BY <1>2, <1>12, <1>13, <1>16, <1>17, <1>18, <1>19

\* The entry of an append, undone.
LEMMA RevertAppendEntryInv ==
  ASSUME VersionInv, NEW t, NEW i, EntryStep(t, i), ending' \in [txn : Txn \cup {0}, phase : Phases, pos : Nat, id : Id],
         IsAppend(t, i), ending.phase # "commit", RevertAppend(undo[t][i].start)
  PROVE  VersionInv'
<1> USE DEF VersionInv, Owners
<1>1. /\ t \in Txn /\ ending.txn = t /\ ending.pos = i /\ i \in DOMAIN undo[t]
      /\ ending'.txn = t /\ ending'.phase = ending.phase
      /\ ending.phase \in {"revert", "abort", "rollback"} /\ ending'.pos = i - 1
      /\ UNCHANGED <<clock, status, start_time, undo, cleanup, ckpt, strayed, ghosts>>
  BY DEF EntryStep
<1>2. /\ Active(t) /\ i \in Nat
      /\ Ending' /\ Bounds' /\ Floors' = Floors
      /\ \A u \in Txn : Active(u)' <=> Active(u)
      /\ \A u \in Txn : FlushedAppend(u)' <=> FlushedAppend(u)
      /\ \A u \in Txn : \A j : IsAppend(u, j)' <=> IsAppend(u, j)
      /\ OneAppend' /\ EntriesApart'
  BY EntryStepFacts
<1>3. PICK start \in Nat : start = undo[t][i].start
  BY <1>1, EntryFacts DEF IsAppend
<1>5. /\ AppendState(t, i) /\ start \in 0 .. VectorSize /\ undo[t][i].end \in 0 .. VectorSize
      /\ \A u \in Txn : \A j : Active(u) /\ IsAppend(u, j) => u = t /\ j = i
      /\ \A r \in Row : Fresh(r) <=> r >= start
      /\ \A u \in Txn : cleanup[u] # 0 =>
           ~\E j \in DOMAIN undo[u] : IsAppend(u, j) /\ undo[u][j].end = VectorSize
  BY <1>1, <1>2, <1>3, FreshWithAppend
<1>6. /\ start < undo[t][i].end /\ row_count >= start /\ row_count \in Nat
  BY <1>3, <1>5, IdAssumption DEF AppendState, Types
<1>7. /\ info' = IF start = 0 THEN NoInfo ELSE info
      /\ row_count' = start
      /\ ins' = [r \in Row |-> IF r >= start THEN 0 ELSE ins[r]]
      /\ del' = del
  BY <1>3 DEF RevertAppend
<1>8. \A r \in Row : r \in Nat
  BY DEF Row
<1>9. \A r \in Row : r < start => ins'[r] = ins[r] /\ info' = info /\ r < row_count
  BY <1>6, <1>7, <1>8
<1>10. Types'
  <2>1. ins' \in [Row -> Id] /\ info' \in InfoType
    BY <1>7, IdFacts, NoInfoIds DEF Types
  <2> QED BY <1>1, <1>5, <1>7, <2>1 DEF Types
<1>11. InsertsSame'
  BY <1>2, <1>7, <1>9 DEF InsertsSame
<1>12. DeletesSame'
  <2>1. CASE start = 0
    <3>1. \A r \in Row : del[r] = NOT_DELETED_ID
      BY <1>5, <1>8, <2>1 DEF FreshAlive
    <3> QED BY <1>7, <2>1, <3>1, NoInfoIds DEF DeletesSame, SameIn
  <2>2. CASE start # 0
    BY <1>2, <1>7, <2>2 DEF DeletesSame
  <2> QED BY <2>1, <2>2
<1>13. \A r \in Row : Fresh(r)' <=> Fresh(r)
  <2>1. undo'[t][i].start = start
    BY <1>1, <1>3
  <2>2. \A r \in Row : Fresh(r)' <=> r >= start
    BY <1>1, <1>2, <1>5, <1>7, <2>1 DEF Fresh
  <2> QED BY <1>5, <2>2
<1>14. Inserted'
  <2>1. \A r \in Row : ~Fresh(r)' => ins'[r] < clock'
    <3> SUFFICES ASSUME NEW r \in Row, ~Fresh(r) PROVE ins'[r] < clock
      BY <1>1, <1>13
    <3>1. r < start
      BY <1>5, <1>8
    <3> QED BY <1>9, <3>1 DEF Inserted
  <2>2. ASSUME NEW r \in Row, NEW s \in Row, r < s, s < row_count' PROVE ins'[r] <= ins'[s]
    <3>1. r < start /\ s < start
      BY <1>7, <1>8, <2>2
    <3> QED BY <1>9, <2>2, <3>1 DEF Inserted
  <2>3. /\ row_count' = 0 => info'.constant_insert
        /\ ~info'.constant_insert => VectorSize > 1
    BY <1>7, NoInfoIds DEF Inserted
  <2> QED BY <2>1, <2>2, <2>3 DEF Inserted
<1>15. Cleaning'
  BY <1>1, <1>2, <1>5 DEF Cleaning
<1>16. Appending'
  <2> SUFFICES AppendState(t, i)'
    BY <1>1, <1>2, <1>5 DEF Appending
  <2>1. undo'[t][i].start = start /\ undo'[t][i].end = undo[t][i].end /\ undo[t][i].end \in Nat
    BY <1>1, <1>3, <1>5
  <2>2. Reverting(t)'
    BY <1>1 DEF Reverting
  <2>3. row_count' # undo'[t][i].end
    BY <1>6, <1>7, <2>1
  <2> QED BY <1>6, <1>7, <2>1, <2>2, <2>3 DEF AppendState
<1>17. OwnedRows' /\ CommittedRows' /\ FreshAlive'
  BY <1>7, <1>13, AppendEntryOwners
<1> QED BY <1>2, <1>10, <1>11, <1>12, <1>14, <1>15, <1>16, <1>17

LEMMA CommitEntryInv ==
  ASSUME VersionInv, CommitEntry
  PROVE  VersionInv'
<1> USE DEF VersionInv, Owners
<1>1. PICK t : t = ending.txn
  OBVIOUS
<1>2. PICK i : i = ending.pos
  OBVIOUS
<1>3. /\ ending.phase = "commit" /\ i <= Len(undo[t])
      /\ ending' = [ending EXCEPT !.pos = @ + 1]
      /\ UNCHANGED <<clock, status, start_time, undo, cleanup, ckpt, strayed, ghosts>>
      /\ \/ undo[t][i].type = "DELETE_TUPLE" /\ WriteDelete(undo[t][i].rows, ending.id)
         \/ undo[t][i].type = "INSERT_TUPLE" /\ WriteAppend(undo[t][i].start, undo[t][i].end, ending.id)
  BY <1>1, <1>2 DEF CommitEntry
<1>4. t \in Txn /\ i \in Nat /\ i >= 1 /\ undo[t] \in Seq(DeleteEntry \cup InsertEntry)
      /\ ending.id = clock - 1
  BY <1>1, <1>2, <1>3 DEF Ending, Types
<1>5. i \in DOMAIN undo[t]
  <2> HIDE DEF DeleteEntry, InsertEntry
  <2> QED BY <1>3, <1>4
<1>6. PICK p \in Nat : p = i + 1
  BY <1>4
<1>7. ending' = [ending EXCEPT !.pos = p]
  BY <1>2, <1>3, <1>6
<1>8. /\ ending' \in [txn : Txn \cup {0}, phase : Phases, pos : Nat, id : Id]
      /\ ending'.txn = t /\ ending'.phase = ending.phase /\ ending'.id = ending.id
      /\ ending'.pos = i + 1
  BY <1>1, <1>6, <1>7 DEF Types
<1>9. EntryStep(t, i)
  <2>1. ~Undone(t, i)
    BY <1>3 DEF Undone
  <2> QED BY <1>1, <1>2, <1>3, <1>4, <1>5, <1>8, <2>1 DEF EntryStep
<1>10. CASE undo[t][i].type = "DELETE_TUPLE" /\ WriteDelete(undo[t][i].rows, ending.id)
  <2>1. Types'
    <3>1. undo[t][i].rows \in Seq(Row) /\ ending.id \in Id
      BY <1>4, <1>5, <1>10, EntryFacts DEF Types
    <3>2. info' \in InfoType
      BY <1>10, <3>1, PresentSame, CommitDeleteIds DEF WriteDelete, Types
    <3>3. del' \in [Row -> Id]
      BY <1>10, <3>1 DEF WriteDelete, Types
    <3> QED BY <1>3, <1>8, <1>10, <3>2, <3>3 DEF Types, WriteDelete
  <2>2. IsDelete(t, i)
    BY <1>5, <1>10 DEF IsDelete
  <2>3. Written(t, i)'
    BY <1>3, <1>4, <1>8 DEF Written
  <2> QED BY <1>4, <1>9, <1>10, <2>1, <2>2, <2>3, DeleteEntryInv
<1>11. CASE undo[t][i].type = "INSERT_TUPLE" /\ WriteAppend(undo[t][i].start, undo[t][i].end, ending.id)
  <2>1. IsAppend(t, i)
    BY <1>5, <1>11 DEF IsAppend
  <2> QED BY <1>3, <1>8, <1>9, <1>11, <2>1, CommitAppendEntryInv
<1> QED BY <1>3, <1>10, <1>11

LEMMA UndoEntryInv ==
  ASSUME VersionInv, UndoEntry
  PROVE  VersionInv'
<1> USE DEF VersionInv, Owners
<1>1. PICK t : t = ending.txn
  OBVIOUS
<1>2. PICK i : i = ending.pos
  OBVIOUS
<1>3. /\ ending.phase \in {"revert", "abort", "rollback"} /\ i > 0
      /\ ending' = [ending EXCEPT !.pos = @ - 1]
      /\ UNCHANGED <<clock, status, start_time, undo, cleanup, ckpt, strayed, ghosts>>
      /\ \/ undo[t][i].type = "DELETE_TUPLE" /\ WriteDelete(undo[t][i].rows, ending.id)
         \/ undo[t][i].type = "INSERT_TUPLE" /\ RevertAppend(undo[t][i].start)
  BY <1>1, <1>2 DEF UndoEntry
<1>4. t \in Txn /\ i \in 0 .. Len(undo[t]) /\ undo[t] \in Seq(DeleteEntry \cup InsertEntry)
  BY <1>1, <1>2, <1>3 DEF Ending, Types
<1>5. i \in DOMAIN undo[t] /\ i \in Nat
  <2> HIDE DEF DeleteEntry, InsertEntry
  <2> QED BY <1>3, <1>4
<1>6. PICK p \in Nat : p = i - 1
  BY <1>3, <1>5
<1>7. ending' = [ending EXCEPT !.pos = p]
  BY <1>2, <1>3, <1>6
<1>8. /\ ending' \in [txn : Txn \cup {0}, phase : Phases, pos : Nat, id : Id]
      /\ ending'.txn = t /\ ending'.phase = ending.phase /\ ending'.id = ending.id
      /\ ending'.pos = i - 1
  BY <1>1, <1>6, <1>7 DEF Types
<1>9. EntryStep(t, i)
  <2>1. ~Undone(t, i)
    BY <1>2, <1>5 DEF Undone
  <2> QED BY <1>1, <1>2, <1>3, <1>4, <1>5, <1>8, <2>1 DEF EntryStep
<1>10. CASE undo[t][i].type = "DELETE_TUPLE" /\ WriteDelete(undo[t][i].rows, ending.id)
  <2>1. Types'
    <3>1. undo[t][i].rows \in Seq(Row) /\ ending.id \in Id
      BY <1>4, <1>5, <1>10, EntryFacts DEF Types
    <3>2. info' \in InfoType
      BY <1>10, <3>1, PresentSame, CommitDeleteIds DEF WriteDelete, Types
    <3>3. del' \in [Row -> Id]
      BY <1>10, <3>1 DEF WriteDelete, Types
    <3> QED BY <1>3, <1>8, <1>10, <3>2, <3>3 DEF Types, WriteDelete
  <2>2. IsDelete(t, i)
    BY <1>5, <1>10 DEF IsDelete
  <2>3. Undone(t, i)' \/ ending.id = IF Written(t, i)' THEN clock - 1 ELSE TransactionId(t)
    <3>1. CASE ending.phase = "revert"
      <4>1. ending.id = TransactionId(t)
        BY <1>1, <3>1 DEF Ending
      <4>2. ~Written(t, i)'
        BY <1>5, <1>8, <3>1 DEF Written
      <4> QED BY <4>1, <4>2
    <3>2. CASE ending.phase # "revert"
      BY <1>3, <1>5, <1>8, <3>2 DEF Undone
    <3> QED BY <3>1, <3>2
  <2> QED BY <1>9, <1>10, <2>1, <2>2, <2>3, DeleteEntryInv
<1>11. CASE undo[t][i].type = "INSERT_TUPLE" /\ RevertAppend(undo[t][i].start)
  <2>1. IsAppend(t, i)
    BY <1>5, <1>11 DEF IsAppend
  <2> QED BY <1>3, <1>8, <1>9, <1>11, <2>1, RevertAppendEntryInv
<1> QED BY <1>3, <1>10, <1>11

\* The transaction that ends leaves the active ones.
Leaves(t) ==
  /\ t \in Txn /\ ending.txn = t /\ ending.phase # "none" /\ ending' = Idle
  /\ \E s \in {"committed", "aborted"} : status' = [status EXCEPT ![t] = s]
  /\ start_time' = [start_time EXCEPT ![t] = 0]
  /\ UNCHANGED <<info, row_count, clock, ckpt, ins, del, strayed, ghosts>>

LEMMA LeavesFacts ==
  ASSUME VersionInv, NEW t, Leaves(t),
         cleanup' \in [Txn -> Nat],
         undo' \in [Txn -> Seq(DeleteEntry \cup InsertEntry)],
         undo'[t] = undo[t] \/ undo'[t] = << >>, \A u \in Txn \ {t} : undo'[u] = undo[u]
  PROVE  /\ Types' /\ Ending' /\ Bounds' /\ InsertsSame' /\ DeletesSame'
         /\ \A u \in Txn : Active(u)' <=> (Active(u) /\ u # t)
         /\ \A u \in Txn \ {t} : status'[u] = status[u] /\ start_time'[u] = start_time[u]
         /\ \A x \in Nat : SettledIn(x, Floors) => SettledIn(x, Floors')
         /\ \A u \in Txn \ {t} : \A i : IsAppend(u, i)' <=> IsAppend(u, i)
         /\ \A u \in Txn \ {t} : \A i : IsDelete(u, i)' <=> IsDelete(u, i)
         /\ \A u \in Txn \ {t} : FlushedAppend(u)' <=> FlushedAppend(u)
         /\ \A u \in Txn \ {t} : UndoRows(u)' = UndoRows(u)
         /\ \A r : Fresh(r)' => Fresh(r)
         /\ \A r : Fresh(r) => Fresh(r)' \/ \E i : IsAppend(t, i) /\ r >= undo[t][i].start
         /\ Appending' /\ OwnedRows' /\ FreshAlive' /\ Active(t)
<1> USE DEF VersionInv, Owners
<1>1. /\ t \in Txn /\ ending.txn = t /\ ending.phase # "none" /\ ending' = Idle
      /\ start_time' = [start_time EXCEPT ![t] = 0]
      /\ UNCHANGED <<info, row_count, clock, ckpt, ins, del, strayed, ghosts>>
  BY DEF Leaves
<1>2. PICK s \in {"committed", "aborted"} : status' = [status EXCEPT ![t] = s]
  BY DEF Leaves
<1>3. /\ status' \in [Txn -> Statuses] /\ start_time' \in [Txn -> Nat]
      /\ \A u \in Txn \ {t} : status'[u] = status[u] /\ start_time'[u] = start_time[u]
      /\ status'[t] = s
  BY <1>1, <1>2 DEF Types, Statuses
<1>4. \A u \in Txn : Active(u)' <=> (Active(u) /\ u # t)
  BY <1>3 DEF Active
<1>5. /\ ending'.txn = 0 /\ ending'.phase = "none" /\ 0 \notin Txn
      /\ ending' \in [txn : Txn \cup {0}, phase : Phases, pos : Nat, id : Id]
  BY <1>1, RowVersionAssumption, IdFacts DEF Idle, Phases
<1>6. Types'
  <2>1. \A u \in Txn : Len(undo'[u]) <= MaxUndo
    <3>1. \A u \in Txn : undo'[u] = undo[u] \/ undo'[u] = << >>
      BY <1>1
    <3>2. Len(<< >>) <= MaxUndo
      BY RowVersionAssumption
    <3> QED BY <3>1, <3>2 DEF Types
  <2> QED BY <1>1, <1>3, <1>5, <2>1 DEF Types
<1>7. Ending'
  BY <1>1, <1>5 DEF Ending
<1>8. Bounds'
  BY <1>1, <1>3, <1>4, <1>5 DEF Bounds
<1>9. Advance
  <2>1. clock <= clock'
    BY <1>1, ClockFacts
  <2> QED BY <1>1, <1>3, <1>4, <1>6, <1>8, <2>1, AdvanceIf
<1>10. /\ \A x, y \in Nat : SameIn(x, y, Floors) => SameIn(x, y, Floors')
       /\ \A x \in Nat : SettledIn(x, Floors) => SettledIn(x, Floors')
  BY <1>6, <1>8, <1>9, SameStays
<1>11. InsertsSame' /\ DeletesSame'
  <2>1. \A r \in Row : /\ InsertId(info, r) \in Nat /\ DeleteId(info, r) \in Nat
                       /\ ins[r] \in Nat /\ del[r] \in Nat
    BY IdsTyped, IdFacts, ClockFacts DEF Types
  <2> QED BY <1>1, <1>10, <2>1 DEF InsertsSame, DeletesSame
<1>12. /\ \A u \in Txn \ {t} : \A i : IsAppend(u, i)' <=> IsAppend(u, i)
       /\ \A u \in Txn \ {t} : \A i : IsDelete(u, i)' <=> IsDelete(u, i)
       /\ \A u \in Txn \ {t} : FlushedAppend(u)' <=> FlushedAppend(u)
       /\ \A u \in Txn \ {t} : UndoRows(u)' = UndoRows(u)
  BY DEF IsAppend, IsDelete, FlushedAppend, UndoRows
<1>13. \A r : Fresh(r)' => Fresh(r)
  BY <1>1, <1>4, <1>12 DEF Fresh
<1>14. \A r : Fresh(r) => Fresh(r)' \/ \E i : IsAppend(t, i) /\ r >= undo[t][i].start
  <2> SUFFICES ASSUME NEW r, Fresh(r), ~\E i : IsAppend(t, i) /\ r >= undo[t][i].start
               PROVE  Fresh(r)'
    OBVIOUS
  <2>1. CASE r >= row_count
    BY <1>1, <2>1 DEF Fresh
  <2>2. CASE ~(r >= row_count)
    <3>1. PICK u \in Txn : Active(u) /\ \E i \in DOMAIN undo[u] : IsAppend(u, i) /\ r >= undo[u][i].start
      BY <2>2 DEF Fresh
    <3>2. u # t
      BY <3>1
    <3>3. Active(u)' /\ \E i \in DOMAIN undo'[u] : IsAppend(u, i)' /\ r >= undo'[u][i].start
      BY <1>4, <1>12, <3>1, <3>2
    <3> QED BY <3>3 DEF Fresh
  <2> QED BY <2>1, <2>2
<1>15. Appending'
  <2> SUFFICES ASSUME NEW u \in Txn \ {t}, NEW i \in DOMAIN undo[u], AppendState(u, i)
               PROVE  AppendState(u, i)'
    BY <1>4, <1>12 DEF Appending
  <2>1. ~Reverting(u)
    BY <1>1 DEF Reverting
  <2>2. AppendRows(u, i) => AppendRows(u, i)'
    BY <1>1, <1>5 DEF AppendRows
  <2> QED BY <1>1, <1>5, <2>1, <2>2 DEF AppendState
<1>16. OwnedRows'
  <2> SUFFICES ASSUME NEW u \in Txn \ {t}, NEW i \in DOMAIN undo[u], Owned(u, i)
               PROVE  Owned(u, i)'
    BY <1>4, <1>12 DEF OwnedRows
  <2>1. ~Undone(u, i) /\ ~Written(u, i) /\ ~Undone(u, i)' /\ ~Written(u, i)'
    BY <1>1, <1>5 DEF Undone, Written
  <2> QED BY <1>1, <1>13, <2>1 DEF Owned
<1>17. FreshAlive'
  BY <1>1, <1>13 DEF FreshAlive
<1>18. Active(t)
  BY <1>1 DEF Ending
<1> QED BY <1>3, <1>4, <1>6, <1>7, <1>8, <1>10, <1>11, <1>12, <1>13, <1>14, <1>15, <1>16, <1>17, <1>18

LEMMA CommitDoneInv ==
  ASSUME VersionInv, CommitDone
  PROVE  VersionInv'
<1> USE DEF VersionInv, Owners
<1>1. PICK t : t = ending.txn
  OBVIOUS
<1>2. /\ ending.phase = "commit" /\ ending.pos = Len(undo[t]) + 1
      /\ status' = [status EXCEPT ![t] = "committed"]
      /\ cleanup' = IF FlushedAppend(t)
                    THEN [cleanup EXCEPT ![t] = LowestBound({t})] ELSE cleanup
      /\ start_time' = [start_time EXCEPT ![t] = 0]
      /\ ending' = Idle
      /\ UNCHANGED <<info, row_count, clock, undo, ckpt, ins, del, strayed, ghosts>>
  BY <1>1 DEF CommitDone
<1>3. t \in Txn
  BY <1>1, <1>2 DEF Ending
<1>4. /\ LowestBound({t}) \in Nat
      /\ \A u \in Txn \ {t} : Active(u) => LowestBound({t}) <= start_time[u]
      /\ ckpt.phase # "none" => LowestBound({t}) <= ckpt.bound
  BY <1>3, LowestBoundIs
<1>5. Leaves(t)
  BY <1>1, <1>2, <1>3 DEF Leaves
<1>6. /\ cleanup' \in [Txn -> Nat]
      /\ \A u \in Txn \ {t} : cleanup'[u] = cleanup[u]
      /\ cleanup'[t] = IF FlushedAppend(t) THEN LowestBound({t}) ELSE cleanup[t]
  BY <1>2, <1>3, <1>4 DEF Types
<1>7. undo' = undo /\ undo \in [Txn -> Seq(DeleteEntry \cup InsertEntry)]
  BY <1>2 DEF Types
<1>8. /\ Types' /\ Ending' /\ Bounds' /\ InsertsSame' /\ DeletesSame'
      /\ \A u \in Txn : Active(u)' <=> (Active(u) /\ u # t)
      /\ \A u \in Txn \ {t} : status'[u] = status[u] /\ start_time'[u] = start_time[u]
      /\ \A x \in Nat : SettledIn(x, Floors) => SettledIn(x, Floors')
      /\ \A r : Fresh(r)' => Fresh(r)
      /\ \A r : Fresh(r) => Fresh(r)' \/ \E i : IsAppend(t, i) /\ r >= undo[t][i].start
      /\ Appending' /\ OwnedRows' /\ FreshAlive' /\ Active(t)
  BY <1>5, <1>6, <1>7, LeavesFacts
<1>9. /\ \A u \in Txn : \A i : (IsAppend(u, i)' <=> IsAppend(u, i)) /\ (IsDelete(u, i)' <=> IsDelete(u, i))
      /\ \A u \in Txn : FlushedAppend(u)' <=> FlushedAppend(u)
      /\ \A u \in Txn : UndoRows(u)' = UndoRows(u)
      /\ status'[t] = "committed" /\ status[t] # "committed"
  BY <1>2, <1>3, <1>7, <1>8 DEF IsAppend, IsDelete, FlushedAppend, UndoRows, Active, Types
<1>10. OneAppend'
  <2>1. ckpt' = ckpt
    BY <1>2
  <2> QED BY <1>3, <1>7, <1>8, <1>9, <2>1 DEF OneAppend
<1>11. EntriesApart'
  BY <1>2, <1>7, <1>9 DEF EntriesApart
\* All entries of t are written.
<1>12. \A i \in DOMAIN undo[t] : i \in Nat /\ i < ending.pos
  <2> SUFFICES ASSUME NEW i \in DOMAIN undo[t] PROVE i \in Nat /\ i < ending.pos
    OBVIOUS
  <2>1. i \in 1 .. Len(undo[t]) /\ Len(undo[t]) \in Nat
    BY <1>3, EntryFacts
  <2> QED BY <1>2, <2>1
<1>13. \A i : IsAppend(t, i) =>
         /\ row_count = undo[t][i].end
         /\ \A r \in Row : r \in undo[t][i].start .. (undo[t][i].end - 1) => ins[r] = clock - 1
  <2> SUFFICES ASSUME NEW i, IsAppend(t, i)
               PROVE  /\ row_count = undo[t][i].end
                      /\ \A r \in Row : r \in undo[t][i].start .. (undo[t][i].end - 1) => ins[r] = clock - 1
    OBVIOUS
  <2>1. i \in DOMAIN undo[t]
    BY DEF IsAppend
  <2>2. AppendState(t, i)
    BY <1>3, <1>8, <2>1 DEF Appending
  <2>3. ~Reverting(t)
    BY <1>2 DEF Reverting
  <2>4. row_count = undo[t][i].end /\ AppendRows(t, i)
    BY <2>2, <2>3 DEF AppendState
  <2> QED BY <1>1, <1>2, <1>12, <2>1, <2>4 DEF AppendRows
<1>14. \A r \in Row : Fresh(r)' \/ ins[r] < clock
  <2> SUFFICES ASSUME NEW r \in Row, ~Fresh(r)' PROVE ins[r] < clock
    OBVIOUS
  <2>0. r \in Nat /\ clock \in Nat
    BY ClockFacts DEF Row
  <2>1. CASE ~Fresh(r)
    BY <2>1 DEF Inserted
  <2>2. CASE Fresh(r)
    <3>1. PICK i : IsAppend(t, i) /\ r >= undo[t][i].start
      BY <1>8, <2>2
    <3>2. i \in DOMAIN undo[t] /\ undo[t][i].type = "INSERT_TUPLE"
      BY <3>1 DEF IsAppend
    <3>3. undo[t][i].start \in Nat /\ undo[t][i].end \in Nat
      BY <1>3, <3>2, EntryFacts
    <3>4. ~(r >= row_count)
      <4>1. row_count' = row_count
        BY <1>2
      <4> QED BY <4>1 DEF Fresh
    <3>5. row_count = undo[t][i].end
      BY <1>13, <3>1
    <3>6. r \in undo[t][i].start .. (undo[t][i].end - 1)
      BY <2>0, <3>1, <3>3, <3>4, <3>5
    <3>7. ins[r] = clock - 1
      BY <1>13, <3>1, <3>6
    <3> QED BY <2>0, <3>7
  <2> QED BY <2>1, <2>2
<1>15. Inserted'
  <2>1. /\ row_count' = row_count /\ ins' = ins /\ info' = info /\ clock' = clock
    BY <1>2
  <2> QED BY <1>14, <2>1 DEF Inserted
<1>16. Cleaning'
  <2> SUFFICES ASSUME NEW u \in Txn, cleanup'[u] # 0
               PROVE  /\ status'[u] = "committed"
                      /\ (\E i \in DOMAIN undo[u] : IsAppend(u, i) /\ undo[u][i].end = VectorSize) =>
                           /\ row_count = VectorSize
                           /\ \A v \in Txn : Active(v)' => ~FlushedAppend(v)
                           /\ \A r \in Row : ins[r] < cleanup'[u] => SettledIn(ins[r], Floors')
    <3>1. row_count' = row_count /\ ins' = ins
      BY <1>2
    <3> QED BY <1>7, <1>9, <3>1 DEF Cleaning
  <2>0. \A r \in Row : ins[r] \in Nat
    BY ClockFacts
  <2>1. CASE u # t
    <3>1. /\ cleanup[u] # 0 /\ cleanup'[u] = cleanup[u] /\ status'[u] = status[u]
      BY <1>6, <1>8, <2>1
    <3> QED BY <1>8, <2>0, <2>1, <3>1 DEF Cleaning
  <2>2. CASE u = t
    <3> SUFFICES ASSUME NEW i \in DOMAIN undo[t], IsAppend(t, i), undo[t][i].end = VectorSize
                 PROVE  /\ row_count = VectorSize
                        /\ \A v \in Txn : Active(v)' => ~FlushedAppend(v)
                        /\ \A r \in Row : ins[r] < cleanup'[t] => SettledIn(ins[r], Floors')
      BY <1>9, <2>2
    <3>1. FlushedAppend(t) /\ row_count = VectorSize
      BY <1>13 DEF FlushedAppend, IsAppend
    <3>2. \A v \in Txn : Active(v)' => ~FlushedAppend(v)
      BY <1>3, <1>8, <3>1 DEF OneAppend
    <3>3. cleanup'[t] = LowestBound({t})
      BY <1>6, <3>1
    <3>4. \A r \in Row : ~Fresh(r)'
      <4>1. row_count' = VectorSize
        BY <1>2, <3>1
      <4>2. \A r \in Row : ~(r >= VectorSize)
        BY IdAssumption DEF Row
      <4> QED BY <1>9, <3>2, <4>1, <4>2 DEF Fresh, IsAppend, FlushedAppend
    <3>5. ASSUME NEW r \in Row, ins[r] < LowestBound({t}), NEW b \in Floors'
          PROVE  ins[r] < b
      <4>0. /\ ins[r] \in Nat /\ clock' = clock /\ ckpt' = ckpt
            /\ \A v \in Txn : start_time[v] \in Nat
            /\ ckpt.bound \in Nat
        BY <1>2, <2>0 DEF Types
      <4>1. CASE b = clock
        BY <1>14, <3>4, <4>1
      <4>2. CASE \E v \in Txn : Active(v)' /\ b = start_time'[v]
        <5>1. PICK v \in Txn : Active(v)' /\ b = start_time'[v]
          BY <4>2
        <5>2. v # t /\ Active(v) /\ b = start_time[v]
          BY <1>8, <5>1
        <5>3. LowestBound({t}) <= b
          BY <1>4, <5>2
        <5> QED BY <1>4, <3>5, <4>0, <5>2, <5>3
      <4>3. CASE ckpt.phase # "none" /\ b = ckpt.bound
        BY <1>4, <3>5, <4>0, <4>3
      <4> QED BY <4>0, <4>1, <4>2, <4>3 DEF Floors
    <3> QED BY <3>1, <3>2, <3>3, <3>5 DEF SettledIn
  <2> QED BY <2>1, <2>2
<1>17. \A r \in UndoRows(t) : ~Fresh(r) /\ (r \notin strayed => del[r] = clock - 1)
  <2> SUFFICES ASSUME NEW r \in UndoRows(t)
               PROVE  ~Fresh(r) /\ (r \notin strayed => del[r] = clock - 1)
    OBVIOUS
  <2>1. PICK i \in DOMAIN undo[t] : IsDelete(t, i) /\ r \in Elements(undo[t][i].rows)
    BY <1>3, UndoRowsAre
  <2>2. Owned(t, i)
    BY <1>3, <1>8, <2>1 DEF OwnedRows
  <2>3. Written(t, i) /\ ~Undone(t, i)
    BY <1>1, <1>2, <1>12 DEF Written, Undone
  <2> QED BY <2>1, <2>2, <2>3 DEF Owned
<1>18. CommittedRows'
  <2>0. /\ clock \in Nat /\ clock' = clock /\ del' = del /\ ending'.phase = "none"
        /\ strayed' = strayed
    BY <1>2, ClockFacts DEF Idle
  <2>1. \A v \in Txn \ {t} : status[v] = "committed" =>
          \A r \in UndoRows(v) : r \notin strayed => r \notin UndoRows(t)
    <3> SUFFICES ASSUME NEW v \in Txn \ {t}, status[v] = "committed", NEW r \in UndoRows(v),
                        r \in UndoRows(t), r \notin strayed
                 PROVE  FALSE
      OBVIOUS
    <3>1. del[r] < clock - 1
      BY <1>2 DEF CommittedRows
    <3>2. del[r] = clock - 1
      BY <1>17
    <3> QED BY <2>0, <3>1, <3>2
  <2> SUFFICES ASSUME NEW u \in Txn, status'[u] = "committed", NEW r \in UndoRows(u)
               PROVE  ~Fresh(r)' /\ (r \notin strayed =>
                        /\ del[r] < clock
                        /\ \A v \in Txn \ {u} : status'[v] = "committed" => r \notin UndoRows(v))
    BY <1>9, <2>0 DEF CommittedRows
  <2>2. CASE u = t
    BY <1>8, <1>17, <2>0, <2>1, <2>2
  <2>3. CASE u # t
    <3>1. status[u] = "committed"
      BY <1>8, <2>3
    <3>2. ~Fresh(r) /\ (r \notin strayed => del[r] < clock)
      BY <3>1 DEF CommittedRows
    <3>3. r \notin strayed =>
            \A v \in Txn \ {u} : status'[v] = "committed" => r \notin UndoRows(v)
      <4> SUFFICES ASSUME r \notin strayed, NEW v \in Txn \ {u}, status'[v] = "committed"
                   PROVE  r \notin UndoRows(v)
        OBVIOUS
      <4>1. CASE v = t
        BY <2>1, <2>3, <3>1, <4>1
      <4>2. CASE v # t
        <5>1. status[v] = "committed"
          BY <1>8, <4>2
        <5> QED BY <3>1, <5>1 DEF CommittedRows
      <4> QED BY <4>1, <4>2
    <3> QED BY <1>8, <3>2, <3>3
  <2> QED BY <2>2, <2>3
<1> QED BY <1>8, <1>10, <1>11, <1>15, <1>16, <1>18

LEMMA RollbackDoneInv ==
  ASSUME VersionInv, RollbackDone
  PROVE  VersionInv'
<1> USE DEF VersionInv, Owners
<1>1. PICK t : t = ending.txn
  OBVIOUS
<1>2. /\ ending.phase \in {"abort", "rollback"} /\ ending.pos = 0
      /\ status' = [status EXCEPT ![t] = "aborted"]
      /\ start_time' = [start_time EXCEPT ![t] = 0]
      /\ undo' = [undo EXCEPT ![t] = << >>]
      /\ ending' = Idle
      /\ UNCHANGED <<info, row_count, clock, cleanup, ckpt, ins, del, strayed, ghosts>>
  BY <1>1 DEF RollbackDone
<1>3. t \in Txn
  BY <1>1, <1>2 DEF Ending
<1>4. Leaves(t)
  BY <1>1, <1>2, <1>3 DEF Leaves
<1>5. cleanup' = cleanup /\ cleanup \in [Txn -> Nat]
  BY <1>2 DEF Types
<1>6. /\ undo' \in [Txn -> Seq(DeleteEntry \cup InsertEntry)]
      /\ undo'[t] = << >> /\ \A u \in Txn \ {t} : undo'[u] = undo[u]
  BY <1>2, <1>3 DEF Types
<1>7. /\ Types' /\ Ending' /\ Bounds' /\ InsertsSame' /\ DeletesSame'
      /\ \A u \in Txn : Active(u)' <=> (Active(u) /\ u # t)
      /\ \A u \in Txn \ {t} : status'[u] = status[u]
      /\ \A x \in Nat : SettledIn(x, Floors) => SettledIn(x, Floors')
      /\ \A u \in Txn \ {t} : \A i : IsAppend(u, i)' <=> IsAppend(u, i)
      /\ \A u \in Txn \ {t} : \A i : IsDelete(u, i)' <=> IsDelete(u, i)
      /\ \A u \in Txn \ {t} : FlushedAppend(u)' <=> FlushedAppend(u)
      /\ \A u \in Txn \ {t} : UndoRows(u)' = UndoRows(u)
      /\ \A r : Fresh(r)' => Fresh(r)
      /\ \A r : Fresh(r) => Fresh(r)' \/ \E i : IsAppend(t, i) /\ r >= undo[t][i].start
      /\ Appending' /\ OwnedRows' /\ FreshAlive' /\ Active(t)
  BY <1>4, <1>5, <1>6, LeavesFacts
<1>8. /\ status'[t] = "aborted" /\ status[t] # "committed"
      /\ \A i : ~IsAppend(t, i)' /\ ~IsDelete(t, i)'
      /\ ~FlushedAppend(t)'
  BY <1>2, <1>3, <1>6, <1>7 DEF Types, Active, IsAppend, IsDelete, FlushedAppend
<1>9. OneAppend'
  <2>1. ckpt' = ckpt
    BY <1>2
  <2>2. \A u \in Txn : \A i \in DOMAIN undo'[u] : IsAppend(u, i)' => i = Len(undo'[u])
    <3> SUFFICES ASSUME NEW u \in Txn, NEW i \in DOMAIN undo'[u], IsAppend(u, i)'
                 PROVE  i = Len(undo'[u])
      OBVIOUS
    <3>1. u # t
      BY <1>8
    <3>2. undo'[u] = undo[u] /\ IsAppend(u, i)
      BY <1>6, <1>7, <3>1
    <3> QED BY <3>2 DEF OneAppend
  <2>3. \A u \in Txn : status'[u] \in {"new", "aborted"} => undo'[u] = << >>
    <3> SUFFICES ASSUME NEW u \in Txn, status'[u] \in {"new", "aborted"}, u # t
                 PROVE  undo'[u] = << >>
      BY <1>6
    <3> QED BY <1>6, <1>7 DEF OneAppend
  <2>4. \A u, v \in Txn :
          Active(u)' /\ Active(v)' /\ FlushedAppend(u)' /\ FlushedAppend(v)' => u = v
    BY <1>7 DEF OneAppend
  <2>5. ckpt.phase # "none" => \A u \in Txn : Active(u)' => ~FlushedAppend(u)'
    BY <1>7 DEF OneAppend
  <2> QED BY <2>1, <2>2, <2>3, <2>4, <2>5 DEF OneAppend
<1>10. EntriesApart'
  <2> SUFFICES ASSUME NEW u \in Txn, NEW i \in DOMAIN undo'[u], NEW j \in DOMAIN undo'[u],
                      IsDelete(u, i)', IsDelete(u, j)', i # j
               PROVE  Elements(undo'[u][i].rows) \cap Elements(undo'[u][j].rows) \subseteq strayed
    BY <1>2 DEF EntriesApart
  <2>1. u # t
    BY <1>8
  <2>2. undo'[u] = undo[u] /\ IsDelete(u, i) /\ IsDelete(u, j)
    BY <1>6, <1>7, <2>1
  <2> QED BY <2>2 DEF EntriesApart
\* The append of t, if any, is gone.
<1>11. \A r : Fresh(r) => Fresh(r)'
  <2> SUFFICES ASSUME NEW r, Fresh(r), NEW i, IsAppend(t, i), r >= undo[t][i].start
               PROVE  Fresh(r)'
    BY <1>7
  <2>1. i \in DOMAIN undo[t]
    BY DEF IsAppend
  <2>2. i \in Nat /\ 0 < i
    BY <1>3, <2>1, EntryFacts
  <2>3. AppendState(t, i)
    BY <1>3, <1>7, <2>1 DEF Appending
  <2>4. row_count = undo[t][i].start
    BY <1>1, <1>2, <2>2, <2>3 DEF AppendState
  <2>5. row_count' = row_count
    BY <1>2
  <2> QED BY <2>4, <2>5 DEF Fresh
<1>12. Inserted'
  <2>1. row_count' = row_count /\ ins' = ins /\ info' = info /\ clock' = clock
    BY <1>2
  <2> QED BY <1>11, <2>1 DEF Inserted
<1>13. Cleaning'
  <2>0. \A r \in Row : ins[r] \in Nat
    BY ClockFacts
  <2>1. row_count' = row_count /\ ins' = ins
    BY <1>2
  <2> SUFFICES ASSUME NEW u \in Txn, cleanup[u] # 0
               PROVE  /\ status'[u] = "committed"
                      /\ (\E i \in DOMAIN undo'[u] : IsAppend(u, i)' /\ undo'[u][i].end = VectorSize) =>
                           /\ row_count = VectorSize
                           /\ \A v \in Txn : Active(v)' => ~FlushedAppend(v)'
                           /\ \A r \in Row : ins[r] < cleanup[u] => SettledIn(ins[r], Floors')
    BY <1>5, <2>1 DEF Cleaning
  <2>2. u # t
    BY <1>8 DEF Cleaning
  <2>3. status'[u] = status[u] /\ undo'[u] = undo[u] /\ \A i : IsAppend(u, i)' <=> IsAppend(u, i)
    BY <1>6, <1>7, <2>2
  <2> QED BY <1>7, <2>0, <2>3 DEF Cleaning
<1>14. CommittedRows'
  <2>0. clock' = clock /\ del' = del /\ ending'.phase = "none" /\ strayed' = strayed
    BY <1>2 DEF Idle
  <2>1. \A u \in Txn : status'[u] = "committed" => status[u] = "committed" /\ UndoRows(u)' = UndoRows(u)
    BY <1>7, <1>8
  <2> QED BY <1>7, <2>0, <2>1 DEF CommittedRows
<1> QED BY <1>7, <1>9, <1>10, <1>12, <1>13, <1>14

-----------------------------------------------------------------------------
(* The invariant *)

LEMMA NextInv ==
  ASSUME VersionInv, [Next]_vars
  PROVE  VersionInv'
<1>1. CASE UNCHANGED vars
  <2> USE DEF VersionInv, Owners
  <2>1. UNCHANGED <<info, row_count, clock, status, start_time, undo, ending, cleanup, ckpt, ins, del, strayed, ghosts>>
    BY <1>1 DEF vars
  <2>2. Types' /\ Ending' /\ Bounds'
    BY <2>1 DEF Types, Ending, Bounds, Active
  <2>3. Floors' = Floors
    BY <2>1, FloorsSame
  <2>4. InsertsSame' /\ DeletesSame'
    BY <2>1, <2>3 DEF InsertsSame, DeletesSame
  <2>5. OneAppend' /\ EntriesApart' /\ FreshAlive'
    BY <2>1, FramesSame DEF OneAppend, EntriesApart, FreshAlive
  <2>6. Inserted' /\ CommittedRows'
    BY <2>1, FramesSame DEF Inserted, CommittedRows
  <2>7. Cleaning'
    BY <2>1, <2>3, FramesSame DEF Cleaning
  <2>8. Appending'
    <3>1. \A t \in Txn : \A i : AppendState(t, i)' <=> AppendState(t, i)
      BY <2>1 DEF AppendState, AppendRows, Reverting
    <3> QED BY <2>1, <3>1, FramesSame DEF Appending
  <2>9. OwnedRows'
    <3>1. \A t \in Txn : \A i : Owned(t, i)' <=> Owned(t, i)
      <4> SUFFICES ASSUME NEW t \in Txn, NEW i PROVE Owned(t, i)' <=> Owned(t, i)
        OBVIOUS
      <4>1. (Undone(t, i)' <=> Undone(t, i)) /\ (Written(t, i)' <=> Written(t, i))
        BY <2>1 DEF Undone, Written
      <4> QED BY <2>1, <4>1, FramesSame DEF Owned
    <3> QED BY <2>1, <3>1, FramesSame DEF OwnedRows
  <2> QED BY <2>2, <2>4, <2>5, <2>6, <2>7, <2>8, <2>9
<1>2. ASSUME NEW t \in Txn,
             \/ StartTransaction(t)
             \/ \E rows \in DeleteLists : DeleteRows(t, rows)
             \/ \E n \in 1 .. VectorSize : AppendVersionInfo(t, n)
             \/ CommitTransaction(t) \/ RollbackTransaction(t)
             \/ CleanupAppend(t)
      PROVE  VersionInv'
  BY <1>2, StartTransactionInv, DeleteRowsInv, AppendVersionInfoInv, CommitTransactionInv,
     RollbackTransactionInv, CleanupAppendInv
<1>3. CASE \/ CommitEntry \/ CommitFails \/ UndoEntry \/ RevertDone
           \/ CommitDone \/ RollbackDone
  BY <1>3, CommitEntryInv, CommitFailsInv, UndoEntryInv, RevertDoneInv, CommitDoneInv,
     RollbackDoneInv
<1>4. CASE Checkpoint
  BY <1>4, CheckpointStartInv, CheckpointReadBoundInv, CheckpointCompressInv,
     CheckpointDeletesInv, CheckpointDoneInv DEF Checkpoint
<1> QED BY <1>1, <1>2, <1>3, <1>4 DEF Next

\* The inductive invariant holds: the version information agrees with one
\* insert and one delete id per row up to ids that every snapshot sees, and
\* whoever deleted a row or is appending it owns it, through interleaved
\* deletes, commits that fail half-way, roll-backs, clean-up and compression
\* (RowVersionManager and ChunkVectorInfo).
THEOREM VersionCorrect == Spec => []VersionInv
<1>1. ASSUME VersionInv, [Next]_vars PROVE VersionInv'
  BY <1>1, NextInv
<1> QED BY <1>1, InitInv, PTL DEF Spec

-----------------------------------------------------------------------------
(* What the invariant says *)

LEMMA ShowsExactly ==
  ASSUME VersionInv, NEW view, view.bound \in Floors, view.id \in Nat, view.id > clock,
         NEW r \in Row, r < row_count
  PROVE  Fetch(info, view, r) <=> Sees(view, ins[r]) /\ ~Sees(view, del[r])
<1> USE DEF VersionInv, Owners
<1>1. view.bound \in Nat /\ clock \in Nat
  BY FloorsFacts, ClockFacts
<1>2. ASSUME NEW x \in Nat, NEW y \in Nat, SameIn(x, y, Floors)
      PROVE  Sees(view, x) <=> Sees(view, y)
  <2>1. CASE x = y
    BY <2>1
  <2>2. CASE SettledIn(x, Floors) /\ SettledIn(y, Floors)
    BY <2>2 DEF SettledIn, Sees
  <2> QED BY <1>2, <2>1, <2>2 DEF SameIn
<1>3. /\ InsertId(info, r) \in Nat /\ DeleteId(info, r) \in Nat /\ ins[r] \in Nat /\ del[r] \in Nat
  BY IdsTyped, IdFacts, ClockFacts DEF Types
<1>4. SameIn(InsertId(info, r), ins[r], Floors) /\ SameIn(DeleteId(info, r), del[r], Floors)
  BY DEF InsertsSame, DeletesSame
<1> QED BY <1>2, <1>3, <1>4 DEF Fetch

LEMMA RowsThere ==
  ASSUME VersionInv
  PROVE  \A r : r \in 0 .. (row_count - 1) <=> r \in Row /\ r < row_count
  BY IdAssumption DEF VersionInv, Types, Row

LEMMA ShowsWhatIdsShow == VersionInv => VisibilityExact
<1> SUFFICES ASSUME VersionInv, NEW view \in Snapshots, NEW r \in 0 .. (row_count - 1)
             PROVE  Fetch(info, view, r) <=> Sees(view, ins[r]) /\ ~Sees(view, del[r])
  BY DEF VisibilityExact
<1>0. r \in Row /\ r < row_count
  BY RowsThere
<1>1. /\ clock \in Nat /\ NOT_DELETED_ID > clock /\ \A t \in Txn : TransactionId(t) > clock
      /\ NOT_DELETED_ID \in Nat /\ \A t \in Txn : TransactionId(t) \in Nat
  BY ClockFacts, IdFacts DEF VersionInv
<1>2. view.bound \in Floors /\ view.id \in Nat /\ view.id > clock
  <2>1. CASE \E t \in Txn : Active(t) /\ view = View(t)
    BY <1>1, <2>1 DEF View, Floors
  <2>2. CASE ckpt.phase # "none" /\ view = [bound |-> ckpt.bound, id |-> Nobody]
    BY <1>1, <2>2 DEF Floors, Nobody
  <2>3. CASE view = [bound |-> clock, id |-> Nobody]
    BY <1>1, <2>3 DEF Floors, Nobody
  <2> QED BY <2>1, <2>2, <2>3 DEF Snapshots
<1> QED BY <1>0, <1>2, ShowsExactly

LEMMA OwnersKeep == VersionInv => DeletesOwned
<1> SUFFICES ASSUME VersionInv PROVE DeletesOwned
  OBVIOUS
<1> USE DEF VersionInv, Owners
<1>0. /\ clock \in Nat /\ \A t \in Txn : TransactionId(t) > clock /\ TransactionId(t) \in Nat
  BY ClockFacts, IdFacts
<1>1. TypeOK
  <2>1. ending.pos \in 0 .. (MaxUndo + 1)
    <3>1. ending.pos \in Nat /\ MaxUndo \in Nat /\ ending.phase \in Phases
      BY RowVersionAssumption DEF Types
    <3>2. CASE ending.phase = "none"
      BY <3>1, <3>2 DEF Ending, Idle
    <3>3. CASE ending.phase # "none"
      <4>1. ending.txn \in Txn
        BY <3>3 DEF Ending
      <4>2. Len(undo[ending.txn]) \in Nat /\ Len(undo[ending.txn]) <= MaxUndo
        BY <4>1 DEF Types
      <4>3. ending.pos <= Len(undo[ending.txn]) + 1
        BY <3>1, <3>3, <4>2 DEF Ending, Phases
      <4> QED BY <3>1, <4>2, <4>3
    <3> QED BY <3>2, <3>3
  <2>2. /\ info.delete_state \in {"CONSTANT", "MASKED", "ARRAY"}
        /\ info.constant_delete_id \in Id /\ info.mask_delete_id \in Id
        /\ info.deleted \in [Row -> Id] /\ info.inserted \in [Row -> Id]
        /\ info.deleted_mask \subseteq Row
    BY DEF Types, InfoType
  <2> QED BY <2>1, <2>2 DEF TypeOK, Types, Statuses
<1>2. ASSUME NEW r \in Row, r \notin strayed PROVE UndoOwns(r)
  <2> SUFFICES ASSUME NEW t \in Txn, Active(t), ending.txn # t, r \in UndoRows(t)
               PROVE  DeleteId(info, r) = TransactionId(t)
    BY DEF UndoOwns
  <2>1. PICK i \in DOMAIN undo[t] : IsDelete(t, i) /\ r \in Elements(undo[t][i].rows)
    BY UndoRowsAre
  <2>2. Owned(t, i) /\ ~Undone(t, i) /\ ~Written(t, i)
    BY <2>1 DEF OwnedRows, Undone, Written
  <2>3. del[r] = TransactionId(t) /\ r \in Row
    BY <1>2, <2>1, <2>2, EntryFacts DEF Owned, IsDelete
  <2>4. ~SettledIn(del[r], Floors)
    BY <1>0, <2>3, FloorsFacts
  <2> QED BY <2>3, <2>4 DEF DeletesSame, SameIn
<1>3. ASSUME NEW r \in Row, r \notin strayed PROVE DeletedOnce(r)
  <2> SUFFICES ASSUME NEW t \in Txn, status[t] = "committed", r \in UndoRows(t)
               PROVE  DeleteId(info, r) < clock
    BY <1>3 DEF DeletedOnce, CommittedRows
  <2>2. del[r] < clock /\ SameIn(DeleteId(info, r), del[r], Floors)
    BY <1>3 DEF CommittedRows, DeletesSame
  <2>3. clock \in Floors
    BY FloorsFacts
  <2> QED BY <2>2, <2>3 DEF SameIn, SettledIn
<1> QED BY <1>1, <1>2, <1>3 DEF DeletesOwned

\* For every vector size, set of transactions and bounds: no compression,
\* collapse to a constant or a mask, clean-up or conflict changes what a
\* snapshot sees (ChunkVectorInfo::Fetch and the paths that rewrite it).
THEOREM VisibilityIsExact == Spec => []VisibilityExact
  BY VersionCorrect, ShowsWhatIdsShow, PTL

\* For every vector size, set of transactions and bounds: a failing commit or
\* a roll-back, which write ids without looking, give back only rows of their
\* own transaction, and two transactions never both commit the delete of a
\* row (RowVersionManager::DeleteRows and CommitDelete).  This is so for every
\* row but those that a conflict has given back although an earlier call of
\* its transaction had deleted them.
THEOREM DeletesAreOwned == Spec => []DeletesOwned
  BY VersionCorrect, OwnersKeep, PTL

-----------------------------------------------------------------------------
(* What a running transaction sees does not change under it *)

SeenRow(t, r) == r < row_count /\ Sees(View(t), ins[r]) /\ ~Sees(View(t), del[r])
SeesItsRows == \A t \in Txn : Active(t) => VisibleRows(t) = {r \in Row : SeenRow(t, r)}

LEMMA SeesByIds == VersionInv => SeesItsRows
<1> SUFFICES ASSUME VersionInv, NEW t \in Txn, Active(t), NEW r
             PROVE  r \in VisibleRows(t) <=> r \in Row /\ SeenRow(t, r)
  BY DEF SeesItsRows
<1>1. View(t) \in Snapshots
  BY DEF Snapshots
<1>2. VisibilityExact
  BY ShowsWhatIdsShow
<1>3. r \in 0 .. (row_count - 1) <=> r \in Row /\ r < row_count
  BY RowsThere
<1> QED BY <1>1, <1>2, <1>3 DEF VisibilityExact, VisibleRows, SeenRow

\* What no other transaction sees: an id of a running transaction, that of a
\* commit under way, and that of a row nobody deleted.
LEMMA OthersUnseen ==
  ASSUME VersionInv, NEW t \in Txn, Active(t)
  PROVE  /\ ~Sees(View(t), NOT_DELETED_ID)
         /\ \A u \in Txn \ {t} : ~Sees(View(t), TransactionId(u))
         /\ ending.phase \in {"commit", "revert", "abort"} => ~Sees(View(t), clock - 1)
<1>1. /\ clock \in Nat /\ NOT_DELETED_ID > clock /\ \A u \in Txn : TransactionId(u) > clock
      /\ NOT_DELETED_ID \in Nat /\ \A u \in Txn : TransactionId(u) \in Nat
      /\ TransactionId(t) # NOT_DELETED_ID
      /\ \A u \in Txn \ {t} : TransactionId(u) # TransactionId(t)
  BY ClockFacts, IdFacts DEF VersionInv
<1>2. /\ start_time[t] \in Nat /\ start_time[t] <= clock - 1
      /\ ending.phase \in {"commit", "revert", "abort"} => start_time[t] < clock - 1
  BY DEF VersionInv, Types, Bounds
<1>3. \A x : Sees(View(t), x) <=> x < start_time[t] \/ x = TransactionId(t)
  BY DEF Sees, View
<1> HIDE DEF Sees
<1> QED BY <1>1, <1>2, <1>3

\* An entry of the transaction that ends is invisible to t before and after.
LEMMA DeleteEntryUnseen ==
  ASSUME VersionInv, NEW t \in Txn, Active(t), NEW u, u = ending.txn, u \in Txn, u # t,
         NEW i \in DOMAIN undo[u], i = ending.pos, undo[u][i].type = "DELETE_TUPLE",
         ending.phase # "none", NEW r \in Elements(undo[u][i].rows), r \notin strayed
  PROVE  ~Sees(View(t), del[r]) /\ ~Sees(View(t), ending.id)
<1> USE DEF VersionInv, Owners
<1>1. Active(u) /\ IsDelete(u, i) /\ i \in Nat
  BY EntryFacts DEF Ending, IsDelete
<1>2. Owned(u, i)
  BY <1>1 DEF OwnedRows
<1>3. ~Undone(u, i)
  BY <1>1 DEF Undone
<1>4. (del[r] = clock - 1 /\ ending.phase = "revert") \/ del[r] = TransactionId(u)
  BY <1>1, <1>2, <1>3 DEF Owned, Written
<1>5. \/ ending.phase = "commit" /\ ending.id = clock - 1
      \/ ending.id = TransactionId(u) \/ ending.id = NOT_DELETED_ID
  BY DEF Ending, Types, Phases
<1> QED BY <1>4, <1>5, OthersUnseen

LEMMA AppendEntryUnseen ==
  ASSUME VersionInv, NEW t \in Txn, Active(t), NEW u \in Txn, u # t, Active(u),
         NEW i \in DOMAIN undo[u], undo[u][i].type = "INSERT_TUPLE",
         NEW r \in Row, r >= undo[u][i].start, r < row_count
  PROVE  ~Sees(View(t), ins[r]) /\ r \in undo[u][i].start .. (undo[u][i].end - 1)
<1> USE DEF VersionInv, Owners
<1>0. row_count \in Nat /\ r \in Nat
  BY IdAssumption DEF Types, Row
<1>1. AppendState(u, i)
  BY DEF Appending, IsAppend
<1>2. undo[u][i].start \in Nat /\ undo[u][i].end \in Nat
  BY EntryFacts, IdAssumption
<1>3. row_count = undo[u][i].end /\ AppendRows(u, i)
  BY <1>0, <1>1, <1>2 DEF AppendState
<1>4. r \in undo[u][i].start .. (undo[u][i].end - 1)
  BY <1>0, <1>2, <1>3
<1>5. \/ ins[r] = TransactionId(u)
      \/ ins[r] = clock - 1 /\ ending.txn = u /\ ending.phase # "rollback"
  BY <1>3, <1>4 DEF AppendRows
<1>6. ending.txn = u /\ ending.phase # "rollback" => ending.phase \in {"commit", "revert", "abort"}
  <2>1. ending.txn = u => ending.phase # "none"
    <3>1. 0 \notin Txn
      BY RowVersionAssumption
    <3> QED BY <3>1 DEF Ending, Idle
  <2> QED BY <2>1 DEF Types, Phases
<1> QED BY <1>4, <1>5, <1>6, OthersUnseen

\* A step of another transaction leaves what t sees of each row.
SameRows(t) == \A r \in Row : r \notin strayed' => (SeenRow(t, r)' <=> SeenRow(t, r))

LEMMA EntrySame ==
  ASSUME VersionInv, CommitEntry \/ UndoEntry, NEW t \in Txn, Active(t), ending.txn # t
  PROVE  SameRows(t)
<1> USE DEF VersionInv, Owners
<1>1. PICK u : u = ending.txn
  OBVIOUS
<1>2. PICK i : i = ending.pos
  OBVIOUS
<1>3. PICK id : id = ending.id
  OBVIOUS
<1>4. /\ ending.phase # "none" /\ start_time' = start_time /\ strayed' = strayed
      /\ \/ undo[u][i].type = "DELETE_TUPLE" /\ WriteDelete(undo[u][i].rows, id)
         \/ /\ undo[u][i].type = "INSERT_TUPLE" /\ ending.phase = "commit"
            /\ WriteAppend(undo[u][i].start, undo[u][i].end, id)
         \/ undo[u][i].type = "INSERT_TUPLE" /\ RevertAppend(undo[u][i].start)
  BY <1>1, <1>2, <1>3 DEF CommitEntry, UndoEntry
<1>5. u \in Txn /\ Active(u) /\ undo[u] \in Seq(DeleteEntry \cup InsertEntry)
  BY <1>1, <1>4 DEF Ending, Types
<1>6. i \in DOMAIN undo[u]
  <2>1. i \in 1 .. Len(undo[u]) /\ Len(undo[u]) \in Nat
    BY <1>1, <1>2, <1>5 DEF CommitEntry, UndoEntry, Ending
  <2> HIDE DEF DeleteEntry, InsertEntry
  <2> QED BY <1>5, <2>1
<1>7. View(t)' = View(t)
  BY <1>4 DEF View, Sees
<1>8. row_count \in Nat /\ \A r \in Row : r \in Nat
  BY IdAssumption DEF Types, Row
<1> SUFFICES ASSUME NEW r \in Row, r \notin strayed' PROVE SeenRow(t, r)' <=> SeenRow(t, r)
  BY DEF SameRows
<1>9. CASE undo[u][i].type = "DELETE_TUPLE" /\ WriteDelete(undo[u][i].rows, id)
  <2>1. /\ row_count' = row_count /\ ins'[r] = ins[r]
        /\ del'[r] = IF r \in Elements(undo[u][i].rows) THEN id ELSE del[r]
    BY <1>9 DEF WriteDelete
  <2>2. r \in Elements(undo[u][i].rows) => ~Sees(View(t), del[r]) /\ ~Sees(View(t), id)
    BY <1>1, <1>2, <1>3, <1>4, <1>5, <1>6, <1>9, DeleteEntryUnseen
  <2> QED BY <1>7, <2>1, <2>2 DEF SeenRow
<1>10. CASE /\ undo[u][i].type = "INSERT_TUPLE" /\ ending.phase = "commit"
            /\ WriteAppend(undo[u][i].start, undo[u][i].end, id)
  <2>1. /\ row_count' = row_count /\ del'[r] = del[r]
        /\ ins'[r] = IF r \in undo[u][i].start .. (undo[u][i].end - 1) THEN id ELSE ins[r]
    BY <1>10 DEF WriteAppend
  <2>2. ~Sees(View(t), id)
    BY <1>3, <1>10, OthersUnseen DEF Ending
  <2>3. CASE r < row_count /\ r \in undo[u][i].start .. (undo[u][i].end - 1)
    <3>1. undo[u][i].start \in Nat /\ undo[u][i].end \in Nat
      BY <1>5, <1>6, <1>10, EntryFacts, IdAssumption
    <3>2. r >= undo[u][i].start
      BY <1>8, <2>3, <3>1
    <3>3. ~Sees(View(t), ins[r])
      BY <1>1, <1>5, <1>6, <1>10, <2>3, <3>2, AppendEntryUnseen
    <3> QED BY <1>7, <2>1, <2>2, <2>3, <3>3 DEF SeenRow
  <2>4. CASE ~(r < row_count /\ r \in undo[u][i].start .. (undo[u][i].end - 1))
    BY <1>7, <2>1, <2>4 DEF SeenRow
  <2> QED BY <2>3, <2>4
<1>11. CASE undo[u][i].type = "INSERT_TUPLE" /\ RevertAppend(undo[u][i].start)
  <2>1. /\ row_count' = undo[u][i].start /\ del'[r] = del[r]
        /\ ins'[r] = IF r >= undo[u][i].start THEN 0 ELSE ins[r]
    BY <1>11 DEF RevertAppend
  <2>2. undo[u][i].start \in Nat /\ undo[u][i].end \in Nat
    BY <1>5, <1>6, <1>11, EntryFacts, IdAssumption
  <2>3. undo[u][i].start <= row_count
    <3>1. AppendState(u, i)
      BY <1>5, <1>6, <1>11 DEF Appending, IsAppend
    <3> QED BY <1>8, <2>2, <3>1 DEF AppendState
  <2>4. CASE r >= undo[u][i].start
    <3>1. ~SeenRow(t, r)'
      BY <1>8, <2>1, <2>2, <2>4 DEF SeenRow
    <3>2. ~SeenRow(t, r)
      BY <1>1, <1>5, <1>6, <1>11, <2>4, AppendEntryUnseen DEF SeenRow
    <3> QED BY <3>1, <3>2
  <2>5. CASE ~(r >= undo[u][i].start)
    <3>1. r < row_count' /\ r < row_count /\ ins'[r] = ins[r]
      BY <1>8, <2>1, <2>2, <2>3, <2>5
    <3> QED BY <1>7, <2>1, <3>1 DEF SeenRow
  <2> QED BY <2>4, <2>5
<1> QED BY <1>4, <1>9, <1>10, <1>11

LEMMA DeleteSame ==
  ASSUME VersionInv, NEW u \in Txn, NEW rows \in DeleteLists, DeleteRows(u, rows),
         NEW t \in Txn, Active(t), undo'[t] = undo[t]
  PROVE  SameRows(t)
<1>1. PICK dead \in Seq(Row), back \in SUBSET Row :
        /\ \A r \in Elements(dead) : del[r] = NOT_DELETED_ID
        /\ \A r \in Row : del'[r] = IF r \in Elements(dead) THEN TransactionId(u)
                                    ELSE IF r \in back THEN NOT_DELETED_ID ELSE del[r]
        /\ strayed' = strayed \cup back
        /\ \/ undo' = undo /\ Elements(dead) = {}
           \/ undo' = [undo EXCEPT ![u] = Append(@, [type |-> "DELETE_TUPLE", rows |-> dead])]
  BY DeleteRowsFacts
<1>2. row_count' = row_count /\ ins' = ins /\ start_time' = start_time
  BY DEF DeleteRows
<1>3. View(t)' = View(t)
  BY <1>2 DEF View
<1>4. u # t \/ Elements(dead) = {}
  <2> SUFFICES ASSUME u = t,
                      undo' = [undo EXCEPT ![t] = Append(@, [type |-> "DELETE_TUPLE", rows |-> dead])]
               PROVE  FALSE
    BY <1>1
  <2>1. undo[t] \in Seq(DeleteEntry \cup InsertEntry) /\ t \in DOMAIN undo
    BY DEF VersionInv, Types
  <2>2. undo'[t] = Append(undo[t], [type |-> "DELETE_TUPLE", rows |-> dead])
    BY <2>1
  <2>3. PICK e : e = [type |-> "DELETE_TUPLE", rows |-> dead]
    OBVIOUS
  <2>4. undo[t] = Append(undo[t], e)
    BY <2>2, <2>3
  <2>5. Len(Append(undo[t], e)) = Len(undo[t]) + 1 /\ Len(undo[t]) \in Nat
    BY <2>1
  <2> QED BY <2>4, <2>5
<1> SUFFICES ASSUME NEW r \in Row, r \notin strayed' PROVE SeenRow(t, r)' <=> SeenRow(t, r)
  BY DEF SameRows
<1>5. CASE r \in Elements(dead)
  <2>1. del[r] = NOT_DELETED_ID /\ del'[r] = TransactionId(u) /\ u # t
    BY <1>1, <1>4, <1>5
  <2>2. ~Sees(View(t), del[r]) /\ ~Sees(View(t), del'[r])
    BY <2>1, OthersUnseen
  <2> QED BY <1>2, <1>3, <2>2 DEF SeenRow
<1>6. CASE r \notin Elements(dead)
  <2>1. del'[r] = del[r]
    BY <1>1, <1>6
  <2> QED BY <1>2, <1>3, <2>1 DEF SeenRow
<1> QED BY <1>5, <1>6

LEMMA AppendSame ==
  ASSUME VersionInv, NEW u \in Txn, NEW n \in 1 .. VectorSize, AppendVersionInfo(u, n),
         NEW t \in Txn, Active(t), undo'[t] = undo[t]
  PROVE  SameRows(t)
<1>1. PICK e : e = [type |-> "INSERT_TUPLE", start |-> row_count, end |-> row_count + n]
  OBVIOUS
<1>2. /\ row_count' = row_count + n /\ del' = del /\ start_time' = start_time
      /\ ins' = [r \in Row |-> IF r \in row_count .. ((row_count + n) - 1)
                               THEN TransactionId(u) ELSE ins[r]]
      /\ undo' = [undo EXCEPT ![u] = Append(@, e)]
  BY <1>1 DEF AppendVersionInfo
<1>3. View(t)' = View(t)
  BY <1>2 DEF View
<1>4. u # t
  <2> SUFFICES ASSUME u = t PROVE FALSE
    OBVIOUS
  <2>1. undo[t] \in Seq(DeleteEntry \cup InsertEntry) /\ t \in DOMAIN undo
    BY DEF VersionInv, Types
  <2>2. undo[t] = Append(undo[t], e)
    BY <1>2, <2>1
  <2>3. Len(Append(undo[t], e)) = Len(undo[t]) + 1 /\ Len(undo[t]) \in Nat
    BY <2>1
  <2> QED BY <2>2, <2>3
<1>5. row_count \in Nat /\ n \in Nat /\ \A r \in Row : r \in Nat
  BY IdAssumption DEF VersionInv, Types, Row
<1> SUFFICES ASSUME NEW r \in Row, r \notin strayed' PROVE SeenRow(t, r)' <=> SeenRow(t, r)
  BY DEF SameRows
<1>6. CASE r \in row_count .. ((row_count + n) - 1)
  <2>1. ins'[r] = TransactionId(u) /\ ~(r < row_count)
    BY <1>2, <1>5, <1>6
  <2>2. ~Sees(View(t), ins'[r])
    BY <1>4, <2>1, OthersUnseen
  <2> QED BY <1>3, <2>1, <2>2 DEF SeenRow
<1>7. CASE r \notin row_count .. ((row_count + n) - 1)
  <2>1. ins'[r] = ins[r] /\ del'[r] = del[r]
    BY <1>2, <1>7
  <2>2. r < row_count' <=> r < row_count
    BY <1>2, <1>5, <1>7
  <2> QED BY <1>3, <2>1, <2>2 DEF SeenRow
<1> QED BY <1>6, <1>7

\* Steps that touch no row.
LEMMA RestSame ==
  ASSUME UNCHANGED <<row_count, ins, del>>, NEW t \in Txn, start_time'[t] = start_time[t]
  PROVE  SameRows(t)
  BY DEF SameRows, SeenRow, View

LEMMA StepKeepsSeen ==
  ASSUME VersionInv, [Next]_vars, NEW t \in Txn, Active(t), ending.txn # t,
         undo'[t] = undo[t]
  PROVE  SameRows(t)
<1>0. start_time \in [Txn -> Nat]
  BY DEF VersionInv, Types
<1>1. CASE UNCHANGED vars
  BY <1>1, RestSame DEF vars
<1>2. ASSUME NEW u \in Txn, StartTransaction(u) PROVE SameRows(t)
  <2>1. u # t
    BY <1>2 DEF StartTransaction, Active
  <2>2. start_time'[t] = start_time[t]
    BY <1>0, <1>2, <2>1 DEF StartTransaction
  <2> QED BY <1>2, <2>2, RestSame DEF StartTransaction
<1>3. ASSUME NEW u \in Txn,
             CommitTransaction(u) \/ RollbackTransaction(u) \/ CleanupAppend(u)
      PROVE  SameRows(t)
  BY <1>3, RestSame DEF CommitTransaction, RollbackTransaction, CleanupAppend
<1>4. CASE CommitFails \/ RevertDone
  BY <1>4, RestSame DEF CommitFails, RevertDone
<1>5. CASE CommitDone \/ RollbackDone
  <2>1. start_time'[t] = start_time[t]
    BY <1>0, <1>5 DEF CommitDone, RollbackDone
  <2> QED BY <1>5, <2>1, RestSame DEF CommitDone, RollbackDone
<1>6. CASE Checkpoint
  BY <1>6, RestSame DEF Checkpoint, CheckpointStart, CheckpointReadBound, CheckpointCompress,
                        CheckpointDeletes, CheckpointDone
<1>7. ASSUME NEW u \in Txn,
             \/ \E rows \in DeleteLists : DeleteRows(u, rows)
             \/ \E n \in 1 .. VectorSize : AppendVersionInfo(u, n)
      PROVE  SameRows(t)
  BY <1>7, DeleteSame, AppendSame
<1>8. CASE CommitEntry \/ UndoEntry
  BY <1>8, EntrySame
<1> QED BY <1>1, <1>2, <1>3, <1>4, <1>5, <1>6, <1>7, <1>8 DEF Next

\* For every vector size, set of transactions and bounds: deletes, appends,
\* commits, failing commits and roll-backs of others, clean-up and compression
\* never change the rows a running transaction sees, rows in strayed apart.
THEOREM SnapshotsAreStable == Spec => SnapshotStable
<1>1. ASSUME VersionInv, SeesItsRows, SeesItsRows', [Next]_vars
      PROVE  SnapshotStableStep
  <2> SUFFICES ASSUME NEW t \in Txn, Active(t), Active(t)', ending.txn # t, undo'[t] = undo[t]
               PROVE  VisibleRows(t)' \ strayed' = VisibleRows(t) \ strayed'
    BY DEF SnapshotStableStep
  <2>1. SameRows(t)
    BY <1>1, StepKeepsSeen
  <2>2. /\ VisibleRows(t) = {r \in Row : SeenRow(t, r)}
        /\ VisibleRows(t)' = {r \in Row : SeenRow(t, r)'}
    BY <1>1 DEF SeesItsRows
  <2> QED BY <2>1, <2>2 DEF SameRows
<1>2. SnapshotStable <=> [][SnapshotStableStep]_vars
  BY DEF SnapshotStable
<1> QED BY <1>1, <1>2, VersionCorrect, SeesByIds, PTL DEF Spec

-----------------------------------------------------------------------------
(* What is stored: the inductive invariant, on top of VersionInv *)

\* A load would find the row deleted.
OnDisk(r) == DeleteId(Read(disk), r) = 0

\* What the watermarks are about: the last write stored the row as deleted
\* because it was, not because it was not there.
Known(r) == OnDisk(r) /\ r \notin ghosts
Kept(r) == r \notin strayed

Watermarks ==
  /\ oldest = {} \/ \E x \in Id : oldest = {x}
  /\ newest = {} \/ \E x \in Id : newest = {x}

\* A vector without version information has no deletes.
AbsentAlive == ~info.present => \A r \in Row : DeleteId(info, r) = NOT_DELETED_ID

\* A checkpoint sees every row that is there: no append is under way.
RowsSettled ==
  ckpt.phase # "none" => \A r \in Row : r < row_count => ins[r] < ckpt.bound

Committing == ending.phase \in {"commit", "revert", "abort"}

\* A checkpoint that runs beside a commit took its bound before.
CheckpointFirst == Committing /\ ckpt.phase # "none" => ckpt.bound < clock - 1

\* What is on disk is deleted for the checkpoint under way and all later
\* ones, and is not being committed or reverted.
StoredSettled ==
  \A r \in Row : Kept(r) /\ Known(r) =>
    /\ del[r] < clock
    /\ Committing => del[r] < clock - 1
    /\ ckpt.phase # "none" => del[r] < ckpt.bound

\* A committed delete that is not on disk lies between the watermarks.
Pending ==
  \A r \in Row : Kept(r) /\ ~Known(r) /\ del[r] < TRANSACTION_ID_START =>
    /\ \E o \in oldest : o <= del[r]
    /\ \E n \in newest : del[r] <= n

\* The checkpoint has stored what is below its bound.
Stored ==
  ckpt.phase = "written" => \A r \in Row : Kept(r) /\ ~Known(r) => ~(del[r] < ckpt.bound)

DiskInv ==
  /\ Watermarks /\ AbsentAlive /\ RowsSettled /\ CheckpointFirst
  /\ StoredSettled /\ Pending /\ Stored

-----------------------------------------------------------------------------
(* Operators that keep an info present *)

LEMMA DeletePresent ==
  ASSUME NEW i \in InfoType, NEW tid, NEW rows
  PROVE  Delete(i, tid, rows).info.present = i.present
<1>1. \A ids : ArrayDeletes(i, ids).present = i.present
  BY DEF ArrayDeletes, InfoType
<1>2. ArrayDelete(i, tid, rows).info.present = i.present
  BY <1>1 DEF ArrayDelete, DeleteOutcome
<1> HIDE DEF ArrayDelete
<1> DEFINE constant == i.delete_state = "CONSTANT"
           id == i.constant_delete_id
<1>3. CASE constant /\ id = tid
  <2>1. Delete(i, tid, rows) = DeleteOutcome(i, FALSE, << >>)
    BY <1>3 DEF Delete, Conflicts
  <2> QED BY <2>1 DEF DeleteOutcome
<1>4. CASE constant /\ Conflicts(id, tid)
  <2>1. Delete(i, tid, rows) = DeleteOutcome(i, TRUE, << >>)
    BY <1>4 DEF Delete, Conflicts
  <2> QED BY <2>1 DEF DeleteOutcome
<1>5. CASE constant /\ id # tid /\ ~Conflicts(id, tid) /\ CoversVector(rows)
  <2>1. Delete(i, tid, rows) = DeleteOutcome([i EXCEPT !.constant_delete_id = tid], FALSE, rows)
    BY <1>5 DEF Delete
  <2> QED BY <2>1 DEF DeleteOutcome, InfoType
<1>6. CASE ~constant \/ (id # tid /\ ~Conflicts(id, tid) /\ ~CoversVector(rows))
  <2>1. Delete(i, tid, rows) = ArrayDelete(i, tid, rows)
    BY <1>6 DEF Delete
  <2> QED BY <1>2, <2>1
<1> QED BY <1>3, <1>4, <1>5, <1>6

LEMMA CommitDeletePresent ==
  ASSUME NEW i \in InfoType, NEW x, NEW rows
  PROVE  CommitDelete(i, x, rows).present = i.present
<1>1. \A ids : ArrayDeletes(i, ids).present = i.present
  BY DEF ArrayDeletes, InfoType
<1>2. /\ ConstantDeletes(i, x).present = i.present
      /\ [ConstantDeletes(i, x) EXCEPT !.recheck = TRUE].present = i.present
  BY DEF ConstantDeletes, InfoType
<1>3. CASE CoversVector(rows)
  BY <1>2, <1>3 DEF CommitDelete
<1>4. CASE ~CoversVector(rows) /\ i.delete_state = "CONSTANT" /\ i.constant_delete_id = x
  BY <1>4 DEF CommitDelete
<1>5. CASE ~CoversVector(rows) /\ ~(i.delete_state = "CONSTANT" /\ i.constant_delete_id = x)
  <2> DEFINE ids == [r \in Row |-> IF r \in Elements(rows) THEN x ELSE DeleteId(i, r)]
  <2>1. CommitDelete(i, x, rows) = IF \A r \in Row : ids[r] = x
                                   THEN [ConstantDeletes(i, x) EXCEPT !.recheck = TRUE]
                                   ELSE ArrayDeletes(i, ids)
    BY <1>5 DEF CommitDelete
  <2> HIDE DEF ids
  <2> QED BY <1>1, <1>2, <2>1
<1> QED BY <1>3, <1>4, <1>5

LEMMA CompressPresent ==
  ASSUME NEW i \in InfoType, NEW bound
  PROVE  CompressVersionIds(i, bound).present = i.present
<1> DEFINE d == CompressDeletes(i, bound)
           c == CompressInserts(d, bound)
<1>1. /\ \A x : ConstantDeletes(i, x).present = i.present
      /\ \A x : MaskedDeletes(i, x).present = i.present
  BY DEF ConstantDeletes, MaskedDeletes, InfoType
<1>2. d = i \/ (\E x : d = ConstantDeletes(i, x)) \/ (\E x : d = MaskedDeletes(i, x))
  <2>1. CASE i.delete_state # "ARRAY"
    BY <2>1 DEF CompressDeletes
  <2>2. CASE i.delete_state = "ARRAY" /\ DeadRows(i) = Row
    BY <2>2 DEF CompressDeletes
  <2>3. CASE i.delete_state = "ARRAY" /\ DeadRows(i) # Row
    BY <2>3 DEF CompressDeletes
  <2> QED BY <2>1, <2>2, <2>3
<1>3. d.present = i.present /\ d = [d EXCEPT !.recheck = d.recheck]
  BY <1>1, <1>2 DEF ConstantDeletes, MaskedDeletes, InfoType
<1>4. DOMAIN d = DOMAIN i
  BY <1>2 DEF ConstantDeletes, MaskedDeletes
<1>5. DOMAIN i = {"present", "delete_state", "constant_delete_id", "deleted_mask", "mask_delete_id",
                  "deleted", "constant_insert", "constant_insert_id", "inserted", "recheck"}
  BY DEF InfoType
<1> HIDE DEF d
<1>6. c.present = i.present /\ DOMAIN c = DOMAIN i
  BY <1>3, <1>4, <1>5 DEF CompressInserts
<1>7. CompressVersionIds(i, bound) = IF i.recheck THEN [c EXCEPT !.recheck = CompressionPending(c)]
                                     ELSE i
  BY DEF CompressVersionIds, d
<1> HIDE DEF c
<1> QED BY <1>5, <1>6, <1>7

LEMMA AppendPresent ==
  ASSUME NEW i \in InfoType, NEW start, NEW end, NEW tid
  PROVE  AppendIds(i, start, end, tid).present = i.present
<1>1. CASE start = 0
  BY <1>1 DEF AppendIds, InfoType
<1>2. CASE start # 0 /\ i.constant_insert /\ i.constant_insert_id = tid
  BY <1>2 DEF AppendIds
<1>3. CASE start # 0 /\ ~(i.constant_insert /\ i.constant_insert_id = tid)
  <2>1. PICK new : new = [r \in Row |-> IF r \in start .. (end - 1) THEN tid ELSE InsertId(i, r)]
    OBVIOUS
  <2>2. AppendIds(i, start, end, tid)
          = [i EXCEPT !.constant_insert = FALSE, !.inserted = new, !.recheck = TRUE]
    BY <1>3, <2>1 DEF AppendIds
  <2> QED BY <2>2 DEF InfoType
<1> QED BY <1>1, <1>2, <1>3

\* CommitAppend changes neither presence nor delete ids.
LEMMA CommitAppendPresent ==
  ASSUME NEW i \in InfoType, NEW start, NEW end, NEW x
  PROVE  /\ CommitAppend(i, x, start, end).present = i.present
         /\ \A r \in Row : DeleteId(CommitAppend(i, x, start, end), r) = DeleteId(i, r)
<1>1. PICK new : new = [r \in Row |-> IF r \in start .. (end - 1) THEN x ELSE i.inserted[r]]
  OBVIOUS
<1>2. CommitAppend(i, x, start, end) = IF i.constant_insert THEN [i EXCEPT !.constant_insert_id = x]
                                       ELSE [i EXCEPT !.inserted = new, !.recheck = TRUE]
  BY <1>1 DEF CommitAppend
<1> QED BY <1>2 DEF InfoType, DeleteId

-----------------------------------------------------------------------------
(* What a load finds *)

LEMMA EmptyIsAlive ==
  \A r \in Row : DeleteId(Read([type |-> "EMPTY_INFO", mask |-> {}]), r) # 0
<1>1. Read([type |-> "EMPTY_INFO", mask |-> {}]) = NoInfo
  BY DEF Read
<1> QED BY <1>1, NoInfoIds, IdAssumption

\* Write and Read: the rows that the bound does not see are found deleted.
LEMMA WriteIs ==
  ASSUME NEW i \in InfoType, NEW bound \in Nat, NEW r \in Row
  PROVE  DeleteId(Read(Write(i, bound)), r) = 0
         <=> ~(InsertId(i, r) < bound /\ ~(DeleteId(i, r) < bound))
<1> DEFINE visible == {s \in Row : InsertId(i, s) < bound /\ ~(DeleteId(i, s) < bound)}
<1>1. r \in visible <=> InsertId(i, r) < bound /\ ~(DeleteId(i, r) < bound)
  OBVIOUS
<1>2. /\ visible = Row => Write(i, bound) = [type |-> "EMPTY_INFO", mask |-> {}]
      /\ visible = {} => Write(i, bound) = [type |-> "CONSTANT_INFO", mask |-> {}]
      /\ visible # Row /\ visible # {} =>
           Write(i, bound) = [type |-> "VECTOR_INFO", mask |-> Row \ visible]
  BY DEF Write
<1> HIDE DEF visible
<1>3. CASE visible = Row
  BY <1>1, <1>2, <1>3, EmptyIsAlive
<1>4. CASE visible = {}
  <2>1. Read(Write(i, bound)) = [NewInfo(0, 0) EXCEPT !.recheck = FALSE]
    BY <1>2, <1>4 DEF Read
  <2>2. DeleteId(Read(Write(i, bound)), r) = 0
    BY <2>1 DEF NewInfo, DeleteId
  <2> QED BY <1>1, <1>4, <2>2
<1>5. CASE visible # Row /\ visible # {}
  <2>1. Read(Write(i, bound)) = [NewInfo(0, NOT_DELETED_ID) EXCEPT !.delete_state = "MASKED",
                                   !.deleted_mask = Row \ visible, !.recheck = FALSE]
    <3>1. PICK w : w = Write(i, bound)
      OBVIOUS
    <3>2. w.type = "VECTOR_INFO" /\ w.mask = Row \ visible
      BY <1>2, <1>5, <3>1
    <3>3. Read(w) = [NewInfo(0, NOT_DELETED_ID) EXCEPT !.delete_state = "MASKED",
                       !.deleted_mask = w.mask, !.recheck = FALSE]
      BY <3>2 DEF Read
    <3> QED BY <3>1, <3>2, <3>3
  <2>2. DeleteId(Read(Write(i, bound)), r) = IF r \in Row \ visible THEN 0 ELSE NOT_DELETED_ID
    BY <2>1 DEF NewInfo, DeleteId
  <2> QED BY <1>1, <2>2, IdAssumption
<1> QED BY <1>3, <1>4, <1>5

\* Without deletes below the bound nothing has to be written.
LEMMA HasDeletesIs ==
  ASSUME NEW i \in InfoType, NEW bound \in Nat, bound <= NOT_DELETED_ID, ~HasDeletes(i, bound)
  PROVE  \A r \in Row : ~(DeleteId(i, r) < bound)
<1>1. CASE AnyDeleted(i)
  BY <1>1 DEF HasDeletes
<1>2. CASE ~AnyDeleted(i)
  <2>1. \A r \in Row : DeleteId(i, r) = NOT_DELETED_ID
    BY <1>2 DEF AnyDeleted, DeleteId
  <2> QED BY <2>1, IdAssumption
<1> QED BY <1>1, <1>2

-----------------------------------------------------------------------------
(* Steps that delete nothing and store nothing *)

\* Of the end of transactions and of the checkpoint: what a step may do.
Orderly ==
  /\ clock' = clock \/ clock' = clock + 1
  /\ Committing' => (Committing /\ clock' = clock) \/ clock' = clock + 1
  /\ ckpt'.phase # "none" => \/ ckpt.phase # "none" /\ ckpt'.bound = ckpt.bound
                             \/ ckpt'.bound = clock /\ ~Committing'

LEMMA StillSettled ==
  ASSUME VersionInv, DiskInv, Orderly
  PROVE  /\ CheckpointFirst'
         /\ \A r \in Row : Kept(r) /\ Known(r) =>
              /\ del[r] < clock'
              /\ Committing' => del[r] < clock' - 1
              /\ ckpt'.phase # "none" => del[r] < ckpt'.bound
<1>1. /\ clock \in Nat /\ \A r \in Row : del[r] \in Nat
  BY ClockFacts DEF VersionInv
<1>2. ckpt.phase # "none" => ckpt.bound \in Nat /\ ckpt.bound <= clock - 1
  BY <1>1 DEF VersionInv, Bounds
<1>3. CheckpointFirst'
  BY <1>1, <1>2 DEF Orderly, DiskInv, CheckpointFirst
<1>4. ASSUME NEW r \in Row, Kept(r), Known(r)
      PROVE  /\ del[r] < clock'
             /\ Committing' => del[r] < clock' - 1
             /\ ckpt'.phase # "none" => del[r] < ckpt'.bound
  <2>1. /\ del[r] < clock
        /\ Committing => del[r] < clock - 1
        /\ ckpt.phase # "none" => del[r] < ckpt.bound
    BY <1>4 DEF DiskInv, StoredSettled
  <2>3. del[r] < clock'
    BY <1>1, <2>1 DEF Orderly
  <2>4. Committing' => del[r] < clock' - 1
    BY <1>1, <2>1 DEF Orderly
  <2>5. ckpt'.phase # "none" => del[r] < ckpt'.bound
    BY <2>1 DEF Orderly
  <2> QED BY <2>3, <2>4, <2>5
<1> QED BY <1>3, <1>4

LEMMA DiskPassing ==
  ASSUME VersionInv, DiskInv, UNCHANGED <<del, oldest, newest, disk, strayed, ghosts>>, Orderly,
         ckpt'.phase = "written" => ckpt.phase = "written" /\ ckpt'.bound = ckpt.bound
  PROVE  Watermarks' /\ CheckpointFirst' /\ StoredSettled' /\ Pending' /\ Stored'
<1>1. CheckpointFirst' /\ StoredSettled'
  BY StillSettled DEF StoredSettled, Known, OnDisk, Kept
<1>2. Watermarks' /\ Pending' /\ Stored'
  BY DEF DiskInv, Watermarks, Pending, Stored, Known, OnDisk, Kept
<1> QED BY <1>1, <1>2

LEMMA RowsKept ==
  ASSUME DiskInv, UNCHANGED <<row_count, ins>>,
         ckpt'.phase # "none" => ckpt.phase # "none" /\ ckpt'.bound = ckpt.bound
  PROVE  RowsSettled'
  BY DEF DiskInv, RowsSettled

LEMMA StartDisk ==
  ASSUME VersionInv, DiskInv, NEW t \in Txn, StartTransaction(t)
  PROVE  DiskInv'
<1>1. clock \in Nat
  BY ClockFacts DEF VersionInv
<1>2. /\ ending' = ending /\ ending = Idle /\ clock' = clock + 1
      /\ UNCHANGED <<info, row_count, undo, oldest, newest, ckpt, disk, ins, del, strayed, ghosts>>
  BY DEF StartTransaction
<1>3. Orderly
  BY <1>1, <1>2 DEF Orderly, Committing, Idle
<1>4. AbsentAlive' /\ RowsSettled'
  BY <1>2, RowsKept DEF DiskInv, AbsentAlive
<1> QED BY <1>2, <1>3, <1>4, DiskPassing DEF DiskInv

LEMMA CommitTransactionDisk ==
  ASSUME VersionInv, DiskInv, NEW t \in Txn, CommitTransaction(t)
  PROVE  DiskInv'
<1>1. clock \in Nat
  BY ClockFacts DEF VersionInv
<1>2. /\ clock' = clock + 1
      /\ UNCHANGED <<info, row_count, undo, oldest, newest, ckpt, disk, ins, del, strayed, ghosts>>
  BY DEF CommitTransaction
<1>3. Orderly
  BY <1>1, <1>2 DEF Orderly
<1>4. AbsentAlive' /\ RowsSettled'
  BY <1>2, RowsKept DEF DiskInv, AbsentAlive
<1> QED BY <1>2, <1>3, <1>4, DiskPassing DEF DiskInv

\* Steps of an ending transaction between its undo entries.
LEMMA EndingDisk ==
  ASSUME VersionInv, DiskInv,
         \/ \E t \in Txn : RollbackTransaction(t)
         \/ CommitFails \/ RevertDone \/ CommitDone
  PROVE  DiskInv'
<1>1. clock \in Nat
  BY ClockFacts DEF VersionInv
<1>2. UNCHANGED <<info, row_count, clock, undo, oldest, newest, ckpt, disk, ins, del, strayed, ghosts>>
  BY DEF RollbackTransaction, CommitFails, RevertDone, CommitDone
<1>3. Committing' => Committing
  <2>1. ending \in [txn : Txn \cup {0}, phase : Phases, pos : Nat, id : Id]
    BY DEF VersionInv, Types
  <2> QED BY <2>1 DEF RollbackTransaction, CommitFails, RevertDone, CommitDone, Committing, Idle
<1>4. Orderly
  BY <1>1, <1>2, <1>3 DEF Orderly
<1>5. AbsentAlive' /\ RowsSettled'
  BY <1>2, RowsKept DEF DiskInv, AbsentAlive
<1> QED BY <1>2, <1>4, <1>5, DiskPassing DEF DiskInv

LEMMA RollbackDoneDisk ==
  ASSUME VersionInv, DiskInv, RollbackDone
  PROVE  DiskInv'
<1>1. clock \in Nat
  BY ClockFacts DEF VersionInv
<1>3. /\ ending' = Idle
      /\ UNCHANGED <<info, row_count, clock, oldest, newest, ckpt, disk, ins, del, strayed, ghosts>>
  BY DEF RollbackDone
<1>5. Orderly
  BY <1>1, <1>3 DEF Orderly, Committing, Idle
<1>6. RowsSettled' /\ AbsentAlive'
  BY <1>3, RowsKept DEF DiskInv, AbsentAlive
<1> QED BY <1>3, <1>5, <1>6, DiskPassing DEF DiskInv

LEMMA CleanupDisk ==
  ASSUME VersionInv, DiskInv, NEW t \in Txn, CleanupAppend(t)
  PROVE  DiskInv'
<1>1. clock \in Nat
  BY ClockFacts DEF VersionInv
<1>2. /\ UNCHANGED <<row_count, clock, undo, ending, oldest, newest, ckpt, disk, ins, del, strayed, ghosts>>
      /\ info' = info \/ info' = NoInfo
  BY DEF CleanupAppend
<1>3. Orderly
  BY <1>1, <1>2 DEF Orderly, Committing
<1>4. AbsentAlive' /\ RowsSettled'
  BY <1>2, RowsKept, NoInfoIds DEF DiskInv, AbsentAlive
<1> QED BY <1>2, <1>3, <1>4, DiskPassing DEF DiskInv

LEMMA CheckpointDisk ==
  ASSUME VersionInv, DiskInv,
         CheckpointStart \/ CheckpointReadBound \/ CheckpointCompress \/ CheckpointDone
  PROVE  DiskInv'
<1>1. clock \in Nat /\ info \in InfoType
      /\ ckpt \in [phase : {"none", "started", "read", "compressed", "written"}, bound : Nat, lowest : Nat]
  BY ClockFacts DEF VersionInv, Types
<1>2. UNCHANGED <<row_count, undo, ending, oldest, newest, disk, ins, del, strayed, ghosts>>
  BY DEF CheckpointStart, CheckpointReadBound, CheckpointCompress, CheckpointDone
<1>3. Orderly /\ ckpt'.phase # "written" /\ RowsSettled'
  <2>1. CASE CheckpointStart
    <3>1. ending' = Idle /\ clock' = clock + 1 /\ ckpt' = [phase |-> "started", bound |-> clock, lowest |-> 0]
      BY <2>1 DEF CheckpointStart
    <3>2. ~Committing'
      BY <3>1 DEF Committing, Idle
    <3>3. ckpt'.phase = "started" /\ ckpt'.bound = clock
      BY <3>1
    <3>4. \A r \in Row : r < row_count => ins[r] < clock
      <4> SUFFICES ASSUME NEW r \in Row, r < row_count PROVE ins[r] < clock
        OBVIOUS
      <4>1. row_count \in Nat /\ r \in Nat
        BY IdAssumption DEF VersionInv, Types, Row
      <4>2. \A u \in Txn : Active(u) => ~FlushedAppend(u)
        BY <2>1 DEF CheckpointStart
      <4>3. ~Fresh(r)
        BY <4>1, <4>2 DEF Fresh, FlushedAppend, IsAppend
      <4> QED BY <4>3 DEF VersionInv, Inserted
    <3>5. RowsSettled'
      BY <1>2, <3>3, <3>4 DEF RowsSettled
    <3> QED BY <1>1, <3>1, <3>2, <3>3, <3>5 DEF Orderly
  <2>2. CASE CheckpointReadBound \/ CheckpointCompress
    <3>1. clock' = clock /\ ckpt.phase # "none" /\ ckpt'.bound = ckpt.bound /\ ckpt'.phase # "written"
      BY <1>1, <2>2 DEF CheckpointReadBound, CheckpointCompress
    <3> QED BY <1>1, <1>2, <3>1, RowsKept DEF Orderly, Committing
  <2>3. CASE CheckpointDone
    <3>1. clock' = clock /\ ckpt'.phase = "none"
      BY <2>3 DEF CheckpointDone, NoCheckpoint
    <3> QED BY <1>1, <1>2, <3>1 DEF Orderly, Committing, RowsSettled
  <2> QED BY <2>1, <2>2, <2>3
<1>5. AbsentAlive'
  <2>1. CASE CheckpointCompress
    <3>1. info' = info \/ (info' = CompressVersionIds(info, ckpt.lowest) /\ info.present)
      BY <2>1 DEF CheckpointCompress
    <3>2. CompressVersionIds(info, ckpt.lowest).present = info.present
      BY <1>1, CompressPresent
    <3> QED BY <3>1, <3>2 DEF DiskInv, AbsentAlive
  <2>2. CASE ~CheckpointCompress
    <3>1. info' = info
      BY <2>2 DEF CheckpointStart, CheckpointReadBound, CheckpointDone
    <3> QED BY <3>1 DEF DiskInv, AbsentAlive
  <2> QED BY <2>1, <2>2
<1> QED BY <1>2, <1>3, <1>5, DiskPassing DEF DiskInv

LEMMA AppendDisk ==
  ASSUME VersionInv, DiskInv, NEW t \in Txn, NEW n \in 1 .. VectorSize, AppendVersionInfo(t, n)
  PROVE  DiskInv'
<1>1. clock \in Nat /\ info \in InfoType
  BY ClockFacts DEF VersionInv, Types
<1>3. /\ UNCHANGED <<clock, ending, oldest, newest, ckpt, disk, del, strayed, ghosts>>
      /\ ckpt.phase = "none"
      /\ info' = IF row_count = 0 /\ row_count + n = VectorSize
                 THEN NewInfo(TransactionId(t), NOT_DELETED_ID)
                 ELSE AppendIds(Present(info), row_count, row_count + n, TransactionId(t))
  BY DEF AppendVersionInfo, AppendRequiresNewRowGroup
<1>4. Orderly
  BY <1>1, <1>3 DEF Orderly, Committing
<1>5. info'.present
  <2>1. Present(info).present /\ Present(info) \in InfoType
    BY <1>1, PresentSame DEF Present, InfoType
  <2>2. AppendIds(Present(info), row_count, row_count + n, TransactionId(t)).present
    BY <2>1, AppendPresent
  <2>3. NewInfo(TransactionId(t), NOT_DELETED_ID).present
    BY DEF NewInfo
  <2> QED BY <1>3, <2>2, <2>3
<1>6. RowsSettled'
  BY <1>3 DEF RowsSettled
<1> QED BY <1>3, <1>4, <1>5, <1>6, DiskPassing DEF DiskInv, AbsentAlive

-----------------------------------------------------------------------------
(* Deletes *)

LEMMA WatermarksMove ==
  ASSUME Watermarks, NEW x \in Id, oldest' = Oldest(oldest, x), newest' = Newest(newest, x)
  PROVE  /\ Watermarks'
         /\ \E o \in oldest' : o <= x
         /\ \E n \in newest' : x <= n
         /\ \A y \in Nat : (\E o \in oldest : o <= y) => \E o \in oldest' : o <= y
         /\ \A y \in Nat : (\E n \in newest : y <= n) => \E n \in newest' : y <= n
<1>1. Id \subseteq Nat
  BY IdFacts
<1>2. /\ oldest' = {} \/ \E o \in Id : oldest' = {o}
      /\ \E o \in oldest' : o <= x
      /\ \A y \in Nat : (\E o \in oldest : o <= y) => \E o \in oldest' : o <= y
  <2>1. CASE oldest = {}
    BY <1>1, <2>1 DEF Oldest
  <2>2. CASE \E o \in Id : oldest = {o}
    <3>1. PICK o \in Id : oldest = {o}
      BY <2>2
    <3>2. oldest' = IF x < o THEN {x} ELSE {o}
      BY <3>1 DEF Oldest
    <3>3. o \in Nat /\ x \in Nat
      BY <1>1
    <3> QED BY <3>1, <3>2, <3>3
  <2> QED BY <2>1, <2>2 DEF Watermarks
<1>3. /\ newest' = {} \/ \E n \in Id : newest' = {n}
      /\ \E n \in newest' : x <= n
      /\ \A y \in Nat : (\E n \in newest : y <= n) => \E n \in newest' : y <= n
  <2>1. CASE newest = {}
    BY <1>1, <2>1 DEF Newest
  <2>2. CASE \E n \in Id : newest = {n}
    <3>1. PICK n \in Id : newest = {n}
      BY <2>2
    <3>2. newest' = IF x > n THEN {x} ELSE {n}
      BY <3>1 DEF Newest
    <3>3. n \in Nat /\ x \in Nat
      BY <1>1
    <3> QED BY <3>1, <3>2, <3>3
  <2> QED BY <2>1, <2>2 DEF Watermarks
<1> QED BY <1>2, <1>3 DEF Watermarks

\* Rows that are not on disk get the id of a running transaction or of the
\* commit under way, and the watermarks follow a commit.
LEMMA DiskDeletes ==
  ASSUME VersionInv, DiskInv, UNCHANGED <<disk, ghosts, ckpt, clock>>,
         Committing' <=> Committing, NEW dead \in SUBSET Row, NEW x \in Id,
         strayed \subseteq strayed',
         \A r \in Row : r \notin strayed' => del'[r] = IF r \in dead THEN x ELSE del[r],
         \A r \in dead : Kept(r) => ~Known(r),
         x >= TRANSACTION_ID_START \/ (x = clock - 1 /\ Committing),
         \A y \in Nat : (\E o \in oldest : o <= y) => \E o \in oldest' : o <= y,
         \A y \in Nat : (\E n \in newest : y <= n) => \E n \in newest' : y <= n,
         x < TRANSACTION_ID_START => (\E o \in oldest' : o <= x) /\ (\E n \in newest' : x <= n)
  PROVE  CheckpointFirst' /\ StoredSettled' /\ Pending' /\ Stored'
<1>1. /\ clock \in Nat /\ clock < TRANSACTION_ID_START /\ TRANSACTION_ID_START \in Nat
      /\ \A r \in Row : del[r] \in Nat
  BY ClockFacts, IdAssumption DEF VersionInv
<1>2. x \in Nat
  BY IdFacts
<1>3. Orderly
  BY DEF Orderly
<1>4. \A r \in Row : (Known(r)' <=> Known(r)) /\ (Kept(r)' => Kept(r))
  BY DEF Known, OnDisk, Kept
<1>5. \A r \in Row : Kept(r)' => del'[r] = IF r \in dead THEN x ELSE del[r]
  BY DEF Kept
<1>6. CheckpointFirst' /\ StoredSettled'
  BY <1>3, <1>4, <1>5, StillSettled DEF StoredSettled
<1>7. Pending'
  BY <1>1, <1>2, <1>4, <1>5 DEF DiskInv, Pending
<1>8. Stored'
  <2> SUFFICES ASSUME ckpt.phase = "written", NEW r \in Row, Kept(r)', ~Known(r)
               PROVE  ~(del'[r] < ckpt.bound)
    BY <1>4 DEF Stored
  <2>1. CASE r \notin dead
    BY <1>4, <1>5, <2>1 DEF DiskInv, Stored
  <2>2. CASE r \in dead
    <3>1. ckpt.bound \in Nat /\ ckpt.bound <= clock - 1
      BY <1>1 DEF VersionInv, Bounds
    <3>2. Committing => ckpt.bound < clock - 1
      BY DEF DiskInv, CheckpointFirst
    <3> QED BY <1>1, <1>2, <1>5, <2>2, <3>1, <3>2
  <2> QED BY <2>1, <2>2
<1> QED BY <1>6, <1>7, <1>8

LEMMA DeleteRowsDisk ==
  ASSUME VersionInv, DiskInv, NEW t \in Txn, NEW rows \in DeleteLists, DeleteRows(t, rows)
  PROVE  DiskInv'
<1>1. PICK dead \in Seq(Row), back \in SUBSET Row :
        /\ \A r \in Elements(dead) : del[r] = NOT_DELETED_ID
        /\ \A r \in Row : del'[r] = IF r \in Elements(dead) THEN TransactionId(t)
                                    ELSE IF r \in back THEN NOT_DELETED_ID ELSE del[r]
        /\ strayed' = strayed \cup back
  BY DeleteRowsFacts
<1>2. /\ UNCHANGED <<row_count, clock, ending, oldest, newest, ckpt, disk, ins, ghosts>>
      /\ info' = Delete(Present(info), TransactionId(t), rows).info
  BY DEF DeleteRows
<1>3. /\ clock \in Nat /\ info \in InfoType /\ NOT_DELETED_ID > clock /\ NOT_DELETED_ID \in Nat
      /\ TransactionId(t) \in Id /\ TransactionId(t) > TRANSACTION_ID_START
      /\ TransactionId(t) \in Nat /\ TRANSACTION_ID_START \in Nat
  BY ClockFacts, IdFacts, IdAssumption DEF VersionInv, Types
<1>4. Elements(dead) \in SUBSET Row
  BY ElementsRows
<1>5. CheckpointFirst' /\ StoredSettled' /\ Pending' /\ Stored'
  <2>1. \A r \in Elements(dead) : Kept(r) => ~Known(r)
    BY <1>1, <1>3, <1>4 DEF DiskInv, StoredSettled
  <2>2. Committing' <=> Committing
    BY <1>2 DEF Committing
  <2>3. PICK x \in Id : x = TransactionId(t)
    BY <1>3
  <2>4. /\ strayed \subseteq strayed'
        /\ \A r \in Row : r \notin strayed' => del'[r] = IF r \in Elements(dead) THEN x ELSE del[r]
    BY <1>1, <2>3
  <2>5. x >= TRANSACTION_ID_START /\ ~(x < TRANSACTION_ID_START)
    BY <1>3, <2>3
  <2> QED BY <1>2, <1>4, <2>1, <2>2, <2>4, <2>5, DiskDeletes
<1>6. info'.present
  <2>1. Present(info).present /\ Present(info) \in InfoType
    BY <1>3, PresentSame DEF Present, InfoType
  <2> QED BY <1>2, <2>1, DeletePresent
<1>7. RowsSettled'
  BY <1>2, RowsKept
<1>8. Watermarks' /\ AbsentAlive'
  BY <1>2, <1>6 DEF DiskInv, Watermarks, AbsentAlive
<1> QED BY <1>5, <1>7, <1>8 DEF DiskInv

LEMMA WriteDeleteDisk ==
  ASSUME VersionInv, DiskInv, NEW u \in Txn, u = ending.txn, Active(u), ending.phase # "none",
         NEW i \in DOMAIN undo[u], i = ending.pos, undo[u][i].type = "DELETE_TUPLE",
         NEW id, id = ending.id, WriteDelete(undo[u][i].rows, id),
         Committing' <=> Committing, UNCHANGED <<clock, undo, ckpt, disk, strayed, ghosts>>
  PROVE  DiskInv'
<1>1. PICK rows : rows = undo[u][i].rows
  OBVIOUS
<1>2. /\ info' = CommitDelete(Present(info), id, rows)
      /\ newest' = Newest(newest, id) /\ oldest' = Oldest(oldest, id)
      /\ del' = [r \in Row |-> IF r \in Elements(rows) THEN id ELSE del[r]]
      /\ UNCHANGED <<row_count, ins>>
  BY <1>1 DEF WriteDelete
<1>3. /\ id \in Id /\ info \in InfoType /\ i \in Nat /\ Elements(rows) \in SUBSET Row
  BY <1>1, EntryFacts DEF VersionInv, Types
<1>4. /\ clock \in Nat /\ TransactionId(u) > clock /\ TransactionId(u) \in Nat
      /\ TransactionId(u) > TRANSACTION_ID_START /\ NOT_DELETED_ID > TRANSACTION_ID_START
      /\ TRANSACTION_ID_START \in Nat /\ NOT_DELETED_ID \in Nat
  BY ClockFacts, IdFacts, IdAssumption DEF VersionInv
<1>5. id >= TRANSACTION_ID_START \/ (id = clock - 1 /\ Committing)
  <2>1. \/ ending.phase = "commit" /\ id = clock - 1
        \/ id = TransactionId(u) \/ id = NOT_DELETED_ID
    BY DEF VersionInv, Ending, Types, Phases
  <2> QED BY <1>4, <2>1 DEF Committing
<1>6. \A r \in Elements(rows) : Kept(r) => (del[r] = clock - 1 /\ Committing) \/ del[r] = TransactionId(u)
  <2> SUFFICES ASSUME NEW r \in Elements(rows), Kept(r)
               PROVE  (del[r] = clock - 1 /\ Committing) \/ del[r] = TransactionId(u)
    OBVIOUS
  <2>1. Owned(u, i)
    BY DEF VersionInv, Owners, OwnedRows, IsDelete
  <2>2. ~Undone(u, i)
    BY <1>3 DEF Undone
  <2> QED BY <1>1, <2>1, <2>2 DEF Owned, Written, Committing, Kept
<1>7. \A r \in Elements(rows) : Kept(r) => ~Known(r)
  BY <1>3, <1>4, <1>6 DEF DiskInv, StoredSettled
<1>8. /\ Watermarks'
      /\ \E o \in oldest' : o <= id
      /\ \E n \in newest' : id <= n
      /\ \A y \in Nat : (\E o \in oldest : o <= y) => \E o \in oldest' : o <= y
      /\ \A y \in Nat : (\E n \in newest : y <= n) => \E n \in newest' : y <= n
  BY <1>2, <1>3, WatermarksMove DEF DiskInv
<1>9. CheckpointFirst' /\ StoredSettled' /\ Pending' /\ Stored'
  BY <1>2, <1>3, <1>5, <1>7, <1>8, DiskDeletes
<1>10. info'.present
  <2>1. Present(info).present /\ Present(info) \in InfoType
    BY <1>3, PresentSame DEF Present, InfoType
  <2> QED BY <1>2, <2>1, CommitDeletePresent
<1>11. RowsSettled'
  BY <1>2, RowsKept
<1> QED BY <1>8, <1>9, <1>10, <1>11 DEF DiskInv, AbsentAlive

LEMMA EntryDisk ==
  ASSUME VersionInv, DiskInv, CommitEntry \/ UndoEntry
  PROVE  DiskInv'
<1>1. PICK u : u = ending.txn
  OBVIOUS
<1>2. PICK i : i = ending.pos
  OBVIOUS
<1>3. PICK id : id = ending.id
  OBVIOUS
<1>4. /\ ending.phase # "none" /\ UNCHANGED <<clock, undo, ckpt, disk, strayed, ghosts>>
      /\ \E p : ending' = [ending EXCEPT !.pos = p]
      /\ \/ undo[u][i].type = "DELETE_TUPLE" /\ WriteDelete(undo[u][i].rows, id)
         \/ undo[u][i].type = "INSERT_TUPLE" /\ WriteAppend(undo[u][i].start, undo[u][i].end, id)
         \/ undo[u][i].type = "INSERT_TUPLE" /\ RevertAppend(undo[u][i].start)
  BY <1>1, <1>2, <1>3 DEF CommitEntry, UndoEntry
<1>5. u \in Txn /\ Active(u) /\ undo[u] \in Seq(DeleteEntry \cup InsertEntry)
  BY <1>1, <1>4 DEF VersionInv, Ending, Types
<1>6. i \in DOMAIN undo[u]
  <2>1. i \in 1 .. Len(undo[u]) /\ Len(undo[u]) \in Nat
    BY <1>1, <1>2, <1>5 DEF CommitEntry, UndoEntry, VersionInv, Ending
  <2> HIDE DEF DeleteEntry, InsertEntry
  <2> QED BY <1>5, <2>1
<1>7. Committing' <=> Committing
  BY <1>4 DEF Committing, VersionInv, Types
<1>8. CASE undo[u][i].type = "DELETE_TUPLE" /\ WriteDelete(undo[u][i].rows, id)
  BY <1>1, <1>2, <1>3, <1>4, <1>5, <1>6, <1>7, <1>8, WriteDeleteDisk
<1>9. ASSUME undo[u][i].type = "INSERT_TUPLE",
             \/ WriteAppend(undo[u][i].start, undo[u][i].end, id)
             \/ RevertAppend(undo[u][i].start)
      PROVE  DiskInv'
  <2>1. PICK start : start = undo[u][i].start
    OBVIOUS
  <2>2. PICK end : end = undo[u][i].end
    OBVIOUS
  <2>3. info \in InfoType
    BY DEF VersionInv, Types
  <2>4. UNCHANGED <<del, oldest, newest, disk, strayed, ghosts>> /\ Orderly /\ ckpt' = ckpt
    BY <1>4, <1>7, <1>9 DEF WriteAppend, RevertAppend, Orderly
  <2>5. AbsentAlive'
    <3>1. CASE WriteAppend(start, end, id)
      <4>1. info' = CommitAppend(info, id, start, end)
        BY <3>1 DEF WriteAppend
      <4> QED BY <2>3, <4>1, CommitAppendPresent DEF DiskInv, AbsentAlive
    <3>2. CASE RevertAppend(start)
      <4>1. info' = info \/ info' = NoInfo
        BY <3>2 DEF RevertAppend
      <4> QED BY <4>1, NoInfoIds DEF DiskInv, AbsentAlive
    <3> QED BY <1>9, <2>1, <2>2, <3>1, <3>2
  <2>6. RowsSettled'
    <3>1. FlushedAppend(u)
      BY <1>6, <1>9 DEF FlushedAppend
    <3>2. ckpt.phase = "none"
      BY <1>5, <3>1 DEF VersionInv, OneAppend
    <3> QED BY <2>4, <3>2 DEF RowsSettled
  <2> QED BY <2>4, <2>5, <2>6, DiskPassing DEF DiskInv
<1> QED BY <1>4, <1>8, <1>9

-----------------------------------------------------------------------------
(* The checkpoint stores the deletes *)

\* At its bound the version information and the ids of the rows agree.
LEMMA AgreeAtBound ==
  ASSUME VersionInv, DiskInv, ckpt.phase # "none", NEW r \in Row
  PROVE  /\ DeleteId(info, r) < ckpt.bound <=> del[r] < ckpt.bound
         /\ r < row_count => InsertId(info, r) < ckpt.bound
<1>1. ckpt.bound \in Floors /\ ckpt.bound \in Nat /\ 2 <= ckpt.bound /\ clock \in Nat
  <2>1. ckpt.bound \in Floors
    BY DEF Floors
  <2> QED BY <2>1, FloorsFacts, ClockFacts DEF VersionInv
<1>2. SameIn(DeleteId(info, r), del[r], Floors)
  BY DEF VersionInv, DeletesSame
<1>3. DeleteId(info, r) < ckpt.bound <=> del[r] < ckpt.bound
  BY <1>1, <1>2 DEF SameIn, SettledIn
<1>4. ASSUME r < row_count PROVE InsertId(info, r) < ckpt.bound
  <2>1. SameIn(InsertId(info, r), ins[r], Floors)
    BY <1>4 DEF VersionInv, InsertsSame
  <2>2. ins[r] < ckpt.bound
    BY <1>4 DEF DiskInv, RowsSettled
  <2> QED BY <1>1, <2>1, <2>2 DEF SameIn, SettledIn
<1> QED BY <1>3, <1>4

LEMMA CheckpointDeletesDisk ==
  ASSUME VersionInv, DiskInv, CheckpointDeletes
  PROVE  DiskInv'
<1>1. PICK bound : bound = ckpt.bound
  OBVIOUS
<1>2. PICK empty : empty = [type |-> "EMPTY_INFO", mask |-> {}]
  OBVIOUS
<1>3. /\ ckpt.phase = "compressed" /\ ckpt' = [ckpt EXCEPT !.phase = "written"]
      /\ disk' = IF ~Below(oldest, bound) THEN disk
                 ELSE IF info.present /\ HasDeletes(info, bound)
                 THEN Write(info, bound) ELSE empty
      /\ ghosts' = IF ~Below(oldest, bound) THEN ghosts
                   ELSE {r \in Row : r >= row_count /\ DeleteId(Read(disk'), r) = 0}
      /\ IF Below(oldest, bound) /\ Below(newest, bound)
         THEN oldest' = {} /\ newest' = {}
         ELSE UNCHANGED <<oldest, newest>>
      /\ UNCHANGED <<info, row_count, clock, undo, ending, ins, del, strayed>>
  BY <1>1, <1>2 DEF CheckpointDeletes
<1>4. ckpt'.phase = "written" /\ ckpt'.bound = bound
  BY <1>1, <1>3 DEF VersionInv, Types
<1>5. /\ clock \in Nat /\ bound \in Nat /\ bound <= clock - 1 /\ clock < TRANSACTION_ID_START
      /\ TRANSACTION_ID_START \in Nat /\ bound <= NOT_DELETED_ID /\ info \in InfoType
      /\ Committing => bound < clock - 1
      /\ \A r \in Row : del[r] \in Nat
  <2>1. /\ clock \in Nat /\ clock < TRANSACTION_ID_START /\ NOT_DELETED_ID > clock
        /\ \A r \in Row : del[r] \in Nat
    BY ClockFacts DEF VersionInv
  <2>2. bound \in Nat /\ bound <= clock - 1
    BY <1>1, <1>3, <2>1 DEF VersionInv, Bounds
  <2>3. Committing => bound < clock - 1
    BY <1>1, <1>3 DEF DiskInv, CheckpointFirst
  <2>4. info \in InfoType
    BY DEF VersionInv, Types
  <2> QED BY <2>1, <2>2, <2>3, <2>4, IdAssumption
<1>6. Id \subseteq Nat /\ Watermarks
  BY IdFacts DEF DiskInv
<1>7. \A r \in Row : /\ DeleteId(info, r) < bound <=> del[r] < bound
                     /\ r < row_count => InsertId(info, r) < bound
  BY <1>1, <1>3, AgreeAtBound
\* A delete that is not yet on disk is below the bound only if oldest is.
<1>8. ASSUME NEW r \in Row, Kept(r) PROVE Known(r)' <=> del[r] < bound
  <2>1. CASE ~Below(oldest, bound)
    <3>1. Known(r)' <=> Known(r)
      BY <1>3, <2>1 DEF Known, OnDisk
    <3>2. Known(r) => del[r] < bound
      BY <1>1, <1>3, <1>8 DEF DiskInv, StoredSettled
    <3>3. ASSUME ~Known(r), del[r] < bound PROVE FALSE
      <4>1. PICK o \in oldest : o <= del[r]
        BY <1>5, <1>8, <3>3 DEF DiskInv, Pending
      <4>2. oldest = {o} /\ o \in Nat
        BY <1>6, <4>1 DEF Watermarks
      <4>3. o < bound
        BY <1>5, <3>3, <4>1, <4>2
      <4> QED BY <2>1, <4>2, <4>3 DEF Below
    <3> QED BY <3>1, <3>2, <3>3
  <2>2. CASE Below(oldest, bound) /\ info.present /\ HasDeletes(info, bound)
    <3>1. /\ disk' = Write(info, bound)
          /\ ghosts' = {s \in Row : s >= row_count /\ DeleteId(Read(disk'), s) = 0}
      BY <1>3, <2>2
    <3>2. DeleteId(Read(Write(info, bound)), r) = 0
          <=> ~(InsertId(info, r) < bound /\ ~(DeleteId(info, r) < bound))
      BY <1>5, WriteIs
    <3>3. row_count \in Nat /\ r \in Nat
      BY IdAssumption DEF VersionInv, Types, Row
    <3>4. CASE r < row_count
      <4>1. r \notin ghosts'
        BY <3>1, <3>3, <3>4
      <4> QED BY <1>7, <3>1, <3>2, <3>4, <4>1 DEF Known, OnDisk
    <3>5. CASE r >= row_count
      <4>1. ~Known(r)'
        BY <3>1, <3>5 DEF Known, OnDisk
      <4>2. del[r] = NOT_DELETED_ID
        BY <3>5 DEF VersionInv, FreshAlive, Fresh
      <4> QED BY <1>5, <4>1, <4>2, IdAssumption
    <3> QED BY <3>3, <3>4, <3>5
  <2>3. CASE Below(oldest, bound) /\ ~(info.present /\ HasDeletes(info, bound))
    <3>1. disk' = empty
      BY <1>3, <2>3
    <3>2. ~Known(r)'
      BY <1>2, <3>1, EmptyIsAlive DEF Known, OnDisk
    <3>3. ~(DeleteId(info, r) < bound)
      <4>1. CASE ~info.present
        BY <1>5, <4>1, IdAssumption DEF DiskInv, AbsentAlive
      <4>2. CASE ~HasDeletes(info, bound)
        BY <1>5, <4>2, HasDeletesIs
      <4> QED BY <2>3, <4>1, <4>2
    <3> QED BY <1>7, <1>8, <3>2, <3>3
  <2> QED BY <2>1, <2>2, <2>3
<1>9. Stored'
  <2>1. \A r \in Row : Kept(r)' <=> Kept(r)
    BY <1>3 DEF Kept
  <2>2. del' = del
    BY <1>3
  <2> QED BY <1>4, <1>8, <2>1, <2>2 DEF Stored
<1>10. StoredSettled' /\ CheckpointFirst'
  <2>1. /\ \A r \in Row : Kept(r)' <=> Kept(r)
        /\ Committing' <=> Committing
        /\ del' = del /\ clock' = clock
    BY <1>3 DEF Kept, Committing
  <2>2. \A r \in Row : Kept(r) /\ Known(r)' =>
           /\ del[r] < clock
           /\ Committing => del[r] < clock - 1
           /\ del[r] < bound
    BY <1>5, <1>8
  <2> QED BY <1>4, <1>5, <2>1, <2>2 DEF StoredSettled, CheckpointFirst
<1>11. Pending'
  <2> SUFFICES ASSUME NEW r \in Row, Kept(r), ~Known(r)', del[r] < TRANSACTION_ID_START
               PROVE  /\ \E o \in oldest' : o <= del[r]
                      /\ \E n \in newest' : del[r] <= n
    <3>1. del' = del /\ (\A r \in Row : Kept(r)' <=> Kept(r))
      BY <1>3 DEF Kept
    <3> QED BY <3>1 DEF Pending
  <2>1. ~(del[r] < bound) /\ ~Known(r)
    <3>1. ~(del[r] < bound)
      BY <1>8
    <3>2. Known(r) => del[r] < bound
      BY <1>1, <1>3 DEF DiskInv, StoredSettled
    <3> QED BY <3>1, <3>2
  <2>2. /\ \E o \in oldest : o <= del[r]
        /\ \E n \in newest : del[r] <= n
    BY <2>1 DEF DiskInv, Pending
  <2>3. ~Below(newest, bound)
    <3>1. PICK n \in newest : del[r] <= n
      BY <2>2
    <3>2. n \in Nat
      BY <1>6, <3>1 DEF Watermarks
    <3>3. ~(n < bound)
      BY <1>5, <2>1, <3>1, <3>2
    <3> QED BY <3>1, <3>3 DEF Below
  <2> QED BY <1>3, <2>2, <2>3
<1>12. Watermarks'
  BY <1>3, <1>6 DEF Watermarks
<1>13. AbsentAlive' /\ RowsSettled'
  BY <1>1, <1>3, <1>4, RowsKept DEF DiskInv, AbsentAlive
<1> QED BY <1>9, <1>10, <1>11, <1>12, <1>13 DEF DiskInv

-----------------------------------------------------------------------------
(* The invariant *)

LEMMA DiskInit == Init => DiskInv
<1> SUFFICES ASSUME Init PROVE DiskInv
  OBVIOUS
<1>1. /\ info = NoInfo /\ row_count = InitialRows /\ undo = [t \in Txn |-> << >>]
      /\ ending = Idle /\ oldest = {} /\ newest = {} /\ ckpt = NoCheckpoint
      /\ disk = [type |-> "EMPTY_INFO", mask |-> {}]
      /\ ins = [r \in Row |-> 0] /\ del = [r \in Row |-> NOT_DELETED_ID]
  BY DEF Init
<1>2. \A r \in Row : ~Known(r)
  BY <1>1, EmptyIsAlive DEF Known, OnDisk
<1>3. \A r \in Row : ~(del[r] < TRANSACTION_ID_START)
  BY <1>1, IdAssumption
<1>4. StoredSettled /\ Pending /\ Watermarks
  BY <1>1, <1>2, <1>3 DEF StoredSettled, Pending, Watermarks
<1>5. Stored /\ CheckpointFirst /\ RowsSettled
  BY <1>1 DEF Stored, CheckpointFirst, RowsSettled, NoCheckpoint
<1>6. AbsentAlive
  BY <1>1, NoInfoIds DEF AbsentAlive
<1> QED BY <1>4, <1>5, <1>6 DEF DiskInv

LEMMA DiskNext ==
  ASSUME VersionInv, DiskInv, [Next]_vars
  PROVE  DiskInv'
<1>1. CASE UNCHANGED vars
  <2>1. UNCHANGED <<info, row_count, clock, undo, ending, oldest, newest, ckpt, disk, ins, del, strayed, ghosts>>
    BY <1>1 DEF vars
  <2>2. Orderly
    BY <2>1 DEF Orderly, Committing
  <2>3. AbsentAlive' /\ RowsSettled'
    BY <2>1, RowsKept DEF DiskInv, AbsentAlive
  <2> QED BY <2>1, <2>2, <2>3, DiskPassing DEF DiskInv
<1>2. ASSUME NEW t \in Txn,
             \/ StartTransaction(t)
             \/ \E rows \in DeleteLists : DeleteRows(t, rows)
             \/ \E n \in 1 .. VectorSize : AppendVersionInfo(t, n)
             \/ CommitTransaction(t) \/ RollbackTransaction(t)
             \/ CleanupAppend(t)
      PROVE  DiskInv'
  BY <1>2, StartDisk, DeleteRowsDisk, AppendDisk, CommitTransactionDisk, EndingDisk, CleanupDisk
<1>3. CASE \/ CommitEntry \/ CommitFails \/ UndoEntry \/ RevertDone
           \/ CommitDone \/ RollbackDone
  BY <1>3, EntryDisk, EndingDisk, RollbackDoneDisk
<1>4. CASE Checkpoint
  BY <1>4, CheckpointDisk, CheckpointDeletesDisk DEF Checkpoint
<1> QED BY <1>1, <1>2, <1>3, <1>4 DEF Next

LEMMA DiskFollows == VersionInv /\ DiskInv => DiskMatchesBound
<1> SUFFICES ASSUME VersionInv, DiskInv, ckpt.phase = "written", NEW r \in 0 .. (row_count - 1),
                    r \notin ghosts, r \notin strayed
             PROVE  DeleteId(Read(disk), r) = 0 <=> del[r] < ckpt.bound
  BY DEF DiskMatchesBound, StoredRight
<1>1. r \in Row /\ Kept(r)
  BY IdAssumption DEF Row, Kept, VersionInv, Types
<1>2. Known(r) <=> DeleteId(Read(disk), r) = 0
  BY DEF Known, OnDisk
<1> QED BY <1>1, <1>2 DEF DiskInv, StoredSettled, Stored

\* The inductive invariant of what is stored holds: committed deletes that
\* are not on disk lie between the watermarks, and what is on disk is settled
\* (RowVersionManager::CommitDelete and RowVersionManager::Checkpoint), for
\* loaded and appended rows, those in strayed apart.
THEOREM StoredCorrect == Spec => []DiskInv
<1>1. ASSUME VersionInv, DiskInv, [Next]_vars PROVE DiskInv'
  BY <1>1, DiskNext
<1> QED BY <1>1, DiskInit, VersionCorrect, PTL DEF Spec

\* For every vector size, set of transactions and bounds: a checkpoint that
\* runs beside commits, failing commits and roll-backs leaves on disk exactly
\* the deletes below its bound, of loaded and of appended rows, whether its
\* watermarks made it write or skip the vector (RowVersionManager::Checkpoint);
\* the rows in ghosts and strayed apart.
THEOREM CheckpointStoresDeletes == Spec => []DiskMatchesBound
  BY VersionCorrect, StoredCorrect, DiskFollows, PTL
=============================================================================
