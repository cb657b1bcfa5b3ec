----------------------------- MODULE CatalogSet -----------------------------
(***************************************************************************)
(* The version chain of one name in a catalog set (catalog_set.cpp): a     *)
(* sequence of entries, the newest first.  An entry carries the timestamp  *)
(* of the transaction that made it, its transaction id until the commit    *)
(* and its commit id afterwards.                                           *)
(***************************************************************************)
EXTENDS Integers, Sequences, FiniteSets, SequencesExt

CONSTANT TRANSACTION_ID_START

ASSUME CatalogSetAssumption == TRANSACTION_ID_START \in Nat \ {0}

\* INVALID: the dummy at the bottom of a chain.  RENAMED: marks a rename below
\* a tombstone and below the entry under its new name.
EntryType == {"INVALID", "RENAMED", "DELETED", "OBJECT", "DEPENDENCY"}

\* oid: the logical object, for a dependency the object it depends on.
Entry(id, ts, type, oid, blocking) ==
  [id |-> id, ts |-> ts, type |-> type, oid |-> oid, blocking |-> blocking]

Nobody == <<0, 0>>
Dummy == Entry(Nobody, 0, "INVALID", Nobody, FALSE)
Deleted(e) == e.type \in {"INVALID", "DELETED"}
IsCommitted(ts) == ts < TRANSACTION_ID_START

\* A snapshot: its own writes and the commits below its bound.
Sees(snapshot, ts) == ts < snapshot.bound \/ ts = snapshot.id

HasConflict(snapshot, c) == ~Sees(snapshot, Head(c).ts)

\* The position of the entry that a snapshot uses; the last one for want of
\* another, whatever its timestamp.
GetEntryForTransaction(snapshot, c) ==
  CHOOSE i \in 1 .. Len(c) :
    /\ i = Len(c) \/ Sees(snapshot, c[i].ts)
    /\ \A j \in 1 .. i - 1 : ~Sees(snapshot, c[j].ts)

\* The position of the entry that a checkpoint writes.
GetCommittedEntry(c) ==
  CHOOSE i \in 1 .. Len(c) :
    /\ i = Len(c) \/ IsCommitted(c[i].ts)
    /\ \A j \in 1 .. i - 1 : ~IsCommitted(c[j].ts)

\* GetEntryDetailed: the entry, or why there is none.
FailureReason(snapshot, c) ==
  IF c = << >> THEN "NOT_PRESENT"
  ELSE LET i == GetEntryForTransaction(snapshot, c)
       IN  IF ~Deleted(c[i]) THEN "SUCCESS"
           ELSE IF i < Len(c) THEN "DELETED" ELSE "INVISIBLE"

Exists(snapshot, c) == FailureReason(snapshot, c) = "SUCCESS"
GetEntry(snapshot, c) == c[GetEntryForTransaction(snapshot, c)]

\* GetEntryInternal: the newest entry, to put another version on top of it.
GetEntryInternal(snapshot, c) ==
  IF c = << >> THEN "none"
  ELSE IF HasConflict(snapshot, c) THEN "conflict"
  ELSE IF Deleted(Head(c)) THEN "none"
  ELSE "found"

\* CreateEntryInternal with should_be_empty: StartChain or VerifyVacancy.
StartChain(c) == IF c = << >> THEN <<Dummy>> ELSE c
Vacancy(snapshot, c) ==
  IF HasConflict(snapshot, StartChain(c)) THEN "conflict"
  ELSE IF Deleted(Head(StartChain(c))) THEN "vacant"
  ELSE "occupied"

PositionOf(c, id) == CHOOSE i \in DOMAIN c : c[i].id = id
InChain(c, id) == \E i \in DOMAIN c : c[i].id = id
ParentOf(c, id) == c[PositionOf(c, id) - 1]

\* Undo: the parent of the restored entry goes, and a dummy with it.
Undo(c, id) ==
  LET i == PositionOf(c, id)
      restored == RemoveAt(c, i - 1)
  IN  IF c[i].type = "INVALID" THEN RemoveAt(restored, i - 1) ELSE restored

\* Mutant: a tombstone goes with the entry below it, whatever is above.
CleanupEntryMutant(c, id) ==
  LET i == PositionOf(c, id)
      rest == RemoveAt(c, i)
  IN  IF i > 1 /\ Deleted(c[i - 1]) THEN RemoveAt(rest, i - 1) ELSE rest

\* CleanupEntry: the old entry goes, and its parent with it if that is a
\* tombstone with nothing above or below.
CleanupEntry(c, id) ==
  LET rest == RemoveAt(c, PositionOf(c, id))
  IN  IF Len(rest) = 1 /\ Deleted(Head(rest)) THEN << >> ELSE rest

UpdateTimestamp(c, id, ts) ==
  LET i == PositionOf(c, id) - 1
  IN  [c EXCEPT ![i].ts = ts]
=============================================================================
