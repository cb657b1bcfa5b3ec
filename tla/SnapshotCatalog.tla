--------------------------- MODULE SnapshotCatalog ---------------------------
(***************************************************************************)
(* What the catalog promises its transactions: each one works on a private *)
(* copy of the catalog as it was committed when the transaction began, a   *)
(* key that somebody else has changed cannot be changed, and a commit      *)
(* publishes all of a transaction's changes in one step.                   *)
(***************************************************************************)
CONSTANTS Txn, Key, Absent

VARIABLES
  current,   \* the committed catalog: the entry of each key, or Absent
  view,      \* the catalog each running transaction sees, or NoView
  dirty      \* keys each transaction has changed and still owns

vars == <<current, view, dirty>>

NoView == [k \in {} |-> Absent]
Running(t) == view[t] # NoView

Keeps(t) == view'[t] = view[t] /\ dirty'[t] = dirty[t]

Init ==
  /\ DOMAIN current = Key
  /\ view = [t \in Txn |-> NoView]
  /\ dirty = [t \in Txn |-> {}]

Begin(t) ==
  /\ ~Running(t) /\ dirty[t] = {}
  /\ view'[t] = current /\ dirty'[t] = {}
  /\ UNCHANGED current

\* Changes to keys that nobody else owns and whose committed entry is still
\* the one the transaction sees.
Write(t) ==
  LET before == view[t]
      after == view'[t]
      owned == dirty[t]
      ks == {k \in DOMAIN before : after[k] # before[k]} \cup (dirty'[t] \ owned)
  IN  /\ before # NoView /\ DOMAIN after = Key
      /\ dirty'[t] = owned \cup ks /\ ks \subseteq Key
      /\ \A k \in ks :
           /\ \A u \in Txn \ {t} : k \notin dirty[u]
           /\ k \in owned \/ before[k] = current[k]
      /\ UNCHANGED current

Commit(t) ==
  /\ Running(t)
  /\ current' = [k \in Key |-> IF k \in dirty[t] THEN view[t][k] ELSE current[k]]
  /\ view'[t] = NoView /\ dirty'[t] = {}

\* A transaction that is rolled back gives its keys back one after the other.
Abort(t) ==
  /\ Running(t)
  /\ view'[t] = NoView /\ dirty'[t] = dirty[t]
  /\ UNCHANGED current

Release(t) ==
  /\ ~Running(t)
  /\ view'[t] = NoView /\ dirty'[t] \subseteq dirty[t]
  /\ UNCHANGED current

Next ==
  \E t \in Txn :
    /\ \A u \in Txn \ {t} : Keeps(u)
    /\ Begin(t) \/ Write(t) \/ Commit(t) \/ Abort(t) \/ Release(t)

Spec == Init /\ [][Next]_vars
=============================================================================
