---------------------------- MODULE ReadersWriter ----------------------------
(***************************************************************************)
(* What a StorageLock promises to the code that holds its keys: any number *)
(* of SHARED keys or one EXCLUSIVE key, where the EXCLUSIVE key may also be*)
(* granted to the one holder of a SHARED key that upgrades it              *)
(* (storage_lock.hpp).  Nothing is said of tickets, wake-ups or the order  *)
(* in which waiters are served.                                            *)
(***************************************************************************)
CONSTANT Thread

VARIABLES
  shared,     \* holders of a SHARED StorageLockKey
  exclusive   \* holders of an EXCLUSIVE StorageLockKey

vars == <<shared, exclusive>>

Init == shared = {} /\ exclusive = {}

AcquireShared(t) ==
  /\ exclusive = {}
  /\ t \notin shared
  /\ shared' = shared \union {t}
  /\ UNCHANGED exclusive

\* a fresh exclusive key, or an upgrade by the only reader
AcquireExclusive(t) ==
  /\ exclusive = {}
  /\ shared \subseteq {t}
  /\ exclusive' = {t}
  /\ UNCHANGED shared

Release(t) ==
  \/ t \in shared /\ shared' = shared \ {t} /\ UNCHANGED exclusive
  \/ t \in exclusive /\ exclusive' = {} /\ UNCHANGED shared

Next == \E t \in Thread : AcquireShared(t) \/ AcquireExclusive(t) \/ Release(t)

Spec == Init /\ [][Next]_vars
=============================================================================
