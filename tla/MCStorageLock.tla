--------------------------- MODULE MCStorageLock ---------------------------
(* Model-checking instance of StorageLock.  The runs use no symmetry: they  *)
(* check liveness.                                                          *)
EXTENDS StorageLock

CONSTANTS t1, t2, t3, t4
=============================================================================
