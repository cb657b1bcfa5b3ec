CONSTANTS
  Writer = {w1, w2}
  Reader = {}
  Ckpt = ckpt
  Client = client
  NoThread = none
  Kind = {"insert", "update", "index_delete", "create", "drop"}
  NumEntries = 2
  TRANSACTION_ID_START = 10
  Automatic = {TRUE, FALSE}
  MaxKinds = 1
  MaxStatements = 1
  MaxFailures = 1
SPECIFICATION Spec
INVARIANTS CleanupSparesSnapshots NothingLingers EntriesCleanedOnce CatalogVersionExact LocksReturned CheckpointSeesSettledUpdates SkippedWalCommitsLast
SYMMETRY Sym
CHECK_DEADLOCK FALSE
