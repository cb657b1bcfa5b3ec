CONSTANTS
  VectorSize = 2
  TRANSACTION_ID_START = 100
  NOT_DELETED_ID = 1000
  Txn = {1, 2, 3}
  InitialRows = 1
  DeleteLists <- Repeated
  MaxUndo = 2
  MaxClock = 9
SPECIFICATION Spec
INVARIANTS VisibilityExact DeletesOwned DiskMatchesBound
PROPERTY SnapshotStable
CHECK_DEADLOCK FALSE
