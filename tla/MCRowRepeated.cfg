CONSTANTS
  VectorSize = 3
  TRANSACTION_ID_START = 100
  NOT_DELETED_ID = 1000
  Txn = {1, 2}
  InitialRows = 2
  DeleteLists <- AnyOrder
  MaxUndo = 2
  MaxClock = 6
SPECIFICATION Spec
INVARIANT FirstDeleterWins
CHECK_DEADLOCK FALSE
