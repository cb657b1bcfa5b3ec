CONSTANTS
  Txn = {1, 2, 3}
  VectorSize = 2
  Val = {1, 2}
  NULL = null
  InitialColumn <- MCInitialColumn
  Assignments <- MCAssignments
  MIN_CAPACITY = 1
  TRANSACTION_ID_START = 20
  MaxUpdates = 3
  MaxFaults = 1
SPECIFICATION Spec
INVARIANTS SnapshotExact DiskExact ChainIntact
CHECK_DEADLOCK FALSE
