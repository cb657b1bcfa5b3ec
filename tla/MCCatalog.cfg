CONSTANTS
  Txn = {1, 2, 3}
  Writer = {1, 3}
  Name = {"sequence", "table", "renamed"}
  Created = {"sequence", "renamed"}
  Blocking = {FALSE}
  Loaded = {"sequence", "table"}
  Depends <- MCDepends
  Renames <- MCRenames
  TRANSACTION_ID_START = 20
  MaxStatements = 3
SPECIFICATION Spec
INVARIANTS UndoEntriesLive NoDanglingDependency SidesAgree
PROPERTY SnapshotCatalogSpec
CHECK_DEADLOCK FALSE
