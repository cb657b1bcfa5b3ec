CONSTANTS
  Writer = {w1}
  Reader = {r1}
  Ckpt = ckpt
  Client = client
  NoThread = none
  Kind = {"insert", "update"}
  NumEntries = 1
  TRANSACTION_ID_START = 10
  Automatic = {TRUE, FALSE}
  MaxKinds = 1
  MaxStatements = 1
  MaxFailures = 0
SPECIFICATION FairSpec
PROPERTIES EveryCommitCleaned ForceCheckpointGetsLock
CHECK_DEADLOCK FALSE
