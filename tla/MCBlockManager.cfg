CONSTANTS
  Segments = {p1, p2}
  MaxBlocks = 4
  SubBlocks = {1, 2, 3}
  SegmentsPerBlock = 2
  HandleEntries = 2
  MaxStatements = 2
  MaxCheckpoints = 2
  MaxRestarts = 1
  None = None
SYMMETRY Symmetry
SPECIFICATION Spec
INVARIANTS RecoveryIntact FreeBlocksUnheld NoInternalError BlocksAccounted
CHECK_DEADLOCK FALSE
