CONSTANTS
  Root = {r1, r2}
  NoRoot = none
  CheckpointKinds = {"required", "forced", "skip"}
  MaxCommits = 4
  MaxCheckpoints = 3
  MaxCrashes = 2
SPECIFICATION Spec
SYMMETRY Sym
INVARIANTS
  Durability
  ReplayedOnce
  ReadOnlyAgrees
