CONSTANTS
  Root = {r1, r2}
  NoRoot = none
  CheckpointKinds = {"required"}
  MaxCommits = 2
  MaxCheckpoints = 2
  MaxCrashes = 3
SPECIFICATION Spec
INVARIANT ReplayedOnce
