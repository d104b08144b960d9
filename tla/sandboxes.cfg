\* Two runs, one branch under two addresses, a history of up to three commits.
SPECIFICATION Spec
CONSTANTS
  Runs = {r1, r2}
  None = None
  Clis <- Mixed
  Files <- SomeFiles
  Branches <- TwoBranches
  MaxRev = 3
  MaxCommits = 3
SYMMETRY Symmetric
INVARIANTS RightRevision RangeCovered LocalOverrides
CHECK_DEADLOCK FALSE
