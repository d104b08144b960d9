CONSTANTS
  Blocks = {b1, b2, b3, b4}
  Options = {"opt", "restart"}
  RunnerOptions = {"restart"}
  Restart = "restart"
  TestKinds <- Shrinking
  MaxServers = 3
  MaxTests = 2
  Repeat = 1
  LateStart = FALSE
  Hangs = FALSE
  Verbose = FALSE
  Crashes = FALSE
  InterruptAt = {}
SPECIFICATION Spec
INVARIANT PortsFreed
SYMMETRY Symmetry
CHECK_DEADLOCK FALSE
