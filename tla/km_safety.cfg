CONSTANTS
  Blocks = {b1, b2, b3}
  Options = {"opt", "restart"}
  RunnerOptions = {"restart"}
  Restart = "restart"
  TestKinds <- AndNone
  MaxServers = 2
  MaxTests = 4
  Repeat = 1
  LateStart = FALSE
  Hangs = FALSE
  Verbose = FALSE
  Crashes = TRUE
  InterruptAt = {"next", "check", "count", "evaluate", "start", "ready", "run", "after", "record"}
SPECIFICATION Spec
INVARIANTS Consistent PortsHeld RunsAsAsked
SYMMETRY Symmetry
CHECK_DEADLOCK FALSE
