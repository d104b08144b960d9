\* Everything that can happen to a server and to the runner, and --repeat.
CONSTANTS
  Blocks = {b1, b2, b3}
  Options = {"opt", "restart"}
  RunnerOptions = {"restart"}
  Restart = "restart"
  TestKinds <- Growing
  MaxServers = 2
  MaxTests = 2
  Repeat = 2
  LateStart = TRUE
  Hangs = TRUE
  Verbose = TRUE
  Crashes = TRUE
  InterruptAt = {"next", "check", "count", "evaluate", "special", "start", "wait", "ready", "run", "after", "record"}
SPECIFICATION FairSpec
INVARIANT OnlyMissedAreLeft
PROPERTY Terminates
CHECK_DEADLOCK FALSE
