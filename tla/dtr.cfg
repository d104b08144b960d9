CONSTANTS
  Pids = {1, 2, 3, 4, 5, 6}
  NumSlaves = 1
  TestKinds <- Tests
  MaxTests = 2
  MaxCrashes = 1
  InterruptAt = {"await", "run", "restore"}
  ExpireAt = {"stop", "reap", "start", "await", "run"}
SPECIFICATION FairSpec
INVARIANTS Consistent RightServers DataUnderServers HonestExit AllStopped
PROPERTY Terminates
CHECK_DEADLOCK FALSE
