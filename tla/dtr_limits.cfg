CONSTANTS
  Pids = {1, 2, 3, 4, 5, 6}
  NumSlaves = 1
  TestKinds <- OneSlave
  MaxTests = 1
  MaxCrashes = 0
  InterruptAt = {}
  ExpireAt = {"stop", "reap", "run"}
SPECIFICATION Spec
INVARIANT LimitsInForce
CHECK_DEADLOCK FALSE
