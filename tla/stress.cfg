CONSTANTS
  Threads = 2
  Lengths = {1, 2}
  MaxLimit = 2
  Edits = {"add", "any"}
SPECIFICATION FairSpec
INVARIANTS TypeOK Overshoot CountedAreRun
PROPERTIES OwnIdsIncrease Ends
CHECK_DEADLOCK FALSE
