CONSTANTS
  Runs = {r1, r2}
  Users = {u1, u2}
  MinPort = 1
  BasePort = 2
  MaxPort = 4
  BlockSize = 2
  Attempts = 2
  MaxListeners = 1
SPECIFICATION FairSpec
INVARIANTS TypeOK Exclusive HeldLocked FullBlocks
PROPERTY SearchEnds
CHECK_DEADLOCK FALSE
