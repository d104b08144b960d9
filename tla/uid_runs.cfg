SPECIFICATION FairSpec
CONSTANTS
  Pids = {p1, p2, p3}
  MinId = 200
  MaxId = 201
  NoPid = NoPid
  NoId = NoId
  PsAnswers = {TRUE, FALSE}
  KillAtWrite = FALSE
INVARIANTS TypeOK IdExclusion FileRecordsOwners
PROPERTIES ImplementsAllocator WaiterServed
CHECK_DEADLOCK FALSE
