\* Two sessions, one after the other, of fourteen jobs.
SPECIFICATION CommandsSpec
CONSTANTS
  None = None
  Jobs <- SomeJobs
  MaxSessions = 2
INVARIANTS Consistent FreshServer HonestExit OwnResults
CHECK_DEADLOCK FALSE
