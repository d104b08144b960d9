\* Five kinds of report over at most three runs, of two branches (one of them a
\* pattern that the other matches), two revisions of which one begins like the
\* other, two places, and two levels of a test.
SPECIFICATION Spec
CONSTANTS
  Asks <- MCAsks
  Symbols = {"_", "s", "1", "2"}
  Logged <- MCLogged
  Staging <- Stage
  Keys <- MCKeys
  Few = 1
  Many = 2
  MaxRuns = 3
INVARIANT Trends
CHECK_DEADLOCK FALSE
