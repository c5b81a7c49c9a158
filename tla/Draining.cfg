SPECIFICATION FairSpec
CONSTANTS
  NumCases = 2
  Concurrency = 1
  NumChecks = 2
  BeforeAgent = {1}
  BeforeChecks = {2}
  CheckState = {1}
  Graded = {2}
  Streams = {"events"}
INVARIANTS
  CompletedIsWhole
  CancelledMeansInterrupted
PROPERTIES
  ImplementsLedger
  RunTerminates
CHECK_DEADLOCK FALSE
