SPECIFICATION Spec
CONSTANTS
  NumCases = 1
  Concurrency = 1
  NumChecks = 1
  BeforeAgent = {}
  BeforeChecks = {}
  CheckState = {}
  Graded = {}
  Streams = {"events", "diagnostics"}
INVARIANTS
  AbsenceIsRecorded
CHECK_DEADLOCK FALSE
