\* The report of a cancelled run whose every recorded case completed.
SPECIFICATION Spec
CHECK_DEADLOCK FALSE
CONSTANTS
  NumCases = 1
  Checks <- OneName
  Assessable <- OneCheck
  Required <- OneName
  Saved <- OnePassed
  Ended <- AllCompleted
  Faulty = {}
  Erroneous = FALSE
  Interrupted = TRUE
  Assessors = {"ann"}
  Target <- OnCaseOne
  Reporters = {"report"}
  Runs = {}
  Overlap <- OnOneCase
INVARIANT ExitCodeKept
