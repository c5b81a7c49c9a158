\* Two operators confirm replacing the same grade.
SPECIFICATION Spec
CHECK_DEADLOCK FALSE
CONSTANTS
  NumCases = 1
  Checks <- OneName
  Assessable <- OneCheck
  Required <- OneName
  Saved <- OnePassed
  Ended <- AllCompleted
  Faulty = {}
  Erroneous = FALSE
  Interrupted = FALSE
  Assessors = {"ann", "bob"}
  Target <- OnCaseOne
  Reporters = {}
  Runs = {}
  Overlap <- OnOneCase
PROPERTY ConfirmedReplacement
