\* Assessments of one case may overlap; any other command runs alone.
SPECIFICATION Spec
CHECK_DEADLOCK FALSE
CONSTANTS
  NumCases = 2
  Checks <- Names
  Assessable <- BothChecks
  Required <- Names
  Saved <- GradePassed
  Ended <- AllCompleted
  Faulty = {}
  Erroneous = TRUE
  Interrupted = FALSE
  Assessors = {"ann", "bob"}
  Target <- EveOnTheLast
  Reporters = {"report"}
  Runs = {"run"}
  Overlap <- OnOneCase
INVARIANT TypeOK
INVARIANT LockAccounted
INVARIANT ExitCodeKept
PROPERTY VerdictsKept
PROPERTY ReplacementChosen
PROPERTY EndsCurrent
