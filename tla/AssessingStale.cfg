\* Two operators assess the two cases of one run at the same time.
SPECIFICATION Spec
CHECK_DEADLOCK FALSE
CONSTANTS
  NumCases = 2
  Checks <- OneName
  Assessable <- OneCheck
  Required <- OneName
  Saved <- OnePassed
  Ended <- AllCompleted
  Faulty = {}
  Erroneous = FALSE
  Interrupted = FALSE
  Assessors = {"ann", "eve"}
  Target <- EveOnTheLast
  Reporters = {}
  Runs = {}
  Overlap <- AnyTwo
INVARIANT DifferenceIsEvidence
