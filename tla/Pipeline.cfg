SPECIFICATION Spec
CONSTANTS
  NumCases = 2
  Concurrency = 2
  NumChecks = 2
  BeforeAgent = {1}
  BeforeChecks = {2}
  CheckState = {1}
  Graded = {2}
  Streams = {}
INVARIANTS
  TypeOK
  WorkspaceAccounted
  NoInterruptLost
  CancelReachesEveryCase
  EveryCaseAccounted
  ExitCodeIsHonest
PROPERTIES
  NothingStartsAfterCancel
CHECK_DEADLOCK FALSE
