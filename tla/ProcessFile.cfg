SPECIFICATION Spec
CONSTANTS
  Kids = {"k1"}
  Targets = {"file"}
  Escapes = FALSE
INVARIANT CancellationTerminates
CHECK_DEADLOCK FALSE
