SPECIFICATION FairSpec
CONSTANTS
  Kids = {"k1", "k2"}
  Targets = {"pipe", "file"}
  Escapes = TRUE
INVARIANTS TypeOK CutShortIsMarked NoSurvivor NothingLeftBehind
PROPERTIES FirstCauseStands Returns
CHECK_DEADLOCK FALSE
