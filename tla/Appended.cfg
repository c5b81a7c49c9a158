SPECIFICATION DocumentSpec
CONSTANTS
  MaxTaskLines = 2
  MaxTrailing = 1
INVARIANT EarlierItemsKept
CHECK_DEADLOCK FALSE
