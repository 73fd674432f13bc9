SPECIFICATION FairSpec
CONSTANTS
  MaxSize = 5
  Buffer = 2
PROPERTIES MissingServesIndex
CHECK_DEADLOCK FALSE
