SPECIFICATION FairSpec
CONSTANTS
  Workers = 2
  NumBlocks = 3
  MayFail = {}
  EarlyDrop = TRUE
CHECK_DEADLOCK FALSE
PROPERTY DropReturns
