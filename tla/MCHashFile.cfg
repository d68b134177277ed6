SPECIFICATION FairSpec
CONSTANTS
  Workers = 3
  NumBlocks = 4
  MayFail = {0, 1}
  EarlyDrop = TRUE
CHECK_DEADLOCK FALSE
INVARIANTS BuffersExclusive IInv
PROPERTIES UsesChannelWell IsHashStream AllBlocksThenEnd StreamEnds DropReturnsIfBufferEmpty
