SPECIFICATION FairSpec
CONSTANTS
  Senders = {s1, s2, s3}
  NoSender = nobody
  MaxIdx = 3
  Indices <- MCIndices
INVARIANTS PushNeverBlocks NoLostWakeup NothingLost IInv
PROPERTIES DeliversInOrder SendReturns
