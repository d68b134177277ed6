SPECIFICATION FairSpec
CONSTANTS
  NumBlocks = 3
  ClientWorkers = 2
  ServerWorkers = 2
  NetCap = 1
  OldHalves = {old}
  Twin = twin
  Digest <- MCDigest
  PieceHalves = 2
  Faults = {"client_crash", "network"}
  MaxFaults = 2
  MaxSessions = 1
CHECK_DEADLOCK FALSE
INVARIANT TypeOK
PROPERTIES BothFinish ServerFollows
