SPECIFICATION Spec
CONSTANTS
  NumBlocks = 2
  ClientWorkers = 1
  ServerWorkers = 1
  NetCap = 2
  OldHalves = {old}
  Twin = twin
  Digest <- MCDigest
  PieceHalves = 2
  Faults = {"network"}
  MaxFaults = 1
  MaxSessions = 1
CHECK_DEADLOCK FALSE
INVARIANT OkMeansAllSent
