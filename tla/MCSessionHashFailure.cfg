SPECIFICATION FairSpec
CONSTANTS
  NumBlocks = 2
  ClientWorkers = 1
  ServerWorkers = 2
  NetCap = 2
  OldHalves = {old}
  Twin = twin
  Digest <- MCDigest
  PieceHalves = 2
  Faults = {"server_hash"}
  MaxFaults = 1
  MaxSessions = 1
CHECK_DEADLOCK FALSE
PROPERTY ClientExits
