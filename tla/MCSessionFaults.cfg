SPECIFICATION Spec
CONSTANTS
  NumBlocks = 2
  ClientWorkers = 2
  ServerWorkers = 1
  NetCap = 2
  OldHalves = {old, twin}
  Twin = twin
  Digest <- MCDigest
  PieceHalves = 1
  Faults = {"client_hash", "server_hash", "network", "disk", "client_crash", "server_crash", "late_write"}
  MaxFaults = 2
  MaxSessions = 2
CHECK_DEADLOCK FALSE
INVARIANTS HashesOfOriginal OnlyDivergentWritten Converges WholeBlocks AckUnlessDiskFails OkUnlessCut IInv
