\* Two clients with different requests, a destination that is missing, of the
\* right size or of another; by hand or by remote start.
CONSTANTS
  c1 = c1
  c2 = c2
  Clients = {c1, c2}
  Starter = c1
  Requests <- MCRequests
  Sizes = {1, 2}
  Accesses = {"full", "hidden", "odd", "readonly", "unresizable", "writeonly"}
  AcceptFaults = TRUE
SPECIFICATION MCSpec
INVARIANTS OneAtATime SizeAgreed RefusedUntouched ToldWhy IInv OnlyItsOwnServer
PROPERTIES SlotFreed HandshakeEnds OneShotExits
\* A server that is not in one-shot mode waits for clients for ever.
CHECK_DEADLOCK FALSE
