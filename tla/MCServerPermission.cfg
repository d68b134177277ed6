\* A destination that the server may look at but not write or create.
CONSTANTS
  c1 = c1
  c2 = c2
  Clients = {c1, c2}
  Starter = c1
  Requests <- MCRequests
  Sizes = {1, 2}
  Accesses = {"readonly"}
  AcceptFaults = FALSE
SPECIFICATION MCSpec
INVARIANT PermissionReported
CHECK_DEADLOCK FALSE
