CONSTANTS
  Servers = {v1}
  Clients = {c1}
  None = None
  Recreate = TRUE
  MaxQueues = 3
  MaxMessages = 1
  MaxLaunches = 1
SPECIFICATION Spec
INVARIANTS
  WaitingIsReachable
