CONSTANTS
  Servers = {v1, v2}
  Clients = {c1}
  None = None
  Recreate = TRUE
  MaxQueues = 3
  MaxMessages = 2
  MaxLaunches = 3
SPECIFICATION FairSpec
INVARIANTS
  TypeOK
  NoStaleCommand
  OneListener
PROPERTIES
  OnlyTakeoverSilences
  CommandHandled
