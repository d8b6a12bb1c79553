CONSTANTS
  Sessions = {s1}
  None = None
  MaxBacklog = 2
SPECIFICATION FairMutexSpec
PROPERTIES
  StopCompletes
  ClosedIsFreed
