CONSTANTS
  MaxPackets = 5
  Rates = {0, 2, 3}
  Delay = 1
SPECIFICATION FairSpec
INVARIANTS
  TypeOK
  InOrder
  ChosenAccountedFor
  GraphHasOneUser
PROPERTIES
  ErrorIsFinal
  GraphDrains
  StopTerminates
