CONSTANTS
  Ports = {p1, p2}
  None = None
  QueueCap = 1
  MaxSignals = 2
  PatientSender = TRUE
SPECIFICATION FairSpec
INVARIANTS
  TypeOK
  StateMatchesPipeline
  NoServerLost
  FinalReport
PROPERTIES
  OwnStepsSafe
  StoppedIsFinal
  ChangeReported
  InterruptEnds
