CONSTANTS
  Ports = {p1, p2}
  None = None
  QueueCap = 1
  MaxSignals = 2
  PatientSender = FALSE
SPECIFICATION Spec
INVARIANTS
  StateMatchesPipeline
