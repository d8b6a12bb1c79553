CONSTANTS
  Ports = {p1}
  None = None
  QueueCap = 1
  MaxSignals = 2
  PatientSender = TRUE
SPECIFICATION Spec
INVARIANTS
  NoInvalidPointer
