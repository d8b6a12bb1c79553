CONSTANTS
  MaxStreams = 2
  None = None
  f1 = f1
  f2 = f2
  f3 = f3
  Codecs <- TwoCodecs
SPECIFICATION Spec
INVARIANTS
  TypeOK
  AllReleased
  CloseIsSafe
  RunningIsComplete
