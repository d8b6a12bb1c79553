CONSTANTS
  MaxStreams = 1
  None = None
  f1 = f1
  f2 = f2
  f3 = f3
  Codecs <- TwoCodecs
SPECIFICATION Spec
INVARIANTS
  ClosableAfterFailure
