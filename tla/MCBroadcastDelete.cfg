CONSTANTS
  MaxStreams = 1
  MaxChunks = 1
SPECIFICATION Spec
INVARIANTS
  ServerExistsWhenCalled
