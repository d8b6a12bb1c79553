CONSTANTS
  MaxStreams = 3
  MaxChunks = 4
SPECIFICATION FairSpec
INVARIANTS
  TypeOK
  RestIsEmpty
  NoForeignChunk
PROPERTIES
  ImplementsStream
  EveryChunkDelivered
  StopCompletes
