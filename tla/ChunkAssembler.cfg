SPECIFICATION Spec
CONSTANTS
  BlockSizes <- MCBlockSizes
  Timeouts <- MCTimeouts
  FlushMin = 2
  MinChunk = 3
  MaxChunk = 6
  MaxBlocks = 5
INVARIANTS TypeOK ListeningIsEmpty ChunksAreStretches ChunksAreBounded
PROPERTY SpeechIsKept
