CONSTANTS
  QueueMax = 2
  MaxChunks = 4
  Audio = {a}
  Writers = {w}
  NoWriter = NoWriter
  Transcription = {"text", "blank", "failed"}
SPECIFICATION WorkerSpec
INVARIANTS
  QueueHoldsNewest
  EveryChunkAccounted
PROPERTIES
  SessionDoneAfterDrain
  NothingWaits
  ImplementsQueue
