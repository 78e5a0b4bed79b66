CONSTANTS
  QueueMax = 1
  MaxChunks = 4
  Audio <- MCAudio
  Writers <- MCWriters
  NoWriter = 0
  Transcription = {"text"}
  MaxPresses = 2
  MaxSessions = 2
  MaxUses = 3
  MaxBlocks = 2
  MicMayFail = FALSE
  TapDrains = TRUE
SPECIFICATION SafetySpec
INVARIANT
  RecordingHasWriter
CHECK_DEADLOCK FALSE
