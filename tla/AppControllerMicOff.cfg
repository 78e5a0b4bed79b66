CONSTANTS
  QueueMax = 1
  MaxChunks = 4
  Audio <- MCAudio
  Writers <- MCWriters
  NoWriter = 0
  Transcription = {"text", "blank", "failed"}
  MaxPresses = 2
  MaxSessions = 1
  MaxUses = 3
  MaxBlocks = 2
  MicMayFail = FALSE
  TapDrains = TRUE
SPECIFICATION SafetySpec
INVARIANT
  RecordingHasMic
CHECK_DEADLOCK FALSE
