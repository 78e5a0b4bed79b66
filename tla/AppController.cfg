CONSTANTS
  QueueMax = 1
  MaxChunks = 5
  Audio <- MCAudio
  Writers <- MCWriters
  NoWriter = 0
  Transcription = {"text"}
  MaxPresses = 2
  MaxSessions = 2
  MaxUses = 3
  MaxBlocks = 3
  MicMayFail = TRUE
  TapDrains = TRUE
SPECIFICATION Spec
INVARIANTS
  TypeOK
  DictationAlone
  OneDictation
  SessionOverMeansDrained
  MicOffWhenIdle
  
  QuitLeavesNothing
PROPERTIES
  SavedInItsSession
  ImplementsModes
  ModesEnd
  QuitReturns
CHECK_DEADLOCK FALSE
