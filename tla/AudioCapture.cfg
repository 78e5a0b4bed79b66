SPECIFICATION Spec
CONSTANTS
  MaxStarts = 3
  MaxChanges = 2
  MaxRetries = 3
  DeviceFails = TRUE
INVARIANTS TypeOK CaptureAgrees SilentWhenStopped
CHECK_DEADLOCK FALSE
