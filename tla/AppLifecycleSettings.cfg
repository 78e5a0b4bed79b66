SPECIFICATION SafetySpec
CONSTANTS
  Procs = {p1, p2}
  Languages <- MCLanguages
  DefaultLanguage = "auto"
  Timeouts <- MCTimeouts
  DefaultTimeout = 5
  NoValue = NoValue
  ModelMayFail = TRUE
INVARIANT
  SettingsApplied
CHECK_DEADLOCK FALSE
