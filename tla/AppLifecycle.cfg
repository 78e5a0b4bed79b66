SPECIFICATION Spec
CONSTANTS
  Procs = {p1, p2, p3}
  Languages <- MCLanguages
  DefaultLanguage = "auto"
  Timeouts <- MCTimeouts
  DefaultTimeout = 5
  NoValue = NoValue
  ModelMayFail = TRUE
INVARIANTS
  TypeOK
  OneInstance
  ControllerUsable
  LanguageApplied
PROPERTY
  HotkeyComesAlive
CHECK_DEADLOCK FALSE
