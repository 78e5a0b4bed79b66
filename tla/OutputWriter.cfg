SPECIFICATION Spec
CONSTANTS
  Stems = {t1, t2}
  NoStem = none
  MaxSessions = 2
  MaxSegments = 3
  Faults = {"open", "rename"}
  StemsRepeat = FALSE
INVARIANTS TypeOK NeverTorn SegmentsSurvive
PROPERTY FilesOnlyGrow
