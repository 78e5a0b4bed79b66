SPECIFICATION Spec
CONSTANTS
  MaxPresses = 3
  MaxSessions = 2
  MaxUses = 4
  MaxNotices = 1
  MaxQueued = 2
  HistoryLimit = 2
INVARIANTS TypeOK MenuFollowsMode SavedIsAnnounced HistoryHolds
CHECK_DEADLOCK FALSE
