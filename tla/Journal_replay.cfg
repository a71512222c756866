SPECIFICATION CleanSpec
CONSTANTS
  DEFAULT_MMAP_SIZE = 5
  MaxSessions = 1
  MaxAppends = 2
  MaxCrashes = 0
INVARIANT
  ReplayReaches
