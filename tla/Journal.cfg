SPECIFICATION Spec
CONSTANTS
  DEFAULT_MMAP_SIZE = 5
  MaxSessions = 3
  MaxAppends = 3
  MaxCrashes = 1
INVARIANTS
  PromisedSurvive
  RecordsInOrder
  StoresInMapping
  TornRecordDetected
PROPERTY
  AppendOnly
