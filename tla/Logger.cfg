SPECIFICATION Spec
CONSTANTS
  main = main
  io = io
  QueueSize = 4
  LOG_FLUSH_BATCH = 2
  MaxWrites = 4
INVARIANTS
  WrittenInOrder
  ShutdownWritesAll
PROPERTIES
  MessagesReachFile
  ShutdownReturns
