SPECIFICATION FairSpec
CONSTANTS
  QueueSize = 3
  FeedSize = 2
  MaxMsgs = 2
  MaxTrades = 1
INVARIANTS
  EventOwnedOnce
  NoPushRefused
  JournalInOrder
  GatewayExact
  StatsAddUp
PROPERTIES
  ShutdownEnds
  ReportsJournaled
