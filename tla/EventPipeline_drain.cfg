SPECIFICATION Spec
CONSTANTS
  QueueSize = 3
  FeedSize = 2
  MaxMsgs = 2
  MaxTrades = 1
INVARIANT
  AllDrainedAtStop
