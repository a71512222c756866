SPECIFICATION FeedSpec
CONSTANTS
  recv = recv
  consumer = consumer
  main = main
  Allocators <- RecvOnly
  Freers <- AllThreads
  Capacity = 4
  Word = 16
  MaxHeld = 8
  MaxMsgs = 6
INVARIANTS
  TopAccounts
  MessageOwnedOnce
  ExhaustedOnlyWhenFull
  AllReturned
PROPERTY
  DestroyEnds
