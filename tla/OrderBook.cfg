SPECIFICATION FairSpec
CONSTANTS
  Price <- ThreePrices
  Quantity <- SafetyQuantity
  MaxOrders = 3
  MaxCalls = 4
INVARIANTS
  IndexMatchesLists
  NotCrossed
  FillsMatchTrades
  PriceTimePriority
  TradesDrainedOnce
PROPERTIES
  MatchingTerminates
