SPECIFICATION Spec
CONSTANTS
  Symbol = {AAPL}
  Limits <- MCLimits
  Price <- MCPrice
  Quantity <- MCQuantity
  MaxTime = 2
  MaxCalls = 3
INVARIANTS
  WithinLimits
  NotionalWithinLimit
  RateWithinLimit
