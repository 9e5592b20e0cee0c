SPECIFICATION Spec
CONSTANTS
  c1 = c1
  c2 = c2
  c3 = c3
  Calls = {c1, c2, c3}
  Policies <- DailyPolicies
  Quotes <- PriceQuotes
  NoLimit = NoLimit
  Unpriced = Unpriced
  MaxDay = 1
  Readable = {TRUE}
INVARIANT
  DailyBudgetHolds
