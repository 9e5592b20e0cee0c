SPECIFICATION FairSpec
CONSTANTS
  c1 = c1
  c2 = c2
  c3 = c3
  Calls = {c1, c2}
  Policies <- MCPolicies
  Quotes <- MCQuotes
  NoLimit = NoLimit
  Unpriced = Unpriced
  MaxDay = 1
  Readable = {TRUE}
INVARIANTS
  TypeOK
  SessionBudgetHolds
  DailyBudgetUnlessStraddled
  DailyRemembersSigned
  ExposureCoversTaken
  ReservationsBelongToLiveCalls
PROPERTIES
  FreezeStopsNewCalls
  ImplementsBudget
  PendingEscalationBlocksNobody
