SPECIFICATION DashboardSpec
CONSTANTS
  Arguments <- MCArguments
  Sub = 2
  Bps = 10
  TakeBps = 3
  Fee = 1
  Seeds <- MCSeeds
  LivePrice = 1
  MaxLive = 1
  MaxPurges = 1
INVARIANTS
  SignedWithinBudget
  FailurePathsBite
  LedgerClaimHolds
  PurgeIsWhole
  FiguresAreHonest
CHECK_DEADLOCK FALSE
