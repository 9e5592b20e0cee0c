SPECIFICATION Spec
CONSTANTS
  Declarations <- MCDeclarations
  Outcomes <- MCOutcomes
  Reports = {0, 3}
  MaxRecords = 2
  MaxCalls = 2
  MaxBatches = 2
  Sub = 2
  Bps = 10
  TakeBps = 3
  Fee = 1
  TargetBps = 5
INVARIANTS
  CaptureWithinAuthorization
  BridgeAgrees
  WindowConserves
  BreakEvenIsEnough
  ReportIsHonest
CHECK_DEADLOCK FALSE
