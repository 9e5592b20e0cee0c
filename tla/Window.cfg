SPECIFICATION WindowSpec
CONSTANTS
  r1 = r1
  r2 = r2
  alice = alice
  n1 = n1
  n2 = n2
  n3 = n3
  Requests = {r1, r2}
  Authorizations <- Payments
  Consumed = {0}
  Budget = 3
  NoLimit = NoLimit
  NoPayer = NoPayer
  NoNonce = NoNonce
  MaxCalls = 2
  Dust = 2
  MaxBatches = 2
  MaxFaults = 2
INVARIANTS
  WindowAddsUp
  SettledIsSwept
  ReceiptsVerify
CHECK_DEADLOCK FALSE
