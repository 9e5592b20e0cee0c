SPECIFICATION CloseSpec
CONSTANTS
  r1 = r1
  r2 = r2
  alice = alice
  n1 = n1
  n2 = n2
  k1 = k1
  Requests = {r1, r2}
  Authorizations <- Vouchers
  Consumed = {0}
  Budget = NoLimit
  NoLimit = NoLimit
  NoPayer = NoPayer
  NoNonce = NoNonce
  Closers = {k1}
  MaxBatches = 2
  MaxFaults = 0
INVARIANT
  SettledSessionsStrandNothing
CHECK_DEADLOCK FALSE
