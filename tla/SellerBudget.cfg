SPECIFICATION Spec
CONSTANTS
  r1 = r1
  r2 = r2
  r3 = r3
  alice = alice
  n1 = n1
  n2 = n2
  n3 = n3
  Requests = {r1, r2, r3}
  Authorizations <- FixedPrice
  Consumed = {0}
  Budget = 3
  NoLimit = NoLimit
  NoPayer = NoPayer
  NoNonce = NoNonce
INVARIANT
  SessionWithinBudget
CHECK_DEADLOCK FALSE
