SPECIFICATION Spec
CONSTANTS
  r1 = r1
  r2 = r2
  r3 = r3
  alice = alice
  n1 = n1
  n2 = n2
  n3 = n3
  Requests = {r1, r2, r3}
  Authorizations <- MCAuthorizations
  Consumed = {0, 1}
  Budget = 3
  NoLimit = NoLimit
  NoPayer = NoPayer
  NoNonce = NoNonce
INVARIANTS
  TypeOK
  OneAdmissionPerNonce
  TotalsMatchCalls
  RecordedIsWhatMoved
  RefusalsAreFree
  OneOpenSession
  SerialSessionWithinBudget
SYMMETRY RequestSymmetry
CHECK_DEADLOCK FALSE
