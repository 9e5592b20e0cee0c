SPECIFICATION CatalogueSpec
CONSTANTS
  alice = alice
  bob = bob
  n1 = n1
  n2 = n2
  n3 = n3
  c1 = c1
  c2 = c2
  c3 = c3
  NoPayment = NoPayment
  Invocations = {c1, c2}
  Payments <- MCPayments
  Consumed = {0, 1}
  Base = 1
  Ceiling = 2
  OtherPrice = 3
  Syncs = TRUE
  Restarts = 1
INVARIANTS
  RollupsAddUp
  NoFalseTransaction
  PaidIsRecorded
CHECK_DEADLOCK FALSE
