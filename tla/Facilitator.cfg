SPECIFICATION Spec
CONSTANTS
  metered = metered
  plain = plain
  c1 = c1
  c2 = c2
  p1 = p1
  p2 = p2
  Nobody = Nobody
  Calls = {c1, c2}
  Probers = {p1, p2}
  Tools = {metered, plain}
  Declared <- MCDeclared
  Backoff = 1
INVARIANTS
  OffersStayGood
  CheaperOfferFirst

PROPERTIES
  FacilitatorIsFound
CHECK_DEADLOCK FALSE
