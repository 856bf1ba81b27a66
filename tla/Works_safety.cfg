SPECIFICATION WorksSpec
CONSTANTS
  Requests = {r1, r2}
  None = None
  Boms = {b1, b2, b3}
  b1 = b1
  b2 = b2
  b3 = b3
  Lines = {l1}
  Headers = {h1}
  Materials = {m1, m2}
  Quantities = {1, 2}
  ChangeRequests = {e1}
  Drawings = {d1, d2}
  Revisions = {A, B}
  Contents = {c1, c2}
  Lots = {k1, k2}
  Jobs = {j1}
  Units = {u1}
  Plants = {p1}
  GrnLines = {g1, g2}
  MaxQty = 2
  Buyers = {y1, y2}
INVARIANTS
  WorksTypeOK
  ItemsAreWeighedAsTheyStand
  LineageHolds
  StockIsConserved
  TraceMissesNothing
  SoldHasPassed
PROPERTIES
  FinishedIsFrozen
CHECK_DEADLOCK FALSE
