SPECIFICATION Spec

CONSTANTS
  Admins = {a1, a2}
  Workers = {w1, w2}
  LastDay = 3
  PeriodStart = 2
  MaxContracts = 2
  MaxData = 2

SYMMETRY Symmetry

INVARIANTS
  TypeOK
  LatestAgreedApplies

PROPERTIES
  WrittenWasStored
  ApprovedIsFrozen
  LoneRunHeals
