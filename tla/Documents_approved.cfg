SPECIFICATION Spec

CONSTANTS
  Admins = {a1, a2}
  Workers = {w1, w2}
  LastDay = 2
  PeriodStart = 2
  MaxContracts = 2
  MaxData = 1

PROPERTY
  ApprovedPdfIsKept
