SPECIFICATION MCSpec

CONSTANTS
  Requests = {r1, r2}
  Years = {y1, y2}
  Invoices = {i1}
  MaxItems = 2
  Quantities <- OneMoreOrLess
  Amounts = {1, 2}
  MaxTaken = 1
  MaxReceived = 1
  MaxPos = 3

SYMMETRY Symmetry

INVARIANTS
  TypeOK
  NumbersGapFree
  ReceivedIsAccepted
  DraftHasNoReceipts
  ReceivedIsEarned
  ApprovedIsCovered

CHECK_DEADLOCK FALSE
