SPECIFICATION Spec

CONSTANTS
  Requests = {r1, r2}
  Years = {y1}
  Invoices = {i1}
  MaxItems = 2
  Quantities = {1}
  Amounts = {1}
  MaxTaken = 0
  MaxReceived = 2
  MaxPos = 1

INVARIANT
  PartialIsPartial
