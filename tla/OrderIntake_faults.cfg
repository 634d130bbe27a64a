\* A storefront form and an API client compete for the last capacity; any
\* statement may fail, and a commit that failed may have been carried out.
\* The last request may end with nothing left to do.
CONSTANTS
  Call = {c1, c2, c3}
  Key = {f, g}
  Public = {f}
  p = p
  q = q
  Payload = {p, q}
  Ml <- MCMl
  CapacityMl <- MCCapacity
  NoCall = NoCall
  NoOrder = NoOrder
  MaxBusy = 1
  MaxOuter = 0
  Faults = TRUE
SPECIFICATION Spec
INVARIANT TypeOK
INVARIANT OneOrderPerKey
INVARIANT ReceiptKept
INVARIANT OrdersCovered
SYMMETRY Requests
CHECK_DEADLOCK FALSE
