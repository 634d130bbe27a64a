\* A storefront form on a database that may fail.
CONSTANTS
  Call = {c1, c2}
  Key = {form}
  Public = {form}
  p = p
  q = q
  Payload = {p, q}
  Ml <- MCMl
  CapacityMl <- MCCapacity
  NoCall = NoCall
  NoOrder = NoOrder
  MaxBusy = 1
  MaxOuter = 1
  Faults = TRUE
SPECIFICATION Spec
INVARIANT ReceiptMatches
CHECK_DEADLOCK FALSE
