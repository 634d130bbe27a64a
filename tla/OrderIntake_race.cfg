\* A storefront form whose requests overlap, on a database without errors.
\* The last request may end with nothing left to do.
CONSTANTS
  Call = {c1, c2, c3}
  Key = {form}
  Public = {form}
  p = p
  q = q
  Payload = {p, q}
  Ml <- MCMl
  CapacityMl <- MCCapacity
  NoCall = NoCall
  NoOrder = NoOrder
  MaxBusy = 1
  MaxOuter = 1
  Faults = FALSE
SPECIFICATION FairSpec
PROPERTY KeepsOncePromise
PROPERTY AnsweredInTheEnd
INVARIANT ReceiptMatches
CHECK_DEADLOCK FALSE
