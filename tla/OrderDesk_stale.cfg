CONSTANTS
  Clerk = {ann, bob}
  MaxItems = 1
  MaxFee = 1
  CatalogPrice = 1
SPECIFICATION DeskSpec
CHECK_DEADLOCK FALSE
INVARIANT StaleIsRefused
