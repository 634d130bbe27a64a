CONSTANTS
  o1 = o1
  v1 = v1
  u1 = u1
  u2 = u2
  x = x
  y = y
  Clerk = {x, y}
  MaxItems = 1
  MaxFee = 1
  CatalogPrice = 1
  DayOrder = {o1}
  Runner = {x, y}
  Reader = {u1}
  Review = {v1}
  Moderator = {x, y}
  Rating = {4, 5}
  Customer = {x, y}
  CustomerOrder = {o1}
  Mobile = {"m"}
  Keeper = {x, y}
  Tab = {x, y}
  IdleTicks = 2
  Lifetime = 3
  MaxDelay = 1
  Member = {u1, u2}
  Entry = {x, y}
  Query = {u1, u2}
SYMMETRY OfficeSymmetry
SPECIFICATION OfficeSpec
CHECK_DEADLOCK FALSE
INVARIANTS OfficeTypeOK PageShowsTruth BooksBalance HandoverIsPriced RemindersAreQueued PublicIsCleared RollupTells OrdersKeepCustomer NoEarlyGoodbye ControlStays PagesFollowStaff
PROPERTIES PicksWhatIsDue RetentionRechecks
