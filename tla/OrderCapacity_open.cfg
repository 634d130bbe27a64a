CONSTANTS
  o1 = o1
  o2 = o2
  o3 = o3
  p1 = p1
  p2 = p2
  k1 = k1
  k2 = k2
  s1 = s1
  s2 = s2
  OrderId = {o1, o2}
  Product = {p1}
  Package = {k1}
  ProductOf <- OneProduct
  Horizon = 1
  SeasonId = {s1}
  SeasonStatus = {"ACTIVE"}
  NoSeason = NoSeason
  NoRow = NoRow
  Volume = {1, 2}
  CapacityChoice = {2}
  ProvisionedMl = 2
  Careful = FALSE
SYMMETRY OrderSymmetry
SPECIFICATION Spec
INVARIANTS HistoricalHoldsNothing
PROPERTIES SoldOutNeverSells
