CONSTANTS
  cash = cash
  card = card
  mobile = mobile
  light = light
  dark = dark
  k1 = k1
  k2 = k2
  ann = ann
  bob = bob
  o1 = o1
  Method = {cash, card, mobile}
  SystemMethod = {cash}
  Cashier = {ann, bob}
  Theme = {light, dark}
  DefaultTheme = light
  Designer = {ann, bob}
  MaxVersions = 4
  LastDay = 2
  WindowOrder = {o1}
  WindowEditor = {ann, bob}
  RowUnits = 1
  Pack = {k1, k2}
  Merchant = {ann, bob}
  Planner = {ann, bob}
  MostCapacity = 2
SYMMETRY StaffSymmetry
SPECIFICATION SettingsSpec
INVARIANTS SettingsTypeOK AMethodRemains LiveIsPublished OrdersInWindow EditRepairs OrderedPackStays
PROPERTIES PublishedIsKept PublishesWhatItShows DefaultsKept PlannersActOnTruth
