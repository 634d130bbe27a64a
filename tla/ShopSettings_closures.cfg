CONSTANTS
  cash = cash
  card = card
  mobile = mobile
  light = light
  dark = dark
  k1 = k1
  k2 = k2
  ann = ann
  bob = bob
  o1 = o1
  Method = {cash, card, mobile}
  SystemMethod = {cash}
  Cashier = {ann}
  Theme = {light}
  DefaultTheme = light
  Designer = {ann}
  MaxVersions = 1
  LastDay = 2
  WindowOrder = {o1}
  WindowEditor = {ann}
  RowUnits = 1
  Pack = {k1}
  Merchant = {ann}
  Planner = {ann}
  MostCapacity = 1
SPECIFICATION SettingsSpec
INVARIANTS StaffClosuresRemain
