CONSTANTS
  Requests = {r1, r2}
  Deleters = {d1, d2}
  Editors = {e1}
  AdminErases = FALSE
  Stores = {s1, s2}
  Customers = {c1}
  Keys = {k1, k2}
  Products = {dress}
  Options = {red, blue}
  s1 = s1
  s2 = s2
  c1 = c1
  k1 = k1
  k2 = k2
  dress = dress
  foreign = foreign
  red = red
  blue = blue
  StoreOf <- MCStoreOf
  OptionsOf <- MCOptionsOf
  Payloads <- Bags
  Prices = {1, 2}
  MaxInt = 4
  None = None
SPECIFICATION Spec
SYMMETRY RequestSymmetry
INVARIANTS
  TypeOK
  OrderIsWhole
  LinesReferenceLiveProducts
PROPERTY OrdersAreFrozen
