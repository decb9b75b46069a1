CONSTANTS
  Requests = {r1, r2}
  Deleters = {d1}
  Editors = {}
  AdminErases = TRUE
  Stores = {s1, s2}
  Customers = {c1}
  Keys = {k1, k2}
  Products = {dress, foreign}
  Options = {red, blue}
  s1 = s1
  s2 = s2
  c1 = c1
  k1 = k1
  k2 = k2
  dress = dress
  foreign = foreign
  red = red
  blue = blue
  StoreOf <- MCStoreOf
  OptionsOf <- MCOptionsOf
  Payloads <- Contested
  Prices = {1}
  MaxInt = 4
  None = None
SPECIFICATION FairSpec
INVARIANTS
  OneOrderPerKey
  RepliesAgree
  AnswersTellTheTruth
  StoreKeepsItsProducts
PROPERTIES
  ImplementsLedger
  EveryCallIsAnswered
