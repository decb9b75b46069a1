CONSTANTS
  zita = zita  gloria = gloria  dress = dress  skirt = skirt  shirt = shirt  foreign = foreign
  tops = tops  more = more  red = red  blue = blue  s = s  pair = pair  silk = silk
  Products = {dress, skirt, shirt, foreign}
  Stores = {zita, gloria}
  Shelves = {tops, more}
  Values = {red, blue, s, pair}
  Words = {silk}
  Prices = {1, 2}
  Sheet <- MCSheet
  Axis <- MCAxis
  Split <- MCSplit
  Stamps = {2, 4}
  Catalogs <- MCCatalogs
  Patches <- MCPatches
  Requests <- MCRequests
  MaxPage = 2
  MaxWrites = 2
  None = None
SPECIFICATION Spec
INVARIANTS
  TypeOK
  OnlyDisplayedIsTold
  FacetsMatchTheGrid
  StaleFacetsAreBounded
  WalksStrayOnlyAfterChange
  CardsAreRepresentative
  DetailTearsOnce
CHECK_DEADLOCK FALSE
