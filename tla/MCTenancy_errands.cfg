CONSTANTS
  rose = rose  amina = amina  zita = zita  gloria = gloria  dress = dress  bag = bag  x = x  y = y  c1 = c1  c2 = c2  c3 = c3  s1 = s1
  Calls = {c1, c2, c3}
  SellerCalls = {s1, s2}
  Users = {rose, amina}
  Stores = {zita, gloria}
  Products = {dress, bag}
  StoreOf <- MCStoreOf
  Slugs = {x, y, w}
  Requests <- MCRequests
  FirstRoles <- MCFirstRoles
  Orders <- MCOrders
  FirstSlugs <- MCFirstSlugs
  MaxActors = 4
  None = None
SPECIFICATION Spec
INVARIANTS
  TypeOK
  FavoritesAreSound
  CallsAnswerTruly
  RepliesAreJustified
PROPERTIES
  FavoritesGoOnlyOnRequest
  WritesOnlyByMembers
