SPECIFICATION FairSpec
CONSTANTS
  all = all  fresh = fresh  zita = zita  gloria = gloria
  Orders = {1, 2, 4}
  Stores = {zita, gloria}
  Statuses = {"new", "confirmed"}
  Pollers = {all, fresh}
  StoreOf <- MCStoreOf
  StoreAt <- MCStoreAt
  Filter <- MCFilter
  BreaksTies = {all}
  PerMilli = 2
  MaxTime = 3
  None = None
INVARIANTS TypeOK CursorsAreHonest
PROPERTY OrderReachesInbox
CHECK_DEADLOCK FALSE
