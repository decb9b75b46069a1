SPECIFICATION Spec
CONSTANTS
  patch1 = patch1  announce = announce
  sub1 = sub1  sub2 = sub2
  order1 = order1
  zita = zita  gloria = gloria  aline = aline  bea = bea
  phone = phone
  Sellers = {patch1}
  Announcers = {announce}
  Subscribers = {sub1, sub2}
  Orders = {order1}
  Statuses = {"confirmed"}
  Stores = {zita, gloria}
  Users = {aline, bea}
  Endpoints = {phone}
  StoreOf <- MCStoreOf
  CustomerOf <- MCCustomerOf
  Registrations <- MCRegistrations
  None = None
INVARIANTS TypeOK PushesAreRight 
PROPERTIES ImplementsRegistry LiveBrowsersStayRegistered
SYMMETRY SubscriberSymmetry
CHECK_DEADLOCK FALSE
