CONSTANTS
  b1 = b1  b2 = b2  p1 = p1  p2 = p2  s1 = s1  s2 = s2  e1 = e1  e2 = e2
  Bookings = {b1, b2}  Payments = {p1, p2}  Guests = {}
  Sessions = {s1, s2}  Events = {e1, e2}
  BookingOf <- MCBookingOf  GuestOf <- MCGuestOf  Kind <- MCKind  Due <- MCDue
  Total <- MCTotal  SessionPayment <- MCSessionPayment
  EventSession <- MCEventSession  ExpiryRank <- MCExpiryRank
  Client = Client  Nothing = Nothing
  BornSessions = {s1, s2}  CashPayments = {}  EarlyEvents = {}
  StartStatuses = {"hold"}  StartPayStatuses = {"waiting_payment"}
  Sunset = FALSE  BatchSize = 2
  Hooks = {h1}  Reconcilers = {}  Cancellers = {}  Expirers = {x1}
  LinkMakers = {}  LinkCancellers = {}  Clerks = {}
  MaxFailures = 1
SPECIFICATION FairSpec
PROPERTIES MoneyLands OverdueIsReleased TransactionsEnd
CHECK_DEADLOCK FALSE
