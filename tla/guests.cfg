CONSTANTS
  b1 = b1  g1 = g1  g2 = g2  p1 = p1  p2 = p2  cash = cash  s1 = s1  s2 = s2  e1 = e1  e2 = e2
  Bookings = {b1}  Payments = {p1, p2, cash}  Guests = {g1, g2}
  Sessions = {s1, s2}  Events = {e1, e2}
  BookingOf <- MCBookingOf  GuestOf <- MCGuestOf  Kind <- MCKind  Due <- MCDue
  Total <- MCTotal  SessionPayment <- MCSessionPayment
  EventSession <- MCEventSession  ExpiryRank <- MCExpiryRank
  Client = Client  Nothing = Nothing
  BornSessions = {s1, s2}  CashPayments = {cash}  EarlyEvents = {}
  StartStatuses = {"payment_pending"}  StartPayStatuses = {"not_requested", "waiting_payment"}
  Sunset = TRUE  BatchSize = 1
  Hooks = {h1, h2}  Reconcilers = {r1}  Cancellers = {}  Expirers = {}
  LinkMakers = {}  LinkCancellers = {}  Clerks = {k1}
  MaxFailures = 0
SPECIFICATION Spec
INVARIANTS LedgerAgrees PaidInFull
CHECK_DEADLOCK FALSE
