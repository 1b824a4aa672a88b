CONSTANTS
  b1 = b1  p1 = p1  p2 = p2  g1 = g1  s1 = s1  s2 = s2  s3 = s3  e1 = e1  e2 = e2  e3 = e3
  Bookings = {b1}  Payments = {p1, p2}  Guests = {g1}
  Sessions = {s1, s2, s3}  Events = {e1, e2, e3}
  BookingOf <- MCBookingOf  GuestOf <- MCGuestOf  Kind <- MCKind  Due <- MCDue
  Total <- MCTotal  SessionPayment <- MCSessionPayment
  EventSession <- MCEventSession  ExpiryRank <- MCExpiryRank
  Client = Client  Nothing = Nothing
  BornSessions = {}  CashPayments = {}  EarlyEvents = {}
  StartStatuses = {"hold"}  StartPayStatuses = {"waiting_payment"}
  Sunset = FALSE  BatchSize = 1
  Hooks = {h1}  Reconcilers = {}  Cancellers = {c1}  Expirers = {}
  LinkMakers = {m1, m2}  LinkCancellers = {k1}  Clerks = {}
  MaxFailures = 0
SPECIFICATION Spec
INVARIANTS NoMixedScope NoMoneyOnCancelled PaidIsCollected
CHECK_DEADLOCK FALSE
