CONSTANTS
  b1 = b1  p1 = p1  p2 = p2  s1 = s1  s2 = s2  e1 = e1  e2 = e2
  Bookings = {b1}  Payments = {p1, p2}  Guests = {}
  Sessions = {s1, s2}  Events = {e1, e2}
  BookingOf <- MCBookingOf  GuestOf <- MCGuestOf  Kind <- MCKind  Due <- MCWholeDue
  Total <- MCTotal  SessionPayment <- MCSessionPayment
  EventSession <- MCEventSession  ExpiryRank <- MCExpiryRank
  Client = Client  Nothing = Nothing
  BornSessions = {s1, s2}  CashPayments = {}  EarlyEvents = {}
  StartStatuses = {"hold"}  StartPayStatuses = {"waiting_payment"}
  Sunset = FALSE  BatchSize = 1
  Hooks = {h1}  Reconcilers = {r1}  Cancellers = {}  Expirers = {}
  LinkMakers = {}  LinkCancellers = {}  Clerks = {}
  MaxFailures = 0
SPECIFICATION Spec
INVARIANTS RecordedInFull
CHECK_DEADLOCK FALSE
