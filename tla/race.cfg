CONSTANTS
  b1 = b1  p1 = p1  p2 = p2  s1 = s1  s2 = s2  e1 = e1  e2 = e2
  Bookings = {b1}  Payments = {p1, p2}  Guests = {}
  Sessions = {s1, s2}  Events = {e1, e2}
  BookingOf <- MCBookingOf  GuestOf <- MCGuestOf  Kind <- MCKind  Due <- MCDue
  Total <- MCTotal  SessionPayment <- MCSessionPayment
  EventSession <- MCEventSession  ExpiryRank <- MCExpiryRank
  Client = Client  Nothing = Nothing
  BornSessions = {s1, s2}  CashPayments = {}  EarlyEvents = {}
  StartStatuses = {"hold", "payment_pending"}  StartPayStatuses = {"waiting_payment"}
  Sunset = TRUE  BatchSize = 1
  Hooks = {h1, h2}  Reconcilers = {r1}  Cancellers = {c1}  Expirers = {x1}
  LinkMakers = {}  LinkCancellers = {}  Clerks = {}
  MaxFailures = 1
SPECIFICATION Spec
SYMMETRY HookSymmetry
INVARIANTS TypeOK NoMoneyOnCancelled PaidIsCollected LedgerAgrees NotifiedIsLive ClaimIsRecorded
PROPERTIES PaidStaysPaid ClosedStaysClosed KeepsLedger
CHECK_DEADLOCK FALSE
