CONSTANTS
  b1 = b1  p1 = p1  addon = addon  s1 = s1  s2 = s2  e1 = e1  early = early  e2 = e2
  Bookings = {b1}  Payments = {p1, addon}  Guests = {}
  Sessions = {s1, s2}  Events = {e1, early, e2}
  BookingOf <- MCBookingOf  GuestOf <- MCGuestOf  Kind <- MCKind  Due <- MCDue
  Total <- MCTotal  SessionPayment <- MCSessionPayment
  EventSession <- MCEventSession  ExpiryRank <- MCExpiryRank
  Client = Client  Nothing = Nothing
  BornSessions = {s1, s2}  CashPayments = {}  EarlyEvents = {early}
  StartStatuses = {"hold"}  StartPayStatuses = {"waiting_payment"}
  Sunset = FALSE  BatchSize = 1
  Hooks = {h1, h2}  Reconcilers = {}  Cancellers = {c1}  Expirers = {}
  LinkMakers = {}  LinkCancellers = {}  Clerks = {}
  MaxFailures = 1
SPECIFICATION Spec
INVARIANTS NoMoneyOnCancelled ClaimIsRecorded
CHECK_DEADLOCK FALSE
