----------------------------- MODULE MoneyStore -----------------------------
(* The rows of the Staff API's Postgres database that money passes through,  *)
(* the row locks its transactions take on them, and Stripe's side of a       *)
(* checkout.  The handlers that work on this state are modules of their own  *)
(* (StripeWebhook, StripeReconcile, UnpaidCancellation, HoldExpiry,          *)
(* PaymentLinks, ManualPayment); BookingMoney composes them.                 *)
(*                                                                           *)
(* A transaction is an actor that climbs through its locks and applies all   *)
(* its writes in the step that commits.  That is faithful because every      *)
(* write of a payment row happens under the update lock of its booking: the  *)
(* handlers take it, and the trigger of migration 124 takes it for those     *)
(* that do not.  Rows nested under the booking lock that no other            *)
(* transaction locks first (booking_guests, booking_beds) have no lock of    *)
(* their own here.  Lock queues are not ordered.                             *)
EXTENDS PaymentState, FiniteSets, FiniteSetsExt

CONSTANTS
  Bookings, Payments, Guests,  \* rows
  Sessions,                    \* Stripe checkout sessions
  Events,                      \* Stripe events about those sessions
  Client,                      \* the row of the one tenant
  Nothing,                     \* "NULL"
  BookingOf,                   \* payments.booking_id
  GuestOf,                     \* payments.booking_guest_id, or Nothing
  Kind, Due,                   \* payments.payment_kind, amount_due_cents
  Total,                       \* bookings.total_amount_cents
  SessionPayment,              \* metadata.payment_id of a session
  BornSessions,                \* sessions already attached to their payment
  CashPayments,                \* rows a clerk may insert; absent at first
  EventSession,                \* the session an event is about
  EarlyEvents,                 \* "completed" events sent before the money came
  StartStatuses,               \* booking and payment statuses a booking may
  StartPayStatuses,            \*   begin in
  Sunset,                      \* the Sunset staging scope of the policy
  ExpiryRank, BatchSize,       \* ORDER BY hold_expires_at LIMIT batchSize
  Hooks, Reconcilers, Cancellers, Expirers,
  LinkMakers, LinkCancellers, Clerks,
  MaxFailures                  \* bound on transactions that fail

Actors == Hooks \cup Reconcilers \cup Cancellers \cup Expirers
            \cup LinkMakers \cup LinkCancellers \cup Clerks

PaymentKinds == {"deposit_only", "full_amount", "addon_service"}

ASSUME RowAssumption ==
  /\ IsFiniteSet(Bookings) /\ IsFiniteSet(Payments)
  /\ IsFiniteSet(Guests) /\ IsFiniteSet(Events)
  /\ Bookings \cap Payments = {} /\ Bookings \cap Events = {}
  /\ Payments \cap Events = {} /\ Sessions \cap Events = {}
  /\ Sessions \cap (Payments \cup Bookings) = {}
  /\ Client \notin Bookings \cup Payments \cup Events
  /\ Nothing \notin Bookings \cup Payments \cup Events \cup Sessions \cup Guests

ASSUME LinkAssumption ==
  /\ BookingOf \in [Payments -> Bookings]
  /\ GuestOf \in [Payments -> Guests \cup {Nothing}]
  /\ Kind \in [Payments -> PaymentKinds]
  /\ Due \in [Payments -> Nat \ {0}]
  /\ Total \in [Bookings -> Nat]
  /\ SessionPayment \in [Sessions -> Payments]
  /\ EventSession \in [Events -> Sessions]
  /\ BornSessions \subseteq Sessions
  /\ \A s, t \in BornSessions : SessionPayment[s] = SessionPayment[t] => s = t
  /\ \A s, t \in BornSessions :        \* attached under the trigger already
       BookingOf[SessionPayment[s]] = BookingOf[SessionPayment[t]] =>
         (GuestOf[SessionPayment[s]] = Nothing) = (GuestOf[SessionPayment[t]] = Nothing)
  /\ CashPayments \subseteq Payments
  /\ \A s \in Sessions : SessionPayment[s] \notin CashPayments
  /\ \A p \in CashPayments : Kind[p] = "full_amount"
  /\ EarlyEvents \subseteq Events
  /\ StartStatuses \subseteq {"hold", "payment_pending", "confirmed"}
  /\ StartPayStatuses \subseteq {"not_requested", "waiting_payment"}
  /\ Sunset \in BOOLEAN
  /\ ExpiryRank \in [Bookings -> Nat] /\ BatchSize \in Nat \ {0}
  /\ MaxFailures \in Nat

ASSUME ActorAssumption ==
  /\ IsFiniteSet(Actors)
  /\ Hooks \cap (Reconcilers \cup Cancellers \cup Expirers \cup LinkMakers
                   \cup LinkCancellers \cup Clerks) = {}
  /\ Reconcilers \cap (Cancellers \cup Expirers \cup LinkMakers
                         \cup LinkCancellers \cup Clerks) = {}
  /\ Cancellers \cap (Expirers \cup LinkMakers \cup LinkCancellers \cup Clerks) = {}
  /\ Expirers \cap (LinkMakers \cup LinkCancellers \cup Clerks) = {}
  /\ LinkMakers \cap (LinkCancellers \cup Clerks) = {}
  /\ LinkCancellers \cap Clerks = {}

VARIABLES
  booking,     \* bookings: status, payStatus, beds (still assigned)
  payment,     \* payments: status, session, url (checkout_url set)
  bookingPaid, paymentPaid, guestPaid,  \* their amount_paid_cents
  claimed,     \* events with a committed payment_events row
  locks,       \* row locks held by open transactions
  job,         \* where each actor stands: step, subject, hold lapsed at BEGIN
  checkout,    \* Stripe: state of each session
  delivery,    \* Stripe: "none", "due" or "acked" for each event
  lapsed,      \* has hold_expires_at passed?
  notified,    \* bookings whose guest was sent the confirmation
  failures     \* transactions lost so far

amounts == <<bookingPaid, paymentPaid, guestPaid>>
ledger == <<booking, payment, amounts>>
stripe == <<checkout, delivery>>

vars == <<booking, payment, bookingPaid, paymentPaid, guestPaid, claimed, locks,
          job, checkout, delivery, lapsed, notified, failures>>

-----------------------------------------------------------------------------
(* Row locks, with the conflict table of Postgres.                           *)

Modes == {"keyshare", "nokey", "update"}

Rows == Bookings \cup Payments \cup Events \cup {Client}

Conflicting(m, n) == \/ "update" \in {m, n}
                     \/ m = "nokey" /\ n = "nokey"

Need(r, m) == [row |-> r, mode |-> m]

(* The locks other transactions hold that keep a from getting n.             *)
Blockers(a, n) ==
  {l.by : l \in {k \in locks : k.row = n.row /\ k.by # a /\ Conflicting(k.mode, n.mode)}}

Grantable(a, needs) == \A n \in needs : Blockers(a, n) = {}

Lock(a, needs) ==
  /\ Grantable(a, needs)
  /\ locks' = locks \cup {[by |-> a, row |-> n.row, mode |-> n.mode] : n \in needs}

Unlock(a) == locks' = {l \in locks : l.by # a}

-----------------------------------------------------------------------------
(* Jobs.                                                                     *)

Steps == {"idle", "claim", "sharePayment", "shareBooking", "lock", "apply",
          "addonLock", "addonApply", "again", "reapply", "notify",
          "lockClient", "lockPayment", "link", "write"}

Subjects == Bookings \cup Payments \cup Sessions \cup Events \cup {Nothing}

Idle == [at |-> "idle", on |-> Nothing, late |-> FALSE]

Start(a, step, subject, late) ==
  /\ job[a].at = "idle"
  /\ job' = [job EXCEPT ![a] = [at |-> step, on |-> subject, late |-> late]]

Go(a, step) == job' = [job EXCEPT ![a].at = step]

(* COMMIT or ROLLBACK, and the handler returns.                              *)
Finish(a) == Unlock(a) /\ job' = [job EXCEPT ![a] = Idle]

InTransaction(a) == job[a].at \notin {"idle", "notify"}

-----------------------------------------------------------------------------
(* What the tables say.                                                      *)

PaymentsOf(b) == {p \in Payments : BookingOf[p] = b}

PaidPayments(b) == {p \in PaymentsOf(b) : payment[p].status = "paid"}

(* sumCompletedPaymentCentsForBooking: every paid row but the one in hand.   *)
PaidElsewhere(b, p) == MapThenSumSet(LAMBDA q : paymentPaid[q], PaidPayments(b) \ {p})

(* No row, or one a cancelled booking may keep: the triggers of migration    *)
(* 124 accept no other.                                                      *)
Harmless(p) == /\ payment[p].status \in DeadStatuses \cup {"absent"}
               /\ paymentPaid[p] = 0
               /\ payment[p].session = Nothing
               /\ ~payment[p].url

(* Mutant: the trigger of migration 124 is missing.                          *)
TakesAllMoney(b) == TRUE

(* The trigger on payments raises for money on a cancelled booking.          *)
TakesMoney(b) == booking[b].status # "cancelled"

(* Mutant: the guest's other payments are forgotten.                         *)
GuestTotalAlone(p, amount) == amount

(* The aggregate of the guest of p, once p carries "amount".                 *)
GuestTotal(p, amount) ==
  amount + MapThenSumSet(LAMBDA q : paymentPaid[q],
             {q \in PaidPayments(BookingOf[p]) \ {p} : GuestOf[q] = GuestOf[p]})

GuestPaidWith(p, amount) ==
  [g \in Guests |-> IF g = GuestOf[p] THEN GuestTotal(p, amount) ELSE guestPaid[g]]

-----------------------------------------------------------------------------
(* Initially the bookings wait for their money and every born session is the *)
(* open checkout of its payment.                                             *)

FirstSession(p) ==
  LET born == {s \in BornSessions : SessionPayment[s] = p}
  IN IF born = {} THEN Nothing ELSE CHOOSE s \in born : TRUE

StoreInit ==
  /\ booking \in [Bookings -> [status : StartStatuses, payStatus : StartPayStatuses,
                               beds : {TRUE}]]
  /\ payment = [p \in Payments |->
                  [status  |-> CASE p \in CashPayments -> "absent"
                                 [] FirstSession(p) # Nothing -> "checkout_created"
                                 [] OTHER -> "draft",
                   session |-> FirstSession(p),
                   url     |-> FirstSession(p) # Nothing]]
  /\ bookingPaid = [b \in Bookings |-> 0]
  /\ paymentPaid = [p \in Payments |-> 0]
  /\ guestPaid = [g \in Guests |-> 0]
  /\ claimed = {}
  /\ locks = {}
  /\ job = [a \in Actors |-> Idle]
  /\ checkout = [s \in Sessions |-> IF s \in BornSessions THEN "open" ELSE "unborn"]
  /\ delivery = [e \in Events |-> "none"]
  /\ lapsed = [b \in Bookings |-> FALSE]
  /\ notified = {}
  /\ failures = 0

-----------------------------------------------------------------------------
(* Stripe and the clock.                                                     *)

(* The guest submits the checkout; a delayed payment method has not moved    *)
(* the money yet.                                                            *)
CompleteCheckout(s) ==
  /\ checkout[s] = "open"
  /\ \E e \in EarlyEvents : EventSession[e] = s
  /\ checkout' = [checkout EXCEPT ![s] = "processing"]
  /\ delivery' = [e \in Events |-> IF EventSession[e] = s /\ e \in EarlyEvents
                                   THEN "due" ELSE delivery[e]]
  /\ UNCHANGED <<ledger, claimed, locks, job, lapsed, notified, failures>>

(* The money arrives, and Stripe has the events that say so to deliver.      *)
PayCheckout(s) ==
  /\ checkout[s] \in {"open", "processing"}
  /\ checkout' = [checkout EXCEPT ![s] = "paid"]
  /\ delivery' = [e \in Events |-> IF EventSession[e] = s /\ e \notin EarlyEvents
                                   THEN "due" ELSE delivery[e]]
  /\ UNCHANGED <<ledger, claimed, locks, job, lapsed, notified, failures>>

LapseHold(b) ==
  /\ ~lapsed[b]
  /\ lapsed' = [lapsed EXCEPT ![b] = TRUE]
  /\ UNCHANGED <<ledger, claimed, locks, job, stripe, notified, failures>>

(* A link maker whose write failed answers with an error that still carries  *)
(* the checkout URL of its session.                                          *)
Surface(a) ==
  checkout' = IF a \in LinkMakers THEN [checkout EXCEPT ![job[a].on] = "open"] ELSE checkout

(* A webhook in the reconciliation it gives a duplicate swallows whatever    *)
(* goes wrong there and answers 200.                                         *)
Swallows(a) == a \in Hooks /\ job[a].at \in {"again", "reapply"}

AnswerAborted(a) ==
  delivery' = IF Swallows(a) THEN [delivery EXCEPT ![job[a].on] = "acked"] ELSE delivery

(* A transaction is lost: an error, a dropped connection, a process that     *)
(* dies.  Postgres rolls it back; a webhook has answered 500 or nothing, so  *)
(* its event stays due, unless it swallowed the error.  After the commit     *)
(* ("notify") only the handler dies.                                         *)
Fail(a) ==
  /\ job[a].at # "idle"
  /\ failures < MaxFailures
  /\ failures' = failures + 1
  /\ Finish(a)
  /\ Surface(a) \/ UNCHANGED checkout
  /\ AnswerAborted(a) \/ UNCHANGED delivery
  /\ UNCHANGED <<ledger, claimed, lapsed, notified>>
=============================================================================
