---------------------------- MODULE BookingMoney ----------------------------
(* The money spine of the Staff API: the Stripe webhook, the reconciler, the *)
(* cancellation of unpaid bookings, the hold expiry, the makers and          *)
(* cancellers of payment links and the clerk's manual payment, interleaved   *)
(* over the one database, with Stripe, the clock and lost transactions       *)
(* around them.  Per-guest checkout and Luna's own booking flow, which also  *)
(* create payment rows and links, are not here.                              *)
EXTENDS StripeWebhook, StripeReconcile, UnpaidCancellation, HoldExpiry,
        PaymentLinks, ManualPayment

(* The locks the next step of an actor waits for.                            *)
Needs(a) == CASE a \in Hooks -> HookNeeds(a)
              [] a \in Reconcilers -> ReconcilerNeeds(a)
              [] a \in Cancellers -> CancellerNeeds(a)
              [] a \in Expirers -> ExpirerNeeds(a)
              [] a \in Clerks -> ClerkNeeds(a)
              [] OTHER -> LinkNeeds(a)

WaitsFor(a) == UNION {Blockers(a, n) : n \in Needs(a)}

(* A ring of transactions, each waiting for one of the others.               *)
Deadlocked(D) ==
  /\ D # {}
  /\ \A a \in D : WaitsFor(a) \cap D # {} /\ \E c \in D : a \in WaitsFor(c)

(* Mutant: a webhook whose transaction was aborted answers 200.              *)
AbortAcked(a) ==
  /\ \E D \in SUBSET Actors : a \in D /\ Deadlocked(D)
  /\ Finish(a)
  /\ Surface(a)
  /\ delivery' = IF a \in Hooks THEN [delivery EXCEPT ![job[a].on] = "acked"] ELSE delivery
  /\ UNCHANGED <<ledger, claimed, lapsed, notified, failures>>

(* Postgres finds the ring and aborts one of it: rollback, and a webhook     *)
(* answers 500, or 200 where it swallows the error.                          *)
AbortDeadlocked(a) ==
  /\ \E D \in SUBSET Actors : a \in D /\ Deadlocked(D)
  /\ Finish(a)
  /\ Surface(a)
  /\ AnswerAborted(a)
  /\ UNCHANGED <<ledger, claimed, lapsed, notified, failures>>

Step(a) == \/ a \in Hooks /\ HookNext(a)
           \/ a \in Reconcilers /\ ReconcilerNext(a)
           \/ a \in Cancellers /\ CancellerNext(a)
           \/ a \in Expirers /\ ExpirerNext(a)
           \/ a \in LinkMakers /\ LinkMakerNext(a)
           \/ a \in LinkCancellers /\ LinkCancellerNext(a)
           \/ a \in Clerks /\ ClerkNext(a)
           \/ AbortDeadlocked(a)
           \/ Fail(a)

World == \/ \E s \in Sessions : CompleteCheckout(s) \/ PayCheckout(s)
         \/ \E b \in Bookings : LapseHold(b)

Init == StoreInit

Next == (\E a \in Actors : Step(a)) \/ World

Spec == Init /\ [][Next]_vars

-----------------------------------------------------------------------------
(* Types.  The amounts are sums; LedgerAgrees says what they are.            *)

BookingRow == [status : BookingStatuses, payStatus : PayStatuses, beds : BOOLEAN]

PaymentRow == [status : PaymentStatuses, session : Sessions \cup {Nothing}, url : BOOLEAN]

LedgerTyped ==
  /\ booking \in [Bookings -> BookingRow]
  /\ payment \in [Payments -> PaymentRow]
  /\ bookingPaid = [b \in Bookings |-> bookingPaid[b]]
  /\ paymentPaid = [p \in Payments |-> paymentPaid[p]]
  /\ guestPaid = [g \in Guests |-> guestPaid[g]]

LocksTyped == locks \subseteq [by : Actors, row : Rows, mode : Modes]

JobsTyped == job \in [Actors -> [at : Steps, on : Subjects, late : BOOLEAN]]

WorldTyped ==
  /\ claimed \subseteq Events
  /\ checkout \in [Sessions -> {"unborn", "made", "open", "processing", "paid"}]
  /\ delivery \in [Events -> {"none", "due", "acked"}]
  /\ lapsed \in [Bookings -> BOOLEAN]
  /\ notified \subseteq Bookings
  /\ failures \in 0 .. MaxFailures

(* Every handler leaves every row and every lock well formed.                *)
TypeOK == LedgerTyped /\ LocksTyped /\ JobsTyped /\ WorldTyped

-----------------------------------------------------------------------------
(* Safety.                                                                   *)

(* A cancelled booking carries no money and nothing left that could collect  *)
(* any, whatever was under way when it was cancelled (migration 124).        *)
NoMoneyOnCancelled ==
  \A p \in Payments : booking[BookingOf[p]].status = "cancelled" => Harmless(p)

(* A booking payment is paid only if Stripe holds the money of the very      *)
(* session its row carries.                                                  *)
PaidIsCollected ==
  \A p \in Payments \ CashPayments :
    Settled(p) /\ ~IsAddon(p) =>
      payment[p].session # Nothing /\ checkout[payment[p].session] = "paid"

(* A claimed event is never forgotten money: claim and effect are one        *)
(* transaction, and nothing undoes the effect.                               *)
ClaimIsRecorded == \A e \in claimed : Settled(EventPayment(e))

SumPaid(S) == MapThenSumSet(LAMBDA p : paymentPaid[p], {p \in S : Settled(p)})

(* Booking and guest rows repeat what their paid payments sum to; the        *)
(* webhook caps the booking at its total, the clerk does not.                *)
LedgerAgrees ==
  /\ \A b \in Bookings :
       AtMost(bookingPaid[b], Total[b]) = AtMost(SumPaid(PaymentsOf(b)), Total[b])
  /\ \A g \in Guests : guestPaid[g] = SumPaid({p \in Payments : GuestOf[p] = g})

(* A booking counts as paid only when its paid payments reach its total: a   *)
(* guest's share or a superseded link never settles the whole                *)
(* (deriveBookingPaymentState).                                              *)
PaidInFull ==
  \A b \in Bookings :
    booking[b].payStatus = "paid" /\ Total[b] > 0 => SumPaid(PaymentsOf(b)) >= Total[b]

(* A booking never offers open checkouts to single guests and to the whole   *)
(* group at once (reject_mixed_booking_checkout_scope).                      *)
NoMixedScope == \A p \in Payments : ~(OpenLink(p) /\ MixedScope(p))

(* No confirmation is out for a booking that is not live.                    *)
NotifiedIsLive == \A b \in notified : booking[b].status \in AutoConfirmStatuses

(* Money once recorded stays as it was recorded.                             *)
PaidStaysPaid ==
  [][\A p \in Payments : Settled(p) =>
       payment'[p].status = "paid" /\ paymentPaid'[p] = paymentPaid[p]]_vars

(* Late money never revives a booking: one that gave up its beds stays       *)
(* closed.                                                                   *)
ClosedStaysClosed ==
  [][\A b \in Bookings : Closed(b) =>
       booking'[b].status \in {"cancelled", "expired"} /\ ~booking'[b].beds]_vars

-----------------------------------------------------------------------------
(* What comments of the code promise and the code does not keep: each is the *)
(* property of a run that finds it violated.                                 *)

(* The reconciler applies "the exact same payment-truth writes the webhook   *)
(* does": a paid row shows what the session was paid.                        *)
RecordedInFull == \A p \in Payments : Settled(p) => paymentPaid[p] = FullAmount(p)

(* An add-on payment "does NOT update booking payment amounts": the booking  *)
(* shows no more than its other payments brought.                            *)
AddonsAside ==
  \A b \in Bookings : bookingPaid[b] <= SumPaid({p \in PaymentsOf(b) : ~IsAddon(p)})

-----------------------------------------------------------------------------
(* Refinement: the handlers implement MoneyLedger.                           *)

StageOf(status) == CASE status \in {"hold", "payment_pending"} -> "open"
                     [] status \in {"cancelled", "expired"} -> status
                     [] OTHER -> "live"

Ledger == INSTANCE MoneyLedger WITH
            stage  <- [b \in Bookings |-> StageOf(booking[b].status)],
            banked <- {p \in Payments : Settled(p)}

(* Every interleaving of the handlers, seen through statuses alone, keeps    *)
(* the promises of MoneyLedger.                                              *)
KeepsLedger == Ledger!LedgerSpec

-----------------------------------------------------------------------------
(* Fairness.  Node runs every handler it has started, Postgres gives a freed *)
(* lock to those who wait for it (strong: a wait is disabled and enabled     *)
(* again) and breaks every ring; Stripe redelivers an event until it gets a  *)
(* 200; the expiry worker runs again and again, each time through the whole  *)
(* batch.  Nothing obliges guests, staff, the reconciler or the clock to act.*)

Progress(a) == \/ a \in Hooks /\ HookStep(a)
               \/ a \in Reconcilers /\ ReconcilerStep(a)
               \/ a \in Cancellers /\ CancellerStep(a)
               \/ a \in Expirers /\ ExpirerStep(a)
               \/ a \in LinkMakers /\ LinkMakerStep(a)
               \/ a \in LinkCancellers /\ LinkCancellerStep(a)
               \/ a \in Clerks /\ ClerkStep(a)

Redeliver(e) == delivery[e] = "due" /\ \E h \in Hooks : Receive(h, e)

Sweep(b) == \E x \in Expirers : PickHold(x, b)

Fairness == /\ \A a \in Actors : SF_vars(Progress(a))
            /\ WF_vars(\E a \in Actors : AbortDeadlocked(a))
            /\ \A h \in Hooks : SF_vars(LockBooking(h))
            /\ \A r \in Reconcilers : SF_vars(PullApply(r))
            /\ \A x \in Expirers : SF_vars(HoldLockClient(x))
            /\ \A e \in Events : SF_vars(Redeliver(e))
            /\ \A b \in Bookings : SF_vars(Sweep(b))

FairSpec == Spec /\ Fairness

(* Money a guest paid is recorded, unless the row was retired or moved to    *)
(* another session first: redelivery and the locks lose none (the webhook    *)
(* and its claims).                                                          *)
MoneyLands ==
  \A s \in Sessions :
    LET p == SessionPayment[s]
    IN (checkout[s] = "paid" /\ ~IsAddon(p)) ~>
         (Settled(p) \/ payment[p].status \in DeadStatuses \/ ~Bound(p, s))

(* No transaction waits for ever: lock rings are broken and the rest move.   *)
TransactionsEnd == \A a \in Actors : InTransaction(a) ~> ~InTransaction(a)

(* An overdue hold nobody paid for gives its beds back (the header of        *)
(* booking-hold-expiry.js: it expires overdue unpaid holds).                 *)
OverdueIsReleased ==
  \A b \in Bookings : (Overdue(b) /\ ~PaidForExpiry(b)) ~> ~(Overdue(b) /\ ~PaidForExpiry(b))
=============================================================================
