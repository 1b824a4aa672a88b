---------------------------- MODULE PaymentLinks ----------------------------
(* luna-front-desk-payment-link-service.js: createDraftPaymentStripeLink     *)
(* reads a draft payment, has Stripe make a session for it, and attaches the *)
(* session by an UPDATE that names the row and nothing else;                 *)
(* cancelOrInvalidatePaymentLink reads a row and cancels it the same way.    *)
(* Both UPDATEs lock the payment row first and then, in the trigger, its     *)
(* booking.                                                                  *)
EXTENDS MoneyStore

Closed(b) == booking[b].status \in {"cancelled", "expired"}

(* Stripe makes the session; nobody but the maker knows its URL yet.         *)
MakeSession(m, s) ==
  LET p == SessionPayment[s]
  IN /\ checkout[s] = "unborn"
     /\ payment[p].status = "draft" /\ ~Closed(BookingOf[p])
     /\ Start(m, "link", s, FALSE)
     /\ checkout' = [checkout EXCEPT ![s] = "made"]
     /\ UNCHANGED <<ledger, claimed, locks, delivery, lapsed, notified, failures>>

LinkedPayment(a) == IF a \in LinkMakers THEN SessionPayment[job[a].on] ELSE job[a].on

(* The UPDATE reaches the payment row ...                                    *)
LinkLockPayment(a) ==
  /\ job[a].at = "link"
  /\ Lock(a, {Need(LinkedPayment(a), "nokey")})
  /\ Go(a, "write")
  /\ UNCHANGED <<ledger, claimed, stripe, lapsed, notified, failures>>

(* ... and its trigger the booking row.                                      *)
AtTrigger(a) ==
  /\ job[a].at = "write"
  /\ Grantable(a, {Need(BookingOf[LinkedPayment(a)], "update")})

OpenLink(p) == /\ payment[p].status \in {"draft", "checkout_created", "pending"}
               /\ payment[p].session # Nothing

(* reject_mixed_booking_checkout_scope: a booking offers checkouts to its    *)
(* guests or as a whole, never both.                                         *)
MixedScope(p) ==
  \E q \in PaymentsOf(BookingOf[p]) \ {p} :
    /\ OpenLink(q)
    /\ (GuestOf[q] = Nothing) # (GuestOf[p] = Nothing)

(* Mutants: one trigger of the two.                                          *)
RefusedCancelled(p) == booking[BookingOf[p]].status = "cancelled"

RefusedMixed(p) == MixedScope(p)

Refused(p) == booking[BookingOf[p]].status = "cancelled" \/ MixedScope(p)

AttachSession(m) ==
  LET s == job[m].on
      p == SessionPayment[s]
  IN /\ AtTrigger(m) /\ ~Refused(p)
     /\ payment' = [payment EXCEPT ![p].status = "checkout_created",
                                   ![p].session = s, ![p].url = TRUE]
     /\ checkout' = [checkout EXCEPT ![s] = "open"]
     /\ Finish(m)
     /\ UNCHANGED <<booking, amounts, claimed, delivery, lapsed, notified, failures>>

(* A trigger raises; the error response still carries the checkout URL.      *)
AttachRaise(m) ==
  LET s == job[m].on
  IN /\ AtTrigger(m) /\ Refused(SessionPayment[s])
     /\ checkout' = [checkout EXCEPT ![s] = "open"]
     /\ Finish(m)
     /\ UNCHANGED <<ledger, claimed, delivery, lapsed, notified, failures>>

(* Staff drops a link that, when last looked at, was unpaid.                 *)
DropLink(k, p) ==
  /\ OpenLink(p) /\ paymentPaid[p] = 0
  /\ Start(k, "link", p, FALSE)
  /\ UNCHANGED <<ledger, claimed, locks, stripe, lapsed, notified, failures>>

DropCommit(k) ==
  LET p == job[k].on
  IN /\ AtTrigger(k)
     /\ booking[BookingOf[p]].status = "cancelled" =>
          paymentPaid[p] = 0 /\ payment[p].session = Nothing
     /\ payment' = [payment EXCEPT ![p].status = "cancelled", ![p].url = FALSE]
     /\ Finish(k)
     /\ UNCHANGED <<booking, amounts, claimed, stripe, lapsed, notified, failures>>

LinkMakerStep(m) == LinkLockPayment(m) \/ AttachSession(m) \/ AttachRaise(m)

LinkMakerNext(m) == (\E s \in Sessions : MakeSession(m, s)) \/ LinkMakerStep(m)

LinkCancellerStep(k) == LinkLockPayment(k) \/ DropCommit(k)

LinkCancellerNext(k) == (\E p \in Payments : DropLink(k, p)) \/ LinkCancellerStep(k)

LinkNeeds(a) ==
  CASE job[a].at = "link"  -> {Need(LinkedPayment(a), "nokey")}
    [] job[a].at = "write" -> {Need(BookingOf[LinkedPayment(a)], "update")}
    [] OTHER -> {}
=============================================================================
