--------------------------- MODULE ManualPayment ----------------------------
(* staff-manual-payment.js: a clerk records money taken outside Stripe as a  *)
(* new paid row, idempotent on its key (here: on the row it may insert).  The *)
(* invoice total is the booking's; unlike the webhook's, the booking's paid  *)
(* amount is not capped by it.                                               *)
EXTENDS MoneyStore

TakeCash(k, p) ==
  /\ p \in CashPayments
  /\ Start(k, "lock", p, FALSE)
  /\ UNCHANGED <<ledger, claimed, locks, stripe, lapsed, notified, failures>>

CashLock(k) ==
  /\ job[k].at = "lock"
  /\ Lock(k, {Need(BookingOf[job[k].on], "update")})
  /\ Go(k, "write")
  /\ UNCHANGED <<ledger, claimed, stripe, lapsed, notified, failures>>

CashAccepted(p) == /\ booking[BookingOf[p]].status \notin {"cancelled", "expired"}
                   /\ payment[p].status = "absent"

CashRecord(k) ==
  LET p   == job[k].on
      b   == BookingOf[p]
      sum == PaidElsewhere(b, p) + Due[p]
  IN /\ job[k].at = "write" /\ CashAccepted(p)
     /\ Grantable(k, {Need(Client, "keyshare")})
     /\ payment' = [payment EXCEPT ![p] =
                      [status |-> "paid", session |-> Nothing, url |-> FALSE]]
     /\ paymentPaid' = [paymentPaid EXCEPT ![p] = Due[p]]
     /\ bookingPaid' = [bookingPaid EXCEPT ![b] = sum]
     /\ guestPaid' = GuestPaidWith(p, Due[p])
     /\ booking' = [booking EXCEPT
          ![b].payStatus = IF Total[b] > 0 /\ sum >= Total[b] THEN "paid"
                           ELSE IF @ = "not_requested" THEN "deposit_paid" ELSE @]
     /\ Finish(k)
     /\ UNCHANGED <<claimed, stripe, lapsed, notified, failures>>

(* The booking is closed, or the key was used before.                        *)
CashReturn(k) ==
  /\ job[k].at = "write" /\ ~CashAccepted(job[k].on)
  /\ Finish(k)
  /\ UNCHANGED <<ledger, claimed, stripe, lapsed, notified, failures>>

ClerkStep(k) == CashLock(k) \/ CashRecord(k) \/ CashReturn(k)

ClerkNext(k) == (\E p \in Payments : TakeCash(k, p)) \/ ClerkStep(k)

ClerkNeeds(k) ==
  CASE job[k].at = "lock" -> {Need(BookingOf[job[k].on], "update")}
    [] job[k].at = "write" /\ CashAccepted(job[k].on) -> {Need(Client, "keyshare")}
    [] OTHER -> {}
=============================================================================
