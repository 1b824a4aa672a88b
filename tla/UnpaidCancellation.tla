------------------------- MODULE UnpaidCancellation -------------------------
(* guest-unpaid-cancellation.js behind the staff and the guest cancel        *)
(* routes.  Under the locks of the booking and all its payment rows the      *)
(* evidence is read again; a booking that ever received money is refused,    *)
(* otherwise every unpaid row is retired, the booking cancelled and its beds *)
(* released, in one transaction.  The deposit column and the guests' own     *)
(* payment_status repeat evidence modelled here and are left out.            *)
EXTENDS MoneyStore

Cancel(c, b) ==
  /\ Start(c, "lock", b, FALSE)
  /\ UNCHANGED <<ledger, claimed, locks, stripe, lapsed, notified, failures>>

CancelLock(c) ==
  /\ job[c].at = "lock"
  /\ Lock(c, {Need(job[c].on, "update")})
  /\ Go(c, "lockPayment")
  /\ UNCHANGED <<ledger, claimed, stripe, lapsed, notified, failures>>

PresentPayments(b) == {p \in PaymentsOf(b) : payment[p].status # "absent"}

(* The payment rows still to be locked, in whatever order the scan yields.   *)
Unlocked(c) ==
  {p \in PresentPayments(job[c].on) :
     [by |-> c, row |-> p, mode |-> "update"] \notin locks}

CancelLockPayment(c) ==
  /\ job[c].at = "lockPayment"
  /\ \E p \in Unlocked(c) : Lock(c, {Need(p, "update")})
  /\ UNCHANGED <<ledger, claimed, job, stripe, lapsed, notified, failures>>

ClaimsOf(b) == {e \in claimed : BookingOf[SessionPayment[EventSession[e]]] = b}

(* Mutant: only webhooks are taken for evidence of money.                    *)
ZeroClaims(b) == ClaimsOf(b) = {}

(* The evidence says nothing was ever received.                              *)
ZeroPayment(b) ==
  /\ bookingPaid[b] = 0 /\ ~MoneyOk(booking[b].payStatus)
  /\ \A p \in PresentPayments(b) : paymentPaid[p] = 0 /\ payment[p].status # "paid"
  /\ ClaimsOf(b) = {}
  /\ \A p \in PaymentsOf(b) : GuestOf[p] \in Guests => guestPaid[GuestOf[p]] = 0

(* Mutant: an American spelling.                                             *)
RetiredCanceled == [status |-> "canceled", session |-> Nothing, url |-> FALSE]

Retired == [status |-> "cancelled", session |-> Nothing, url |-> FALSE]

(* Mutant: only the status is set, and the checkouts stay open.              *)
CancelStatusOnly(c) ==
  LET b == job[c].on
  IN /\ job[c].at = "lockPayment" /\ Unlocked(c) = {}
     /\ ZeroPayment(b)
     /\ booking' = [booking EXCEPT ![b].status = "cancelled", ![b].beds = FALSE]
     /\ Finish(c)
     /\ UNCHANGED <<payment, amounts, claimed, stripe, lapsed, notified, failures>>

CancelCommit(c) ==
  LET b == job[c].on
  IN /\ job[c].at = "lockPayment" /\ Unlocked(c) = {}
     /\ ZeroPayment(b)
     /\ payment' = [p \in Payments |->
                      IF p \in PresentPayments(b) THEN Retired ELSE payment[p]]
     /\ booking' = [booking EXCEPT ![b].status = "cancelled", ![b].beds = FALSE]
     /\ Finish(c)
     /\ UNCHANGED <<amounts, claimed, stripe, lapsed, notified, failures>>

CancelRefuse(c) ==
  /\ job[c].at = "lockPayment" /\ Unlocked(c) = {}
  /\ ~ZeroPayment(job[c].on)
  /\ Finish(c)
  /\ UNCHANGED <<ledger, claimed, stripe, lapsed, notified, failures>>

CancellerStep(c) ==
  CancelLock(c) \/ CancelLockPayment(c) \/ CancelCommit(c) \/ CancelRefuse(c)

CancellerNext(c) == (\E b \in Bookings : Cancel(c, b)) \/ CancellerStep(c)

(* One row at a time: the step waits when no row it lacks can be had.        *)
CancellerNeeds(c) ==
  CASE job[c].at = "lock" -> {Need(job[c].on, "update")}
    [] job[c].at = "lockPayment" /\ \A p \in Unlocked(c) : Blockers(c, Need(p, "update")) # {}
         -> {Need(p, "update") : p \in Unlocked(c)}
    [] OTHER -> {}
=============================================================================
