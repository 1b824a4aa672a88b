----------------------------- MODULE HoldExpiry -----------------------------
(* booking-hold-expiry.js: the worker lists overdue holds, oldest first and  *)
(* at most BatchSize at a time, and expires each in a transaction of its own *)
(* that locks the booking and, through the join, the tenant's row.  The      *)
(* overdue check and the look for paid payments are repeated under the lock. *)
EXTENDS MoneyStore

Overdue(b) == booking[b].status = "hold" /\ lapsed[b]

(* Mutant: off by one at the LIMIT.                                          *)
BatchShort == {b \in Bookings :
                 /\ Overdue(b)
                 /\ Cardinality({c \in Bookings : Overdue(c) /\ ExpiryRank[c] <= ExpiryRank[b]})
                      < BatchSize}

Batch == {b \in Bookings :
            /\ Overdue(b)
            /\ Cardinality({c \in Bookings : Overdue(c) /\ ExpiryRank[c] < ExpiryRank[b]})
                 < BatchSize}

PickHold(x, b) ==
  /\ b \in Batch
  /\ Start(x, "lock", b, FALSE)
  /\ UNCHANGED <<ledger, claimed, locks, stripe, lapsed, notified, failures>>

HoldLock(x) ==
  /\ job[x].at = "lock"
  /\ Lock(x, {Need(job[x].on, "update")})
  /\ Go(x, "lockClient")
  /\ UNCHANGED <<ledger, claimed, stripe, lapsed, notified, failures>>

HoldLockClient(x) ==
  /\ job[x].at = "lockClient"
  /\ Lock(x, {Need(Client, "update")})
  /\ Go(x, "write")
  /\ UNCHANGED <<ledger, claimed, stripe, lapsed, notified, failures>>

(* Mutant: the payment rows are not looked at.                               *)
PaidByStatus(b) == MoneyOk(booking[b].payStatus)

(* isBookingPaidForHoldExpiry                                                *)
PaidForExpiry(b) == PaidPayments(b) # {} \/ MoneyOk(booking[b].payStatus)

Invalidated(b) ==
  {p \in PaymentsOf(b) : payment[p].status \in EligibleStatuses /\ paymentPaid[p] = 0}

ExpireHold(x) ==
  LET b == job[x].on
  IN /\ job[x].at = "write"
     /\ Overdue(b) /\ ~PaidForExpiry(b)
     /\ Grantable(x, {Need(p, "nokey") : p \in Invalidated(b)})
     /\ booking' = [booking EXCEPT ![b].status = "expired", ![b].beds = FALSE]
     /\ payment' = [p \in Payments |->
                      IF p \in Invalidated(b) THEN [payment[p] EXCEPT !.url = FALSE]
                                              ELSE payment[p]]
     /\ Finish(x)
     /\ UNCHANGED <<amounts, claimed, stripe, lapsed, notified, failures>>

(* Mutant: no rollback for a hold that was paid meanwhile.                   *)
SkipMovedHold(x) ==
  /\ job[x].at = "write"
  /\ ~Overdue(job[x].on)
  /\ Finish(x)
  /\ UNCHANGED <<ledger, claimed, stripe, lapsed, notified, failures>>

SkipHold(x) ==
  /\ job[x].at = "write"
  /\ ~Overdue(job[x].on) \/ PaidForExpiry(job[x].on)
  /\ Finish(x)
  /\ UNCHANGED <<ledger, claimed, stripe, lapsed, notified, failures>>

ExpirerStep(x) == HoldLock(x) \/ HoldLockClient(x) \/ ExpireHold(x) \/ SkipHold(x)

ExpirerNext(x) == (\E b \in Bookings : PickHold(x, b)) \/ ExpirerStep(x)

ExpirerNeeds(x) ==
  CASE job[x].at = "lock" -> {Need(job[x].on, "update")}
    [] job[x].at = "lockClient" -> {Need(Client, "update")}
    [] job[x].at = "write" /\ Overdue(job[x].on) /\ ~PaidForExpiry(job[x].on)
         -> {Need(p, "nokey") : p \in Invalidated(job[x].on)}
    [] OTHER -> {}
=============================================================================
