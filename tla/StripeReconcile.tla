-------------------------- MODULE StripeReconcile ---------------------------
(* stripe-payment-reconcile.js: pull the sessions of unpaid payments from    *)
(* Stripe and apply the webhook's writes to the paid ones, without a claim   *)
(* and without a message to the guest.  The advisory batches, per date and   *)
(* per booking, come down to this: any session of a pending row may be       *)
(* pulled at any time.  Add-on payments are skipped.                         *)
EXTENDS PaymentTruth

(* Mutant: sessions are pulled whether or not Stripe has the money.          *)
PullUnpaid(r, s) ==
  LET p == SessionPayment[s]
  IN /\ payment[p].session = s
     /\ Payable(p)
     /\ Start(r, "lock", s, lapsed[BookingOf[p]])
     /\ UNCHANGED <<ledger, claimed, locks, stripe, lapsed, notified, failures>>

Pull(r, s) ==
  LET p == SessionPayment[s]
  IN /\ payment[p].session = s
     /\ Payable(p) /\ checkout[s] = "paid"
     /\ Start(r, "lock", s, lapsed[BookingOf[p]])
     /\ UNCHANGED <<ledger, claimed, locks, stripe, lapsed, notified, failures>>

PullLock(r) ==
  LET b == BookingOf[SessionPayment[job[r].on]]
  IN /\ job[r].at = "lock"
     /\ Lock(r, {Need(b, "update")})
     /\ \E late \in {job[r].late, lapsed[b]} :
          job' = [job EXCEPT ![r].at = "apply", ![r].late = late]
     /\ UNCHANGED <<ledger, claimed, stripe, lapsed, notified, failures>>

(* The same writes as the webhook's, for no more than what is left to pay.   *)
PullApply(r) ==
  LET s == job[r].on
      p == SessionPayment[s]
  IN /\ job[r].at = "apply"
     /\ Grantable(r, {Need(p, "update")})
     /\ \/ Bound(p, s) /\ RepairTruth(p)
        \/ Bound(p, s) /\ RecordTruth(p, s, CappedAmount(p), job[r].late)
        \/ Unfit(p, s) /\ UNCHANGED ledger
     /\ Finish(r)
     /\ UNCHANGED <<claimed, stripe, lapsed, notified, failures>>

ReconcilerStep(r) == PullLock(r) \/ PullApply(r)

ReconcilerNext(r) == (\E s \in Sessions : Pull(r, s)) \/ ReconcilerStep(r)

ReconcilerNeeds(r) ==
  LET p == SessionPayment[job[r].on]
  IN CASE job[r].at = "lock"  -> {Need(BookingOf[p], "update")}
       [] job[r].at = "apply" -> {Need(p, "update")}
       [] OTHER -> {}
=============================================================================
