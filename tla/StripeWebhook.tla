---------------------------- MODULE StripeWebhook ---------------------------
(* POST /staff/stripe/webhook (handleStripeWebhook).  A hook looks the       *)
(* payment up and validates it outside any transaction, then claims the      *)
(* event, applies the money and marks the event processed in one             *)
(* transaction, and sends the confirmation after the commit.  The claim's    *)
(* INSERT takes key-share locks on the tenant, payment and booking rows it   *)
(* references before the booking and the payment are locked for update.      *)
(* A delivery refused before the transaction (422) changes nothing and stays *)
(* due: it has no action.                                                    *)
EXTENDS PaymentTruth

EventPayment(e) == SessionPayment[EventSession[e]]

EventBooking(e) == BookingOf[EventPayment(e)]

IsAddon(p) == Kind[p] = "addon_service"

Ack(e) == delivery' = [delivery EXCEPT ![e] = "acked"]

(* The hold's lapse as NOW() of a transaction begun since the last step.     *)
LapseSeen(h, b) == {job[h].late, lapsed[b]}

(* Stripe delivers an event, for the first time or again.                    *)
Receive(h, e) ==
  LET p == EventPayment(e)
  IN /\ delivery[e] # "none"
     /\ IsAddon(p) \/ Presentable(p, EventSession[e], e \notin EarlyEvents)
     /\ Start(h, "claim", e, lapsed[BookingOf[p]])
     /\ UNCHANGED <<ledger, claimed, locks, stripe, lapsed, notified, failures>>

(* Mutant: the claim commits on its own, ahead of the money.                 *)
ClaimAlone(h) ==
  LET e == job[h].on
  IN /\ job[h].at = "claim" /\ e \notin claimed
     /\ claimed' = claimed \cup {e}
     /\ Go(h, "sharePayment")
     /\ UNCHANGED <<ledger, locks, stripe, lapsed, notified, failures>>

(* INSERT INTO payment_events ... ON CONFLICT DO NOTHING returns a row.      *)
Claim(h) ==
  LET e == job[h].on
  IN /\ job[h].at = "claim" /\ e \notin claimed
     /\ Lock(h, {Need(e, "update"), Need(Client, "keyshare")})
     /\ \E late \in LapseSeen(h, EventBooking(e)) :
          job' = [job EXCEPT ![h].at = "sharePayment", ![h].late = late]
     /\ UNCHANGED <<ledger, claimed, stripe, lapsed, notified, failures>>

(* It returns none: another delivery has committed the claim.                *)
ClaimDuplicate(h) ==
  LET e == job[h].on
  IN /\ job[h].at = "claim" /\ e \in claimed
     /\ \/ /\ IsAddon(EventPayment(e))
           /\ Finish(h) /\ Ack(e)
        \/ /\ ~IsAddon(EventPayment(e))
           /\ Go(h, "again")
           /\ UNCHANGED <<locks, delivery>>
     /\ UNCHANGED <<ledger, claimed, checkout, lapsed, notified, failures>>

SharePayment(h) ==
  /\ job[h].at = "sharePayment"
  /\ Lock(h, {Need(EventPayment(job[h].on), "keyshare")})
  /\ Go(h, "shareBooking")
  /\ UNCHANGED <<ledger, claimed, stripe, lapsed, notified, failures>>

ShareBooking(h) ==
  LET e == job[h].on
  IN /\ job[h].at = "shareBooking"
     /\ Lock(h, {Need(EventBooking(e), "keyshare")})
     /\ Go(h, IF IsAddon(EventPayment(e)) THEN "addonLock" ELSE "lock")
     /\ UNCHANGED <<ledger, claimed, stripe, lapsed, notified, failures>>

LockBooking(h) ==
  /\ job[h].at = "lock"
  /\ Lock(h, {Need(EventBooking(job[h].on), "update")})
  /\ Go(h, "apply")
  /\ UNCHANGED <<ledger, claimed, stripe, lapsed, notified, failures>>

(* What happens once the transaction has committed: the confirmation goes    *)
(* out before Stripe gets its 200.                                           *)
Committed(h, autoConfirm) ==
  \/ /\ autoConfirm
     /\ Unlock(h) /\ Go(h, "notify")
     /\ UNCHANGED <<delivery, failures>>
  \/ /\ ~autoConfirm
     /\ Finish(h) /\ Ack(job[h].on)
     /\ UNCHANGED failures

(* The commit landed but its answer was lost: 500, the event stays due.      *)
CommitUnknown(h) ==
  /\ failures < MaxFailures
  /\ failures' = failures + 1
  /\ Finish(h)
  /\ UNCHANGED delivery

(* At the payment row, under the booking lock.                               *)
AtPayment(h, step) ==
  /\ job[h].at = step
  /\ Grantable(h, {Need(EventPayment(job[h].on), "update")})

ApplyRecord(h) ==
  LET e == job[h].on
      p == EventPayment(e)
  IN /\ AtPayment(h, "apply")
     /\ Bound(p, EventSession[e])
     /\ RecordTruth(p, EventSession[e], FullAmount(p), job[h].late)
     /\ claimed' = claimed \cup {e}
     /\ \/ Committed(h, AutoConfirms(p, FullAmount(p), job[h].late))
        \/ CommitUnknown(h)
     /\ UNCHANGED <<checkout, lapsed, notified>>

(* Another event or the reconciler has recorded it: claim the event, repair, *)
(* and go on to the reconciliation every duplicate gets.  A commit whose     *)
(* answer is lost here is Fail at step "again".                              *)
ApplySettled(h) ==
  LET e == job[h].on
      p == EventPayment(e)
  IN /\ AtPayment(h, "apply")
     /\ Bound(p, EventSession[e])
     /\ RepairTruth(p)
     /\ claimed' = claimed \cup {e}
     /\ Unlock(h) /\ Go(h, "again")
     /\ UNCHANGED <<stripe, lapsed, notified, failures>>

(* The row changed since the lookup: roll back, and tell Stripe 200.         *)
ApplyReject(h) ==
  LET e == job[h].on
  IN /\ AtPayment(h, "apply")
     /\ Unfit(EventPayment(e), EventSession[e])
     /\ Finish(h) /\ Ack(e)
     /\ UNCHANGED <<ledger, claimed, checkout, lapsed, notified, failures>>

(* reconcileSimulatorConfirmation re-enters the apply in a transaction of    *)
(* its own, without a claim; whatever it throws is swallowed.  The send it   *)
(* ends with is for simulated guests and left out.  Guests have a phone      *)
(* here: for one without, neither this nor the confirmation is tried.        *)
LockAgain(h) ==
  LET b == EventBooking(job[h].on)
  IN /\ job[h].at = "again"
     /\ Lock(h, {Need(b, "update")})
     /\ \E late \in LapseSeen(h, b) :
          job' = [job EXCEPT ![h].at = "reapply", ![h].late = late]
     /\ UNCHANGED <<ledger, claimed, stripe, lapsed, notified, failures>>

Reapply(h) ==
  LET e == job[h].on
      p == EventPayment(e)
      s == EventSession[e]
  IN /\ AtPayment(h, "reapply")
     /\ \/ Bound(p, s) /\ RepairTruth(p)
        \/ Bound(p, s) /\ RecordTruth(p, s, FullAmount(p), job[h].late)
        \/ Unfit(p, s) /\ UNCHANGED ledger
     /\ Finish(h) /\ Ack(e)
     /\ UNCHANGED <<claimed, checkout, lapsed, notified, failures>>

(* tryAutoSendBookingConfirmation, on the booking as it finds it now: it     *)
(* sends at most once, to a paid booking, and only if its many gates let it. *)
(* Then 200, whatever came of it.                                            *)
Notify(h) ==
  LET e == job[h].on
      b == EventBooking(e)
  IN /\ job[h].at = "notify"
     /\ \/ MoneyOk(booking[b].payStatus) /\ PaidPayments(b) # {}
           /\ notified' = notified \cup {b}
        \/ UNCHANGED notified
     /\ job' = [job EXCEPT ![h] = Idle]
     /\ Ack(e)
     /\ UNCHANGED <<ledger, claimed, locks, checkout, lapsed, failures>>

-----------------------------------------------------------------------------
(* Add-on payments: no validation, the payment locked first, and the booking *)
(* only by the trigger behind the payment's UPDATE.                          *)

AddonLock(h) ==
  LET p == EventPayment(job[h].on)
  IN /\ job[h].at = "addonLock"
     /\ ~Settled(p)
     /\ Lock(h, {Need(p, "update")})
     /\ Go(h, "addonApply")
     /\ UNCHANGED <<ledger, claimed, stripe, lapsed, notified, failures>>

AddonSettled(h) ==
  LET e == job[h].on
  IN /\ AtPayment(h, "addonLock")
     /\ Settled(EventPayment(e))
     /\ claimed' = claimed \cup {e}
     /\ \/ Committed(h, FALSE)
        \/ CommitUnknown(h)
     /\ UNCHANGED <<ledger, checkout, lapsed, notified>>

AddonRecord(h) ==
  LET e == job[h].on
      p == EventPayment(e)
      b == BookingOf[p]
  IN /\ job[h].at = "addonApply"
     /\ Grantable(h, {Need(b, "update")})
     /\ TakesMoney(b)
     /\ payment' = [payment EXCEPT ![p].status = "paid"]
     /\ paymentPaid' = [paymentPaid EXCEPT ![p] = FullAmount(p)]
     /\ claimed' = claimed \cup {e}
     /\ \/ Committed(h, FALSE)
        \/ CommitUnknown(h)
     /\ UNCHANGED <<booking, bookingPaid, guestPaid, checkout, lapsed, notified>>

(* Mutant: the error is swallowed and the claim committed.                   *)
AddonRaiseSwallowed(h) ==
  LET b == EventBooking(job[h].on)
  IN /\ job[h].at = "addonApply"
     /\ Grantable(h, {Need(b, "update")})
     /\ ~TakesMoney(b)
     /\ claimed' = claimed \cup {job[h].on}
     /\ Finish(h)
     /\ UNCHANGED <<ledger, stripe, lapsed, notified, failures>>

(* The trigger raises: roll back, 500, the event stays due.                  *)
AddonRaise(h) ==
  LET b == EventBooking(job[h].on)
  IN /\ job[h].at = "addonApply"
     /\ Grantable(h, {Need(b, "update")})
     /\ ~TakesMoney(b)
     /\ Finish(h)
     /\ UNCHANGED <<ledger, claimed, stripe, lapsed, notified, failures>>

-----------------------------------------------------------------------------

HookStep(h) ==
  \/ Claim(h) \/ ClaimDuplicate(h) \/ SharePayment(h) \/ ShareBooking(h)
  \/ LockBooking(h) \/ ApplyRecord(h) \/ ApplySettled(h) \/ ApplyReject(h)
  \/ LockAgain(h) \/ Reapply(h) \/ Notify(h)
  \/ AddonLock(h) \/ AddonSettled(h) \/ AddonRecord(h) \/ AddonRaise(h)

HookNext(h) == (\E e \in Events : Receive(h, e)) \/ HookStep(h)

(* The locks the next step of a hook waits for.                              *)
HookNeeds(h) ==
  LET e == job[h].on
      p == EventPayment(e)
      b == EventBooking(e)
  IN CASE job[h].at = "claim"        -> {Need(e, "update"), Need(Client, "keyshare")}
       [] job[h].at = "sharePayment" -> {Need(p, "keyshare")}
       [] job[h].at = "shareBooking" -> {Need(b, "keyshare")}
       [] job[h].at \in {"lock", "again", "addonApply"} -> {Need(b, "update")}
       [] job[h].at \in {"apply", "reapply", "addonLock"} -> {Need(p, "update")}
       [] OTHER -> {}
=============================================================================
