---------------------------- MODULE PaymentState ----------------------------
(* The pure money rules of the Staff API: what a completed payment does to   *)
(* the totals of its booking (luna-booking-payment-totals.js) and whether it *)
(* may confirm the booking (stripe-hold-promote-policy.js).  Amounts are     *)
(* integers (cents); metadata patches and drafts are left out.               *)
EXTENDS Integers

(* The enums of the schema; no handler modelled here writes "blocked",       *)
(* "needs_review", "refunded" or a booking's "failed".                       *)
BookingStatuses == {"hold", "payment_pending", "confirmed", "checked_in",
                    "needs_review", "blocked", "cancelled", "expired"}

(* "absent" stands for a row not inserted yet.                               *)
PaymentStatuses == {"absent", "draft", "checkout_created", "pending", "paid",
                    "expired", "cancelled", "failed"}

PayStatuses == {"not_requested", "waiting_payment", "deposit_paid", "paid",
                "refunded", "failed"}

(* Payment rows a Stripe session may still turn into money.                  *)
EligibleStatuses == {"draft", "checkout_created", "pending"}

(* Payment rows the cancelled-booking triggers take for dead.                *)
DeadStatuses == {"cancelled", "expired", "failed"}

AutoConfirmStatuses == {"confirmed", "payment_pending", "checked_in"}

AtMost(n, limit) == IF n < limit THEN n ELSE limit

(* Mutant: a link paid in full settles the booking, whatever its total.      *)
LinkCoversAlone(kind, total, sum, amount, due) ==
  kind = "full_amount" /\ due > 0 /\ amount >= due

(* A link for the whole price, paid: it settles the booking.                 *)
LinkCovers(kind, total, sum, amount, due) ==
  /\ kind = "full_amount"
  /\ due > 0
  /\ amount >= due
  /\ total <= 0 \/ sum >= total

(* What a payment of "amount" makes of a booking whose other payments        *)
(* already sum to "prev".                                                    *)
DerivePaymentState(kind, total, prev, amount, due) ==
  LET sum         == prev + amount
      newPaid     == IF total > 0 THEN AtMost(sum, total) ELSE sum
      balanceZero == total <= 0 \/ newPaid = total
  IN [paid |-> newPaid,
      payStatus |->
        IF \/ LinkCovers(kind, total, sum, amount, due)
           \/ balanceZero /\ (total > 0 \/ (newPaid > 0 /\ kind = "full_amount"))
          THEN "paid"
          ELSE IF kind = "deposit_only" THEN "deposit_paid" ELSE "waiting_payment"]

MoneyOk(payStatus) == payStatus \in {"deposit_paid", "paid"}

(* Mutant: late money revives whatever is not cancelled.                     *)
PromotesExpired(status, late, payStatus, sunset) ==
  MoneyOk(payStatus) /\ status # "cancelled"

(* Does the payment turn the booking into a confirmed one?  "late" is the    *)
(* database's own verdict that the hold had lapsed when the transaction      *)
(* began.                                                                    *)
PromotesToConfirmed(status, late, payStatus, sunset) ==
  /\ MoneyOk(payStatus)
  /\ \/ status = "hold" /\ ~late
     \/ status = "payment_pending" /\ sunset

(* Mutant: a lapsed hold still confirms itself.                              *)
AutoConfirmsLapsed(status, late, payStatus) ==
  MoneyOk(payStatus) /\ status \in AutoConfirmStatuses \cup {"hold"}

(* May the guest be sent a confirmation without a human looking at it?       *)
AllowsAutoConfirmation(status, late, payStatus) ==
  /\ MoneyOk(payStatus)
  /\ \/ status = "hold" /\ ~late
     \/ status \in AutoConfirmStatuses
=============================================================================
