---------------------------- MODULE PaymentTruth ----------------------------
(* applyStripeBookingPaymentTruthWrites and its validations: the one place   *)
(* where a paid Stripe session becomes money in the ledger.  The webhook and *)
(* the reconciler call it with the booking and the payment row locked.       *)
(* Currency, tenant and amount checks compare constants here and are left    *)
(* out: a session is created for exactly the amount due of its payment.      *)
EXTENDS MoneyStore

(* Mutant: any session of the payment will do.                               *)
BoundToAny(p, s) == TRUE

(* The row still carries this session, or none (metadata then binds it).     *)
Bound(p, s) == payment[p].session \in {Nothing, s}

Settled(p) == payment[p].status = "paid"

Payable(p) == /\ payment[p].status \in EligibleStatuses
              /\ Kind[p] # "addon_service"

(* validateStripeBookingPaymentEvent, on the row as the lookup saw it: no    *)
(* reason to refuse.                                                         *)
Presentable(p, s, sessionPaid) ==
  \/ Settled(p)
  \/ Payable(p) /\ sessionPaid /\ Bound(p, s)

(* What the caller records: the session's amount, or what is left to pay.    *)
FullAmount(p) == Due[p]

CappedAmount(p) ==
  LET b    == BookingOf[p]
      left == Total[b] - PaidElsewhere(b, p)
  IN AtMost(Due[p], IF left > 0 THEN left ELSE 0)

(* Mutant: the other payments of the booking are forgotten.                  *)
MoneyAfterAlone(p, amount) ==
  DerivePaymentState(Kind[p], Total[BookingOf[p]], 0, amount, Due[p])

MoneyAfter(p, amount) ==
  DerivePaymentState(Kind[p], Total[BookingOf[p]],
                     PaidElsewhere(BookingOf[p], p), amount, Due[p])

(* The writes for a payment that was not paid yet.  A cancelled booking      *)
(* accepts none: the trigger on payments raises.                             *)
RecordTruth(p, s, amount, late) ==
  LET b     == BookingOf[p]
      money == MoneyAfter(p, amount)
      promo == PromotesToConfirmed(booking[b].status, late, money.payStatus, Sunset)
  IN /\ Payable(p)
     /\ TakesMoney(b)
     /\ payment' = [payment EXCEPT ![p] =
                      [status |-> "paid", url |-> @.url,
                       session |-> IF @.session = Nothing THEN s ELSE @.session]]
     /\ paymentPaid' = [paymentPaid EXCEPT ![p] = amount]
     /\ bookingPaid' = [bookingPaid EXCEPT ![b] = money.paid]
     /\ booking' = [booking EXCEPT ![b].payStatus = money.payStatus,
                                   ![b].status = IF promo THEN "confirmed" ELSE @]
     /\ guestPaid' = GuestPaidWith(p, amount)

AutoConfirms(p, amount, late) ==
  AllowsAutoConfirmation(booking[BookingOf[p]].status, late, MoneyAfter(p, amount).payStatus)

(* The repairs for a payment that was paid already.                          *)
RepairTruth(p) ==
  LET b == BookingOf[p]
  IN /\ Settled(p)
     /\ booking' = IF Sunset /\ booking[b].status = "payment_pending"
                   THEN [booking EXCEPT ![b].status = "confirmed"]
                   ELSE booking
     /\ guestPaid' = IF paymentPaid[p] > 0
                     THEN GuestPaidWith(p, paymentPaid[p])
                     ELSE guestPaid
     /\ UNCHANGED <<payment, bookingPaid, paymentPaid>>

(* The locked row no longer fits the session.                                *)
Unfit(p, s) == ~Bound(p, s) \/ ~(Settled(p) \/ Payable(p))
=============================================================================
