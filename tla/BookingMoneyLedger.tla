-------------------------- MODULE BookingMoneyLedger ------------------------
(* The money of the spine: once recorded it stays, every claim has its       *)
(* money, the handlers implement MoneyLedger, and bookings and guests repeat *)
(* what their payments sum to.  The two UPDATEs of PaymentLinks name a row   *)
(* by its id alone and keep to no discipline.  So staff drop no links here   *)
(* (the run link_cancel shows what that breaks), and if links are made, no   *)
(* payment gets a second one: two makers at work on one payment attach the   *)
(* later session over whatever the earlier one brought.                      *)
EXTENDS BookingMoneySafety, SumFacts

OneSessionEach == \A s, t \in Sessions : SessionPayment[s] = SessionPayment[t] => s = t

CarefulLinks == LinkCancellers = {} /\ (LinkMakers = {} \/ OneSessionEach)

(* A maker's session nobody could submit yet, so the payment it attaches it  *)
(* to, which has no other, is not settled.                                   *)
LEMMA AttachUnsettled ==
  ASSUME CarefulLinks, TypeInv, CollectInv, NEW m \in LinkMakers, AttachSession(m)
  PROVE  SessionPayment[job[m].on] \in Payments /\ ~Settled(SessionPayment[job[m].on])
<1> DEFINE s == job[m].on
           p == SessionPayment[s]
<1>1. s \in Sessions /\ checkout[s] = "made"
  BY DEF AttachSession, AtTrigger, CollectInv, StripeInv, MakersHold, TypeInv, SubjectsFit, Actors
<1>2. p \in Payments \ CashPayments
  BY <1>1, LinkAssumption
<1>3. ASSUME Settled(p)
      PROVE  FALSE
  <2>1. PICK t \in Sessions : SessionPayment[t] = p /\ checkout[t] \in {"processing", "paid"}
    BY <1>2, <1>3 DEF CollectInv, SubmittedFirst
  <2>2. s = t
    BY <1>1, <2>1 DEF CarefulLinks, OneSessionEach
  <2> QED BY <1>1, <2>1, <2>2
<1> QED BY <1>2, <1>3

KeepsPaid ==
  \A p \in Payments : Settled(p) =>
    payment'[p].status = "paid" /\ paymentPaid'[p] = paymentPaid[p]

(* A hook that writes an add-on payment finds it unsettled.                  *)
LEMMA AddonUnsettled ==
  ASSUME TypeInv, LockInv, NEW h \in Hooks, AddonRecord(h)
  PROVE  AddonOf(h) \in Payments /\ ~Settled(AddonOf(h))
BY EventTyped DEF AddonRecord, AddonOf, LockInv, AddonHeld, TypeInv, SubjectsFit, Actors

LEMMA PaidStep ==
  ASSUME CarefulLinks, TypeInv, LockInv, CollectInv, [Next]_vars
  PROVE  KeepsPaid
<1> USE DEF KeepsPaid, Settled, TypeInv, TypeOK, LedgerTyped, PaymentRow
<1>1. ASSUME NEW q \in Payments, NEW s \in Sessions, NEW late \in BOOLEAN, NEW amount,
             RecordTruth(q, s, amount, late)
      PROVE  KeepsPaid
  BY <1>1 DEF RecordTruth, Payable, EligibleStatuses
<1>2. ASSUME NEW q \in Payments, RepairTruth(q)
      PROVE  KeepsPaid
  BY <1>2 DEF RepairTruth
<1>3. ASSUME NEW h \in Hooks, AddonRecord(h)
      PROVE  KeepsPaid
  <2>1. AddonOf(h) \in Payments /\ ~Settled(AddonOf(h))
    BY <1>3, AddonUnsettled
  <2> QED BY <1>3, <2>1 DEF AddonRecord, AddonOf
<1>4. ASSUME NEW c \in Cancellers, CancelCommit(c)
      PROVE  KeepsPaid
  BY <1>4 DEF CancelCommit, ZeroPayment, PresentPayments, amounts
<1>5. ASSUME NEW x \in Expirers, ExpireHold(x)
      PROVE  KeepsPaid
  BY <1>5 DEF ExpireHold, amounts
<1>6. ASSUME NEW k \in Clerks, CashRecord(k)
      PROVE  KeepsPaid
  BY <1>6 DEF CashRecord, CashAccepted
<1>7. ASSUME NEW m \in LinkMakers, AttachSession(m)
      PROVE  KeepsPaid
  <2>1. ~Settled(SessionPayment[job[m].on])
    BY <1>7, AttachUnsettled
  <2> QED BY <1>7, <2>1 DEF AttachSession, amounts
<1>8. CASE UNCHANGED ledger
  BY <1>8 DEF ledger, amounts
<1> QED
  BY <1>1, <1>2, <1>3, <1>4, <1>5, <1>6, <1>7, <1>8, StepWrites DEF CarefulLinks, Writes

(* Whatever cancellation, expiry, repair or second delivery follows, a paid  *)
(* payment stays paid and keeps its amount.                                  *)
THEOREM PaidForGood == CarefulLinks => (Spec => PaidStaysPaid)
<1> SUFFICES ASSUME CarefulLinks PROVE Spec => PaidStaysPaid
  OBVIOUS
<1>1. TypeInv /\ LockInv /\ CollectInv /\ [Next]_vars => [KeepsPaid]_vars
  BY PaidStep
<1> QED BY <1>1, TypeInvariance, LocksExclude, CollectInvariance, PTL DEF Spec, PaidStaysPaid, KeepsPaid

-----------------------------------------------------------------------------
(* Claim and effect are one.                                                 *)

(* A step that claims an event leaves its payment settled.                   *)
LEMMA ClaimSettles ==
  ASSUME TypeInv, [Next]_vars, NEW e \in claimed', e \notin claimed
  PROVE  Settled(EventPayment(e))'
<1> USE DEF EventPayment, Settled
<1>1. ASSUME NEW h \in Hooks, HookNext(h)
      PROVE  Settled(EventPayment(e))'
  <2>1. ASSUME job[h].at # "idle", e = job[h].on
        PROVE  EventPayment(e) \in Payments
    BY <2>1, EventTyped DEF Actors, TypeInv, SubjectsFit
  <2>2. CASE ApplyRecord(h)
    BY <2>1, <2>2 DEF ApplyRecord, AtPayment, RecordTruth, TypeInv, TypeOK, LedgerTyped, PaymentRow
  <2>3. CASE ApplySettled(h)
    BY <2>3 DEF ApplySettled, RepairTruth
  <2>4. CASE AddonSettled(h)
    BY <2>4 DEF AddonSettled, ledger
  <2>5. CASE AddonRecord(h)
    BY <2>1, <2>5 DEF AddonRecord, TypeInv, TypeOK, LedgerTyped, PaymentRow
  <2> QED
    BY <1>1, <2>2, <2>3, <2>4, <2>5
    DEF HookNext, HookStep, Receive, Claim, ClaimDuplicate, SharePayment, ShareBooking,
        LockBooking, ApplyReject, LockAgain, Reapply, Notify, AddonLock, AddonRaise
<1>2. ASSUME NEW a \in Actors, Step(a), a \notin Hooks \/ ~HookNext(a)
      PROVE  FALSE
  <2>1. UNCHANGED claimed
    BY <1>2
    DEF Step, ReconcilerNext, ReconcilerStep, Pull, PullLock, PullApply,
        CancellerNext, CancellerStep, Cancel, CancelLock, CancelLockPayment, CancelCommit,
        CancelRefuse, ExpirerNext, ExpirerStep, PickHold, HoldLock, HoldLockClient,
        ExpireHold, SkipHold, LinkMakerNext, LinkMakerStep, MakeSession, LinkLockPayment,
        AttachSession, AttachRaise, LinkCancellerNext, LinkCancellerStep, DropLink,
        DropCommit, ClerkNext, ClerkStep, TakeCash, CashLock, CashRecord, CashReturn,
        Fail, AbortDeadlocked
  <2> QED BY <2>1
<1>3. CASE World \/ UNCHANGED vars
  BY <1>3 DEF World, CompleteCheckout, PayCheckout, LapseHold, vars
<1> QED BY <1>1, <1>2, <1>3 DEF Next

(* A claimed event is never forgotten money: its claim commits with its      *)
(* effect, and nothing undoes the effect.                                    *)
THEOREM ClaimsHaveMoney == CarefulLinks => (Spec => []ClaimIsRecorded)
<1> SUFFICES ASSUME CarefulLinks PROVE Spec => []ClaimIsRecorded
  OBVIOUS
<1>1. Init => ClaimIsRecorded
  BY DEF Init, StoreInit, ClaimIsRecorded
<1>2. TypeInv /\ LockInv /\ CollectInv /\ ClaimIsRecorded /\ [Next]_vars => ClaimIsRecorded'
  <2> SUFFICES ASSUME TypeInv, LockInv, CollectInv, ClaimIsRecorded, [Next]_vars, NEW e \in claimed'
               PROVE  Settled(EventPayment(e))'
    BY DEF ClaimIsRecorded, EventPayment
  <2>1. CASE e \in claimed
    <3>1. Settled(EventPayment(e)) /\ EventPayment(e) \in Payments
      BY <2>1, EventTyped DEF ClaimIsRecorded, TypeInv, TypeOK, WorldTyped
    <3> QED BY <3>1, PaidStep DEF KeepsPaid, Settled, EventPayment
  <2>2. CASE e \notin claimed
    BY <2>2, ClaimSettles
  <2> QED BY <2>1, <2>2
<1> QED BY <1>1, <1>2, TypeInvariance, LocksExclude, CollectInvariance, PTL DEF Spec

-----------------------------------------------------------------------------
(* The handlers implement MoneyLedger.                                       *)

Stage == [b \in Bookings |-> StageOf(booking[b].status)]

Banked == {p \in Payments : Settled(p)}

LEMMA StageCases ==
  ASSUME NEW status
  PROVE  /\ StageOf(status) = "open" <=> status \in {"hold", "payment_pending"}
         /\ StageOf(status) = "cancelled" <=> status = "cancelled"
         /\ status = "expired" => StageOf(status) = "expired"
         /\ status = "confirmed" => StageOf(status) = "live"
BY DEF StageOf

(* A step that changes the status of b alone changes the stage of b alone.   *)
LEMMA StageStep ==
  ASSUME TypeInv, NEW b \in Bookings, NEW status,
         booking'[b].status = status,
         \A c \in Bookings : c # b => booking'[c].status = booking[c].status
  PROVE  Stage' = [Stage EXCEPT ![b] = StageOf(status)]
BY DEF Stage

(* Settling p alone banks p.                                                 *)
LEMMA BankedStep ==
  ASSUME NEW p \in Payments, payment'[p].status = "paid",
         \A q \in Payments : q # p => payment'[q].status = payment[q].status
  PROVE  Banked' = Banked \cup {p}
BY DEF Banked, Settled

(* Recording money, with or without confirming the booking, is Bank.         *)
LEMMA IsBank ==
  ASSUME TypeInv, NEW p \in Payments, ~Settled(p), payment'[p].status = "paid",
         \A q \in Payments : q # p => payment'[q].status = payment[q].status,
         booking[BookingOf[p]].status # "cancelled",
         \A c \in Bookings : c # BookingOf[p] => booking'[c].status = booking[c].status,
         \/ booking'[BookingOf[p]].status = booking[BookingOf[p]].status
         \/ /\ booking[BookingOf[p]].status \in {"hold", "payment_pending"}
            /\ booking'[BookingOf[p]].status = "confirmed"
  PROVE  Ledger!Bank(p)
<1> DEFINE b == BookingOf[p]
<1>1. b \in Bookings
  BY LinkAssumption
<1>2. Banked' = Banked \cup {p} /\ p \notin Banked
  BY BankedStep DEF Banked
<1>3. Stage[b] # "cancelled"
  BY <1>1, StageCases DEF Stage
<1>4. Stage' = [Stage EXCEPT ![b] = StageOf(booking'[b].status)]
  BY <1>1, StageStep
<1>5. Stage' = Stage \/ (Stage[b] = "open" /\ Stage' = [Stage EXCEPT ![b] = "live"])
  <2>1. CASE booking'[b].status = booking[b].status
    <3>1. \A c \in Bookings : booking'[c].status = booking[c].status
      BY <2>1
    <3> QED BY <3>1 DEF Stage
  <2>2. CASE /\ booking[b].status \in {"hold", "payment_pending"}
             /\ booking'[b].status = "confirmed"
    <3>1. Stage[b] = "open"
      BY <1>1, <2>2, StageCases DEF Stage
    <3>2. StageOf(booking'[b].status) = "live"
      BY <2>2, StageCases
    <3> QED BY <1>4, <3>1, <3>2
  <2> QED BY <2>1, <2>2
<1> QED BY <1>1, <1>2, <1>3, <1>5 DEF Ledger!Bank, Stage, Banked

(* Closing a booking for which nothing is settled is GiveUp, or nothing new. *)
LEMMA IsGiveUp ==
  ASSUME TypeInv, NEW b \in Bookings,
         \A p \in PaymentsOf(b) : ~Settled(p),
         \A p \in Payments : Settled(p)' <=> Settled(p),
         \A c \in Bookings : c # b => booking'[c].status = booking[c].status,
         \/ booking'[b].status = "cancelled"
         \/ booking[b].status = "hold" /\ booking'[b].status = "expired"
  PROVE  Ledger!GiveUp(b) \/ (Stage' = Stage /\ Banked' = Banked)
<1>1. {p \in Banked : BookingOf[p] = b} = {}
  BY DEF Banked, PaymentsOf
<1>2. Banked' = Banked
  BY DEF Banked
<1>3. Stage' = [Stage EXCEPT ![b] = StageOf(booking'[b].status)]
  BY StageStep
<1>4. CASE booking[b].status = "cancelled"
  BY <1>2, <1>3, <1>4, StageCases DEF Stage
<1>5. CASE booking[b].status # "cancelled"
  <2>1. \/ Stage[b] = "open" /\ Stage' = [Stage EXCEPT ![b] = "expired"]
        \/ Stage[b] # "cancelled" /\ Stage' = [Stage EXCEPT ![b] = "cancelled"]
    BY <1>3, <1>5, StageCases DEF Stage
  <2> QED BY <1>1, <1>2, <2>1 DEF Ledger!GiveUp, Ledger!BankedFor, Stage, Banked
<1> QED BY <1>4, <1>5

LEMMA LedgerStep ==
  ASSUME CarefulLinks, TypeInv, LockInv, CollectInv, [Next]_vars
  PROVE  Ledger!LedgerNext \/ (Stage' = Stage /\ Banked' = Banked)
<1> USE DEF TypeInv, TypeOK, LedgerTyped, BookingRow, PaymentRow
<1>1. ASSUME NEW p \in Payments, NEW s \in Sessions, NEW late \in BOOLEAN, NEW amount,
             RecordTruth(p, s, amount, late)
      PROVE  Ledger!Bank(p)
  <2>1. BookingOf[p] \in Bookings
    BY LinkAssumption
  <2>2. /\ ~Settled(p) /\ payment'[p].status = "paid"
        /\ \A q \in Payments : q # p => payment'[q].status = payment[q].status
    BY <1>1 DEF RecordTruth, Payable, EligibleStatuses, Settled
  <2>3. /\ booking[BookingOf[p]].status # "cancelled"
        /\ \A c \in Bookings : c # BookingOf[p] => booking'[c].status = booking[c].status
        /\ \/ booking'[BookingOf[p]].status = booking[BookingOf[p]].status
           \/ /\ booking[BookingOf[p]].status \in {"hold", "payment_pending"}
              /\ booking'[BookingOf[p]].status = "confirmed"
    BY <1>1, <2>1 DEF RecordTruth, TakesMoney, PromotesToConfirmed
  <2> QED BY <2>2, <2>3, IsBank
<1>2. ASSUME NEW p \in Payments, RepairTruth(p)
      PROVE  Ledger!LedgerNext \/ (Stage' = Stage /\ Banked' = Banked)
  <2> DEFINE b == BookingOf[p]
  <2>1. b \in Bookings
    BY LinkAssumption
  <2>2. Banked' = Banked /\ p \in {q \in Banked : BookingOf[q] = b}
    BY <1>2 DEF RepairTruth, Banked, Settled
  <2>3. CASE booking' = booking
    BY <2>2, <2>3 DEF Stage
  <2>4. CASE booking[b].status = "payment_pending" /\ booking' = [booking EXCEPT ![b].status = "confirmed"]
    <3>1. /\ booking'[b].status = "confirmed"
          /\ \A c \in Bookings : c # b => booking'[c].status = booking[c].status
      BY <2>1, <2>4
    <3>2. Stage' = [Stage EXCEPT ![b] = StageOf("confirmed")]
      BY <2>1, <3>1, StageStep
    <3>3. StageOf("confirmed") = "live"
      BY StageCases
    <3>4. Stage[b] = "open"
      BY <2>1, <2>4, StageCases DEF Stage
    <3>5. Ledger!Revisit(b)
      BY <2>2, <3>2, <3>3, <3>4 DEF Ledger!Revisit, Ledger!BankedFor, Stage, Banked
    <3> QED BY <2>1, <3>5 DEF Ledger!LedgerNext
  <2> QED BY <1>2, <2>3, <2>4 DEF RepairTruth
<1>3. ASSUME NEW h \in Hooks, AddonRecord(h)
      PROVE  Ledger!Bank(AddonOf(h))
  <2> DEFINE p == AddonOf(h)
  <2>1. p \in Payments /\ ~Settled(p)
    BY <1>3, AddonUnsettled
  <2>2. /\ payment'[p].status = "paid" /\ booking' = booking
        /\ \A q \in Payments : q # p => payment'[q].status = payment[q].status
        /\ booking[BookingOf[p]].status # "cancelled"
    BY <1>3, <2>1 DEF AddonRecord, AddonOf, TakesMoney
  <2> QED BY <2>1, <2>2, IsBank
<1>4. ASSUME NEW c \in Cancellers, CancelCommit(c)
      PROVE  \E b \in Bookings : Ledger!GiveUp(b) \/ (Stage' = Stage /\ Banked' = Banked)
  <2> DEFINE b == job[c].on
  <2>1. b \in Bookings
    BY <1>4 DEF CancelCommit, SubjectsFit, Actors
  <2>2. \A p \in PaymentsOf(b) : ~Settled(p)
    BY <1>4 DEF CancelCommit, ZeroPayment, PresentPayments, Settled
  <2>3. \A p \in Payments : Settled(p)' <=> Settled(p)
    BY <1>4, <2>2 DEF CancelCommit, Retired, PresentPayments, Settled
  <2>4. /\ booking'[b].status = "cancelled"
        /\ \A d \in Bookings : d # b => booking'[d].status = booking[d].status
    BY <1>4, <2>1 DEF CancelCommit
  <2> QED BY <2>1, <2>2, <2>3, <2>4, IsGiveUp
<1>5. ASSUME NEW x \in Expirers, ExpireHold(x)
      PROVE  \E b \in Bookings : Ledger!GiveUp(b) \/ (Stage' = Stage /\ Banked' = Banked)
  <2> DEFINE b == job[x].on
  <2>1. b \in Bookings
    BY <1>5 DEF ExpireHold, SubjectsFit, Actors
  <2>2. \A p \in PaymentsOf(b) : ~Settled(p)
    BY <1>5 DEF ExpireHold, PaidForExpiry, PaidPayments, Settled
  <2>3. \A p \in Payments : Settled(p)' <=> Settled(p)
    BY <1>5 DEF ExpireHold, Settled
  <2>4. /\ booking[b].status = "hold" /\ booking'[b].status = "expired"
        /\ \A d \in Bookings : d # b => booking'[d].status = booking[d].status
    BY <1>5, <2>1 DEF ExpireHold, Overdue
  <2> QED BY <2>1, <2>2, <2>3, <2>4, IsGiveUp
<1>6. ASSUME NEW k \in Clerks, CashRecord(k)
      PROVE  \E p \in Payments : Ledger!Bank(p)
  <2> DEFINE p == job[k].on
             b == BookingOf[p]
  <2>1. p \in Payments /\ b \in Bookings
    BY <1>6, LinkAssumption DEF CashRecord, SubjectsFit, Actors
  <2>2. /\ ~Settled(p) /\ payment'[p].status = "paid"
        /\ \A q \in Payments : q # p => payment'[q].status = payment[q].status
    BY <1>6, <2>1 DEF CashRecord, CashAccepted, Settled
  <2>3. /\ booking[b].status # "cancelled"
        /\ \A c \in Bookings : booking'[c].status = booking[c].status
    BY <1>6, <2>1 DEF CashRecord, CashAccepted
  <2> QED BY <2>1, <2>2, <2>3, IsBank
<1>7. ASSUME NEW m \in LinkMakers, AttachSession(m)
      PROVE  Stage' = Stage /\ Banked' = Banked
  <2> DEFINE p == SessionPayment[job[m].on]
  <2>1. p \in Payments /\ ~Settled(p)
    BY <1>7, AttachUnsettled
  <2>2. booking' = booking /\ payment'[p].status # "paid"
        /\ \A q \in Payments : q # p => payment'[q] = payment[q]
    BY <1>7, <2>1 DEF AttachSession, Settled
  <2>3. \A q \in Payments : Settled(q)' <=> Settled(q)
    BY <2>1, <2>2 DEF Settled
  <2> HIDE DEF p
  <2> QED BY <2>2, <2>3 DEF Stage, Banked
<1>8. CASE UNCHANGED ledger
  BY <1>8 DEF ledger, Stage, Banked, Settled
<1> QED
  BY <1>1, <1>2, <1>3, <1>4, <1>5, <1>6, <1>7, <1>8, StepWrites, AddonUnsettled
  DEF CarefulLinks, Writes, Ledger!LedgerNext

LEMMA LedgerStart ==
  ASSUME Init
  PROVE  Ledger!LedgerInit
<1>1. Stage \in [Bookings -> {"open", "live"}]
  BY LinkAssumption DEF Stage, StageOf, Init, StoreInit
<1>2. Banked = {}
  BY DEF Banked, Settled, Init, StoreInit
<1> QED BY <1>1, <1>2 DEF Ledger!LedgerInit, Stage, Banked

(* Seen through statuses alone, every interleaving of the handlers keeps the *)
(* promises of MoneyLedger: money is banked once and for ever, a booking is  *)
(* given up only while nothing is banked, and never lives again.             *)
THEOREM HandlersKeepLedger == CarefulLinks => (Spec => KeepsLedger)
<1> SUFFICES ASSUME CarefulLinks PROVE Spec => KeepsLedger
  OBVIOUS
<1>1. TypeInv /\ LockInv /\ CollectInv /\ [Next]_vars => [Ledger!LedgerNext]_<<Stage, Banked>>
  BY LedgerStep
<1> QED BY <1>1, LedgerStart, TypeInvariance, LocksExclude, CollectInvariance, PTL
        DEF Spec, KeepsLedger, Ledger!LedgerSpec, Stage, Banked
-----------------------------------------------------------------------------
(* What bookings and guests repeat: sums over the payments settled.          *)

(* What the settled payments of S brought.                                   *)
PaidSum(S) == Sum(paymentPaid, {p \in S : Settled(p)})

OfGuest(g) == {p \in Payments : GuestOf[p] = g}

(* Every amount the proofs add up is a number.                               *)
AmountsTyped == \A p \in Payments : paymentPaid[p] \in Nat

(* The sums the model speaks of are sums over a function.                    *)
LEMMA SumsAreSums ==
  /\ \A S : SumPaid(S) = PaidSum(S)
  /\ \A b \in Bookings : \A p : PaidElsewhere(b, p) = Sum(paymentPaid, PaidPayments(b) \ {p})
  /\ \A p \in Payments : \A n : GuestTotal(p, n) =
       n + Sum(paymentPaid,
               {q \in PaidPayments(BookingOf[p]) \ {p} : GuestOf[q] = GuestOf[p]})
<1>1. ASSUME NEW S
      PROVE  SumPaid(S) = PaidSum(S)
  BY SumIsMapThenSum DEF SumPaid, PaidSum
<1>2. ASSUME NEW b \in Bookings, NEW p
      PROVE  PaidElsewhere(b, p) = Sum(paymentPaid, PaidPayments(b) \ {p})
  BY SumIsMapThenSum DEF PaidElsewhere
<1>3. ASSUME NEW p \in Payments, NEW n
      PROVE  GuestTotal(p, n) =
               n + Sum(paymentPaid,
                       {q \in PaidPayments(BookingOf[p]) \ {p} : GuestOf[q] = GuestOf[p]})
  BY SumIsMapThenSum DEF GuestTotal
<1> QED BY <1>1, <1>2, <1>3

LEMMA PaidSumTyped ==
  ASSUME AmountsTyped, NEW S \in SUBSET Payments, NEW R \in SUBSET S
  PROVE  /\ IsFiniteSet({p \in S : Settled(p)})
         /\ Sum(paymentPaid, {p \in R : Settled(p)}) \in Nat
         /\ PaidSum(R) <= PaidSum(S)
<1>1. IsFiniteSet({p \in S : Settled(p)}) /\ IsFiniteSet({p \in R : Settled(p)})
  BY RowAssumption, FS_Subset
<1>2. {p \in R : Settled(p)} \in SUBSET {p \in S : Settled(p)}
  OBVIOUS
<1> QED BY <1>1, <1>2, SumNat, SumSubset DEF AmountsTyped, PaidSum

(* Settling p for an amount adds it to every sum p counts in.                *)
LEMMA SettlingAdds ==
  ASSUME TypeInv, AmountsTyped, NEW p \in Payments, NEW amount \in Nat, ~Settled(p),
         payment'[p].status = "paid",
         \A q \in Payments \ {p} : payment'[q].status = payment[q].status,
         paymentPaid' = [paymentPaid EXCEPT ![p] = amount],
         NEW S \in SUBSET Payments
  PROVE  /\ p \in S => PaidSum(S)' = amount + PaidSum(S)
         /\ p \notin S => PaidSum(S)' = PaidSum(S)
<1> DEFINE T == {q \in S : Settled(q)}
<1>1. paymentPaid'[p] = amount /\ \A q \in Payments \ {p} : paymentPaid'[q] = paymentPaid[q]
  BY DEF TypeInv, TypeOK, LedgerTyped
<1>2. IsFiniteSet(T) /\ p \notin T /\ \A q \in T : paymentPaid'[q] = paymentPaid[q]
  BY <1>1, PaidSumTyped
<1>3. Sum(paymentPaid', T) = PaidSum(S)
  <2>1. PaidSum(S) = Sum(paymentPaid, T)
    BY DEF PaidSum
  <2>2. Sum(paymentPaid', T) = Sum(paymentPaid, T)
    <3> HIDE DEF T
    <3> QED BY <1>2, SumAgrees
  <2> QED BY <2>1, <2>2
<1>4. CASE p \in S
  <2>1. {q \in S : payment'[q].status = "paid"} = T \cup {p}
    BY <1>4 DEF Settled
  <2>2. Sum(paymentPaid', T \cup {p}) = amount + Sum(paymentPaid', T)
    <3>1. \A q \in T : paymentPaid'[q] \in Nat
      BY <1>2 DEF AmountsTyped
    <3> HIDE DEF T
    <3> QED BY <1>1, <1>2, <3>1, SumAdd
  <2> QED BY <1>3, <1>4, <2>1, <2>2 DEF PaidSum, Settled
<1>5. CASE p \notin S
  <2>1. {q \in S : payment'[q].status = "paid"} = T
    BY <1>5 DEF Settled
  <2> QED BY <1>3, <1>5, <2>1 DEF PaidSum, Settled
<1> QED BY <1>4, <1>5

(* Nothing is settled or unsettled, and no amount or payment status moves.   *)
Quiet ==
  /\ \A p \in Payments : Settled(p)' <=> Settled(p)
  /\ UNCHANGED amounts
  /\ \A b \in Bookings : booking'[b].payStatus = booking[b].payStatus

(* A step settles one payment, repairs one booking, or is quiet.             *)
LEMMA StepKinds ==
  ASSUME CarefulLinks, TypeInv, LockInv, CollectInv, [Next]_vars
  PROVE  \/ \E p \in Payments, s \in Sessions, late \in BOOLEAN :
              \E amount \in Amounts(p) : RecordTruth(p, s, amount, late)
         \/ \E h \in Hooks : AddonRecord(h)
         \/ \E k \in Clerks : CashRecord(k)
         \/ \E p \in Payments : RepairTruth(p)
         \/ Quiet
<1> USE DEF Quiet, Settled, TypeInv, TypeOK, LedgerTyped, BookingRow, PaymentRow
<1>1. ASSUME NEW c \in Cancellers, CancelCommit(c)
      PROVE  Quiet
  <2>1. \A p \in PresentPayments(job[c].on) : ~Settled(p)
    BY <1>1 DEF CancelCommit, ZeroPayment
  <2>2. \A p \in Payments : Settled(p)' <=> Settled(p)
    BY <1>1, <2>1 DEF CancelCommit, Retired
  <2> QED BY <1>1, <2>2 DEF CancelCommit
<1>2. ASSUME NEW x \in Expirers, ExpireHold(x)
      PROVE  Quiet
  <2>1. \A p \in Payments : Settled(p)' <=> Settled(p)
    BY <1>2 DEF ExpireHold
  <2> QED BY <1>2, <2>1 DEF ExpireHold
<1>3. ASSUME NEW m \in LinkMakers, AttachSession(m)
      PROVE  Quiet
  <2>1. ~Settled(SessionPayment[job[m].on])
    BY <1>3, AttachUnsettled
  <2>2. \A p \in Payments : Settled(p)' <=> Settled(p)
    BY <1>3, <2>1 DEF AttachSession
  <2> QED BY <1>3, <2>2 DEF AttachSession
<1>4. CASE UNCHANGED ledger
  BY <1>4 DEF ledger
<1> QED BY <1>1, <1>2, <1>3, <1>4, StepWrites DEF Writes, CarefulLinks

LEMMA QuietKeepsSums ==
  ASSUME Quiet, NEW S \in SUBSET Payments
  PROVE  PaidSum(S)' = PaidSum(S)
<1>1. {q \in S : payment'[q].status = "paid"} = {q \in S : payment[q].status = "paid"}
  BY DEF Quiet, Settled
<1> QED BY <1>1 DEF Quiet, PaidSum, Settled, amounts

-----------------------------------------------------------------------------
(* Amounts.                                                                  *)

(* What a webhook or a reconciler records is a number, and no more than due. *)
LEMMA AmountsBounded ==
  ASSUME AmountsTyped, NEW p \in Payments, NEW amount \in Amounts(p)
  PROVE  amount \in Nat /\ amount <= Due[p]
<1>1. Due[p] \in Nat /\ BookingOf[p] \in Bookings /\ Total[BookingOf[p]] \in Nat
  BY LinkAssumption
<1>2. FullAmount(p) = Due[p]
  BY DEF FullAmount
<1>3. PaidElsewhere(BookingOf[p], p) \in Nat
  <2>1. PaidElsewhere(BookingOf[p], p) = Sum(paymentPaid, PaidPayments(BookingOf[p]) \ {p})
    BY <1>1, SumsAreSums
  <2>2. PaidPayments(BookingOf[p]) \ {p} \subseteq Payments
    BY DEF PaidPayments, PaymentsOf
  <2>3. IsFiniteSet(PaidPayments(BookingOf[p]) \ {p})
    BY <2>2, RowAssumption, FS_Subset
  <2> QED BY <2>1, <2>2, <2>3, SumNat DEF AmountsTyped
<1>4. CappedAmount(p) \in Nat /\ CappedAmount(p) <= Due[p]
  BY <1>1, <1>3 DEF CappedAmount, AtMost
<1> QED BY <1>1, <1>2, <1>4 DEF Amounts

(* No payment ever shows more than what was due for it.                      *)
NoMoreThanDue == \A p \in Payments : paymentPaid[p] <= Due[p]

AmountsInv == AmountsTyped /\ NoMoreThanDue

LEMMA AmountsStep ==
  ASSUME TypeInv, AmountsInv, [Next]_vars
  PROVE  AmountsInv'
<1> USE DEF AmountsInv, AmountsTyped, NoMoreThanDue, TypeInv, TypeOK, LedgerTyped
<1>1. \A p \in Payments : Due[p] \in Nat
  BY LinkAssumption
<1>2. ASSUME NEW p \in Payments, NEW amount \in Nat, amount <= Due[p],
             paymentPaid' = [paymentPaid EXCEPT ![p] = amount]
      PROVE  AmountsInv'
  BY <1>2
<1>3. ASSUME NEW p \in Payments, NEW s \in Sessions, NEW late \in BOOLEAN,
             NEW amount \in Amounts(p), RecordTruth(p, s, amount, late)
      PROVE  AmountsInv'
  BY <1>2, <1>3, AmountsBounded DEF RecordTruth
<1>4. ASSUME NEW h \in Hooks, AddonRecord(h)
      PROVE  AmountsInv'
  <2>1. EventPayment(job[h].on) \in Payments
    BY <1>4, EventTyped DEF AddonRecord, SubjectsFit, Actors
  <2> QED BY <1>1, <1>2, <1>4, <2>1 DEF AddonRecord, FullAmount
<1>5. ASSUME NEW k \in Clerks, CashRecord(k)
      PROVE  AmountsInv'
  <2>1. job[k].on \in Payments
    BY <1>5, LinkAssumption DEF CashRecord, SubjectsFit, Actors
  <2> QED BY <1>1, <1>2, <1>5, <2>1 DEF CashRecord
<1>6. CASE UNCHANGED paymentPaid
  BY <1>6
<1>7. ASSUME \/ \E p \in Payments : RepairTruth(p)
             \/ \E c \in Cancellers : CancelCommit(c)
             \/ \E x \in Expirers : ExpireHold(x)
             \/ \E m \in LinkMakers : AttachSession(m)
             \/ \E k \in LinkCancellers : DropCommit(k)
             \/ UNCHANGED ledger
      PROVE  UNCHANGED paymentPaid
  BY <1>7 DEF RepairTruth, CancelCommit, ExpireHold, AttachSession, DropCommit, ledger, amounts
<1> QED BY <1>3, <1>4, <1>5, <1>6, <1>7, StepWrites DEF Writes

LEMMA AmountsInvariance == Spec => []AmountsInv
<1>1. Init => AmountsInv
  BY LinkAssumption DEF Init, StoreInit, AmountsInv, AmountsTyped, NoMoreThanDue
<1> QED BY <1>1, AmountsStep, TypeInvariance, PTL DEF Spec

(* Whoever records a payment, and after whatever races, its row never shows  *)
(* more money than was due for it.                                           *)
THEOREM NothingOvercharged == Spec => []NoMoreThanDue
<1>1. AmountsInv => NoMoreThanDue
  BY DEF AmountsInv
<1> QED BY <1>1, AmountsInvariance, PTL

-----------------------------------------------------------------------------
(* Bookings.                                                                 *)

(* For an unsettled payment, the others are all that is settled.             *)
LEMMA ElsewhereIsAll ==
  ASSUME NEW p \in Payments, ~Settled(p)
  PROVE  /\ BookingOf[p] \in Bookings /\ PaymentsOf(BookingOf[p]) \in SUBSET Payments
         /\ PaidElsewhere(BookingOf[p], p) = PaidSum(PaymentsOf(BookingOf[p]))
<1>1. BookingOf[p] \in Bookings
  BY LinkAssumption
<1>2. PaidPayments(BookingOf[p]) \ {p} = {q \in PaymentsOf(BookingOf[p]) : Settled(q)}
  BY DEF PaidPayments, Settled
<1> QED BY <1>1, <1>2, SumsAreSums DEF PaidSum, PaymentsOf

(* The booking is credited with the new sum, capped, and counts as paid only *)
(* when the sum reaches its total.                                           *)
LEMMA MoneyAfterIs ==
  ASSUME AmountsTyped, NEW p \in Payments, ~Settled(p), NEW amount \in Nat,
         NEW sum, sum = amount + PaidSum(PaymentsOf(BookingOf[p]))
  PROVE  LET total == Total[BookingOf[p]]
             money == MoneyAfter(p, amount)
         IN /\ sum \in Nat /\ total \in Nat
            /\ money.paid = IF total > 0 THEN AtMost(sum, total) ELSE sum
            /\ money.payStatus = "paid" /\ total > 0 => sum >= total
<1> DEFINE b == BookingOf[p]
           prev == PaidElsewhere(b, p)
<1>1. b \in Bookings /\ prev = PaidSum(PaymentsOf(b)) /\ PaymentsOf(b) \in SUBSET Payments
  BY ElsewhereIsAll
<1>2. prev \in Nat /\ Total[b] \in Nat
  <2>1. PaidSum(PaymentsOf(b)) \in Nat
    BY <1>1, PaidSumTyped DEF PaidSum
  <2> QED BY <1>1, <2>1, LinkAssumption
<1>3. sum = prev + amount
  BY <1>1, <1>2
<1> HIDE DEF prev
<1>4. DerivePaymentState(Kind[p], Total[b], prev, amount, Due[p]).paid =
        IF Total[b] > 0 THEN AtMost(sum, Total[b]) ELSE sum
  BY <1>2, <1>3 DEF DerivePaymentState
<1>5. ASSUME DerivePaymentState(Kind[p], Total[b], prev, amount, Due[p]).payStatus = "paid",
             Total[b] > 0
      PROVE  sum >= Total[b]
  BY <1>2, <1>3, <1>5 DEF DerivePaymentState, LinkCovers, AtMost
<1> QED BY <1>2, <1>3, <1>4, <1>5 DEF MoneyAfter, prev

(* A booking shows no more than its settled payments brought, and counts as  *)
(* paid only when they reach its total.                                      *)
BookingFits(b) ==
  /\ bookingPaid[b] \in Nat
  /\ bookingPaid[b] <= PaidSum(PaymentsOf(b))
  /\ booking[b].payStatus = "paid" /\ Total[b] > 0 => PaidSum(PaymentsOf(b)) >= Total[b]

BookingsInv == \A b \in Bookings : BookingFits(b)

(* More money never hurts.                                                   *)
LEMMA StillFits ==
  ASSUME AmountsTyped, AmountsTyped', NEW b \in Bookings, BookingFits(b),
         booking'[b].payStatus = booking[b].payStatus, bookingPaid'[b] = bookingPaid[b],
         PaidSum(PaymentsOf(b))' >= PaidSum(PaymentsOf(b))
  PROVE  BookingFits(b)'
<1>1. PaidSum(PaymentsOf(b)) \in Nat /\ PaidSum(PaymentsOf(b))' \in Nat /\ Total[b] \in Nat
  <2>1. PaymentsOf(b) \in SUBSET Payments
    BY DEF PaymentsOf
  <2>2. PaidSum(PaymentsOf(b)) \in Nat
    BY <2>1, PaidSumTyped DEF PaidSum
  <2>3. PaidSum(PaymentsOf(b))' \in Nat
    <3>1. IsFiniteSet({p \in PaymentsOf(b) : payment'[p].status = "paid"})
      BY <2>1, RowAssumption, FS_Subset
    <3> QED BY <2>1, <3>1, SumNat DEF AmountsTyped, PaidSum, Settled
  <2> QED BY <2>2, <2>3, LinkAssumption
<1> QED BY <1>1 DEF BookingFits

(* Settling p adds to the sum of its booking and to no other.                *)
LEMMA SettlingAddsToBooking ==
  ASSUME TypeInv, AmountsTyped, NEW p \in Payments, NEW amount \in Nat, ~Settled(p),
         payment'[p].status = "paid",
         \A q \in Payments \ {p} : payment'[q].status = payment[q].status,
         paymentPaid' = [paymentPaid EXCEPT ![p] = amount]
  PROVE  \A b \in Bookings : /\ PaidSum(PaymentsOf(b)) \in Nat
                             /\ PaidSum(PaymentsOf(b))' =
                                  IF b = BookingOf[p] THEN amount + PaidSum(PaymentsOf(b))
                                                      ELSE PaidSum(PaymentsOf(b))
<1> SUFFICES ASSUME NEW b \in Bookings
             PROVE  /\ PaidSum(PaymentsOf(b)) \in Nat
                    /\ PaidSum(PaymentsOf(b))' =
                         IF b = BookingOf[p] THEN amount + PaidSum(PaymentsOf(b))
                                             ELSE PaidSum(PaymentsOf(b))
  OBVIOUS
<1>1. PaymentsOf(b) \in SUBSET Payments /\ (p \in PaymentsOf(b) <=> b = BookingOf[p])
  BY DEF PaymentsOf
<1>2. PaidSum(PaymentsOf(b)) \in Nat
  BY <1>1, PaidSumTyped DEF PaidSum
<1> QED BY <1>1, <1>2, SettlingAdds

LEMMA BookingsStep ==
  ASSUME CarefulLinks, TypeInv, LockInv, CollectInv, AmountsInv, BookingsInv, [Next]_vars
  PROVE  BookingsInv'
<1> USE DEF BookingsInv
<1>1. /\ AmountsTyped /\ AmountsTyped'
      /\ \A p \in Payments : BookingOf[p] \in Bookings
  BY AmountsStep, LinkAssumption DEF AmountsInv
<1>2. ASSUME NEW p \in Payments, NEW s \in Sessions, NEW late \in BOOLEAN,
             NEW amount \in Amounts(p), RecordTruth(p, s, amount, late)
      PROVE  BookingsInv'
  <2> DEFINE b == BookingOf[p]
             sum == amount + PaidSum(PaymentsOf(b))
  <2>1. ~Settled(p) /\ amount \in Nat
    BY <1>1, <1>2, AmountsBounded DEF RecordTruth, Payable, EligibleStatuses, Settled
  <2>2. \A c \in Bookings : PaidSum(PaymentsOf(c)) \in Nat
                           /\ PaidSum(PaymentsOf(c))' = IF c = b THEN sum ELSE PaidSum(PaymentsOf(c))
    BY <1>1, <1>2, <2>1, SettlingAddsToBooking
    DEF RecordTruth, TypeInv, TypeOK, LedgerTyped, PaymentRow
  <2>3. /\ bookingPaid'[b] = MoneyAfter(p, amount).paid
        /\ booking'[b].payStatus = MoneyAfter(p, amount).payStatus
        /\ \A c \in Bookings \ {b} : bookingPaid'[c] = bookingPaid[c]
                                 /\ booking'[c].payStatus = booking[c].payStatus
    BY <1>1, <1>2 DEF RecordTruth, TypeInv, TypeOK, LedgerTyped, BookingRow
  <2>4. /\ sum \in Nat /\ Total[b] \in Nat
        /\ MoneyAfter(p, amount).paid = IF Total[b] > 0 THEN AtMost(sum, Total[b]) ELSE sum
        /\ MoneyAfter(p, amount).payStatus = "paid" /\ Total[b] > 0 => sum >= Total[b]
    BY <1>1, <2>1, MoneyAfterIs
  <2>5. ASSUME NEW c \in Bookings
        PROVE  BookingFits(c)'
    <3>1. CASE c = b
      BY <2>2, <2>3, <2>4, <3>1 DEF BookingFits, AtMost
    <3>2. CASE c # b
      BY <1>1, <2>2, <2>3, <3>2, StillFits
    <3> QED BY <3>1, <3>2
  <2> QED BY <2>5
<1>3. ASSUME NEW h \in Hooks, AddonRecord(h)
      PROVE  BookingsInv'
  <2>1. PICK p \in Payments : p = EventPayment(job[h].on) /\ ~Settled(p)
    BY <1>3, AddonUnsettled DEF AddonOf
  <2>2. /\ FullAmount(p) \in Nat
        /\ payment'[p].status = "paid"
        /\ \A q \in Payments \ {p} : payment'[q].status = payment[q].status
        /\ paymentPaid' = [paymentPaid EXCEPT ![p] = FullAmount(p)]
        /\ UNCHANGED <<booking, bookingPaid>>
    <3>1. FullAmount(p) \in Nat
      BY LinkAssumption DEF FullAmount
    <3>2. /\ payment' = [payment EXCEPT ![p].status = "paid"]
          /\ paymentPaid' = [paymentPaid EXCEPT ![p] = FullAmount(p)]
          /\ UNCHANGED <<booking, bookingPaid>>
      BY <1>3, <2>1 DEF AddonRecord
    <3> QED BY <3>1, <3>2 DEF TypeInv, TypeOK, LedgerTyped, PaymentRow
  <2>3. ASSUME NEW c \in Bookings
        PROVE  PaidSum(PaymentsOf(c))' >= PaidSum(PaymentsOf(c))
    <3> DEFINE n == FullAmount(p)
    <3>1. n \in Nat
      BY <2>2
    <3>2. /\ PaidSum(PaymentsOf(c)) \in Nat
          /\ PaidSum(PaymentsOf(c))' = IF c = BookingOf[p] THEN n + PaidSum(PaymentsOf(c))
                                                          ELSE PaidSum(PaymentsOf(c))
      BY <1>1, <2>1, <2>2, SettlingAddsToBooking
    <3> HIDE DEF n
    <3> QED BY <3>1, <3>2
  <2> QED BY <1>1, <2>2, <2>3, StillFits
<1>4. ASSUME NEW k \in Clerks, CashRecord(k)
      PROVE  BookingsInv'
  <2>1. PICK p \in Payments : p = job[k].on /\ ~Settled(p)
    BY <1>4, LinkAssumption DEF CashRecord, CashAccepted, TypeInv, SubjectsFit, Actors, Settled
  <2> DEFINE b == BookingOf[p]
             sum == Due[p] + PaidSum(PaymentsOf(b))
  <2>2. /\ Due[p] \in Nat
        /\ payment'[p].status = "paid"
        /\ \A q \in Payments \ {p} : payment'[q].status = payment[q].status
        /\ paymentPaid' = [paymentPaid EXCEPT ![p] = Due[p]]
    BY <1>4, <2>1, LinkAssumption DEF CashRecord, TypeInv, TypeOK, LedgerTyped, PaymentRow
  <2>3. \A c \in Bookings : PaidSum(PaymentsOf(c)) \in Nat
                           /\ PaidSum(PaymentsOf(c))' = IF c = b THEN sum ELSE PaidSum(PaymentsOf(c))
    BY <1>1, <2>1, <2>2, SettlingAddsToBooking
  <2>4. /\ b \in Bookings /\ Total[b] \in Nat
        /\ PaidElsewhere(b, p) = PaidSum(PaymentsOf(b))
    BY <1>1, <2>1, ElsewhereIsAll, LinkAssumption
  <2>5. PaidElsewhere(b, p) + Due[p] = sum
    BY <2>2, <2>3, <2>4
  <2>6. /\ bookingPaid'[b] = sum
        /\ booking'[b].payStatus =
             IF Total[b] > 0 /\ sum >= Total[b] THEN "paid"
             ELSE IF booking[b].payStatus = "not_requested" THEN "deposit_paid"
             ELSE booking[b].payStatus
        /\ \A c \in Bookings \ {b} : bookingPaid'[c] = bookingPaid[c]
                                 /\ booking'[c].payStatus = booking[c].payStatus
    BY <1>4, <2>1, <2>4, <2>5 DEF CashRecord, TypeInv, TypeOK, LedgerTyped, BookingRow
  <2>7. ASSUME NEW c \in Bookings
        PROVE  BookingFits(c)'
    <3>1. CASE c = b
      BY <2>2, <2>3, <2>4, <2>6, <3>1 DEF BookingFits
    <3>2. CASE c # b
      BY <1>1, <2>3, <2>6, <3>2, StillFits
    <3> QED BY <3>1, <3>2
  <2> QED BY <2>7
<1>5. ASSUME UNCHANGED bookingPaid,
             \A b \in Bookings : booking'[b].payStatus = booking[b].payStatus,
             \A b \in Bookings : PaidSum(PaymentsOf(b))' = PaidSum(PaymentsOf(b))
      PROVE  BookingsInv'
  BY <1>5 DEF BookingFits
<1>6. ASSUME NEW p \in Payments, RepairTruth(p)
      PROVE  BookingsInv'
  <2>1. \A b \in Bookings : booking'[b].payStatus = booking[b].payStatus
    BY <1>1, <1>6 DEF RepairTruth, TypeInv, TypeOK, LedgerTyped, BookingRow
  <2> QED BY <1>5, <1>6, <2>1 DEF RepairTruth, PaidSum, Settled
<1>7. CASE Quiet
  <2>1. \A b \in Bookings : PaymentsOf(b) \in SUBSET Payments
    BY DEF PaymentsOf
  <2> QED BY <1>5, <1>7, <2>1, QuietKeepsSums DEF Quiet, amounts
<1> QED BY <1>2, <1>3, <1>4, <1>6, <1>7, StepKinds

(* With nothing settled, every sum is zero.                                  *)
LEMMA NothingYet ==
  ASSUME Init, NEW S \in SUBSET Payments
  PROVE  PaidSum(S) = 0
<1>1. {p \in S : Settled(p)} = {}
  BY DEF Init, StoreInit, Settled
<1> QED BY <1>1, SumEmpty DEF PaidSum

LEMMA BookingsInvariance == CarefulLinks => (Spec => []BookingsInv)
<1> SUFFICES ASSUME CarefulLinks PROVE Spec => []BookingsInv
  OBVIOUS
<1>1. ASSUME Init, NEW b \in Bookings
      PROVE  BookingFits(b)
  <2>1. PaidSum(PaymentsOf(b)) = 0
    BY <1>1, NothingYet DEF PaymentsOf
  <2>2. bookingPaid[b] = 0 /\ booking[b].payStatus # "paid"
    BY <1>1, LinkAssumption DEF Init, StoreInit
  <2> QED BY <2>1, <2>2 DEF BookingFits
<1>2. Init => BookingsInv
  BY <1>1 DEF BookingsInv
<1>3. TypeInv /\ LockInv /\ CollectInv /\ AmountsInv /\ BookingsInv /\ [Next]_vars => BookingsInv'
  BY BookingsStep
<1> QED BY <1>2, <1>3, TypeInvariance, LocksExclude, CollectInvariance, AmountsInvariance, PTL
        DEF Spec

(* A booking counts as paid only when its settled payments reach its total,  *)
(* whatever order webhooks, reconcilers and clerks credited them in: each    *)
(* sums the others under the booking lock, and no sum ever shrinks.          *)
THEOREM PaidMeansPaidInFull == CarefulLinks => (Spec => []PaidInFull)
<1> SUFFICES ASSUME CarefulLinks PROVE Spec => []PaidInFull
  OBVIOUS
<1>1. BookingsInv => PaidInFull
  BY SumsAreSums DEF BookingsInv, BookingFits, PaidInFull
<1> QED BY <1>1, BookingsInvariance, PTL

(* A booking never shows more than its settled payments brought.             *)
NothingOverstated == \A b \in Bookings : bookingPaid[b] <= SumPaid(PaymentsOf(b))

(* Capping, late money and repairs only ever understate what a booking was   *)
(* paid.                                                                     *)
THEOREM ShownIsPaid == CarefulLinks => (Spec => []NothingOverstated)
<1> SUFFICES ASSUME CarefulLinks PROVE Spec => []NothingOverstated
  OBVIOUS
<1>1. BookingsInv => NothingOverstated
  BY SumsAreSums DEF BookingsInv, BookingFits, NothingOverstated
<1> QED BY <1>1, BookingsInvariance, PTL

(* A booking that shows money, or counts as paid or deposit paid, has a      *)
(* settled payment of its own.                                               *)
ShownIsOwn ==
  \A b \in Bookings :
    bookingPaid[b] > 0 \/ MoneyOk(booking[b].payStatus) =>
      \E p \in PaymentsOf(b) : Settled(p) /\ ~IsAddon(p)

(* The run addon_counted has an add-on payment in what a booking shows.  It  *)
(* only gets there with a payment of the booking's own: the webhook of an    *)
(* add-on writes the payment's row alone, so a paid surf lesson by itself    *)
(* never makes a deposit of a booking nobody paid for.                       *)
THEOREM AddonsAloneShowNothing == CarefulLinks => (Spec => []ShownIsOwn)
<1> SUFFICES ASSUME CarefulLinks PROVE Spec => []ShownIsOwn
  OBVIOUS
<1>1. ASSUME Init
      PROVE  ShownIsOwn
  <2>1. ASSUME NEW b \in Bookings
        PROVE  bookingPaid[b] = 0 /\ ~MoneyOk(booking[b].payStatus)
    <3>1. booking[b].payStatus \in {"not_requested", "waiting_payment"}
      BY <1>1, LinkAssumption DEF Init, StoreInit
    <3> QED BY <1>1, <3>1 DEF Init, StoreInit, MoneyOk
  <2> QED BY <2>1 DEF ShownIsOwn
<1>2. TypeInv /\ LockInv /\ CollectInv /\ ShownIsOwn /\ [Next]_vars => ShownIsOwn'
  <2> SUFFICES ASSUME TypeInv, LockInv, CollectInv, ShownIsOwn, [Next]_vars,
                      NEW b \in Bookings,
                      bookingPaid'[b] > 0 \/ MoneyOk(booking'[b].payStatus)
               PROVE  \E p \in PaymentsOf(b) : Settled(p)' /\ ~IsAddon(p)
    BY DEF ShownIsOwn, PaymentsOf, IsAddon
  <2> USE DEF IsAddon, PaymentsOf, Settled, TypeInv, TypeOK, LedgerTyped, BookingRow, PaymentRow
  <2>1. ASSUME bookingPaid'[b] = bookingPaid[b], booking'[b].payStatus = booking[b].payStatus
        PROVE  \E p \in PaymentsOf(b) : Settled(p)' /\ ~IsAddon(p)
    <3>1. PICK p \in PaymentsOf(b) : Settled(p) /\ ~IsAddon(p)
      BY <2>1 DEF ShownIsOwn
    <3>2. Settled(p)'
      BY <3>1, PaidStep DEF KeepsPaid
    <3> QED BY <3>1, <3>2
  <2>2. ASSUME NEW p \in Payments, NEW s \in Sessions, NEW late \in BOOLEAN,
               NEW amount \in Amounts(p), RecordTruth(p, s, amount, late)
        PROVE  \E q \in PaymentsOf(b) : Settled(q)' /\ ~IsAddon(q)
    <3>1. CASE b = BookingOf[p]
      BY <2>2, <3>1 DEF RecordTruth, Payable
    <3>2. CASE b # BookingOf[p]
      BY <2>1, <2>2, <3>2 DEF RecordTruth
    <3> QED BY <3>1, <3>2
  <2>3. ASSUME NEW h \in Hooks, AddonRecord(h)
        PROVE  \E p \in PaymentsOf(b) : Settled(p)' /\ ~IsAddon(p)
    BY <2>1, <2>3 DEF AddonRecord
  <2>4. ASSUME NEW k \in Clerks, CashRecord(k)
        PROVE  \E p \in PaymentsOf(b) : Settled(p)' /\ ~IsAddon(p)
    <3>1. job[k].on \in CashPayments
      BY <2>4 DEF CashRecord, SubjectsFit, Actors
    <3>2. job[k].on \in Payments /\ Kind[job[k].on] = "full_amount"
      BY <3>1, LinkAssumption
    <3>3. CASE b = BookingOf[job[k].on]
      BY <2>4, <3>2, <3>3 DEF CashRecord
    <3>4. CASE b # BookingOf[job[k].on]
      BY <2>1, <2>4, <3>4 DEF CashRecord
    <3> QED BY <3>3, <3>4
  <2>5. ASSUME NEW p \in Payments, RepairTruth(p)
        PROVE  \E q \in PaymentsOf(b) : Settled(q)' /\ ~IsAddon(q)
    BY <2>1, <2>5 DEF RepairTruth
  <2>6. CASE Quiet
    BY <2>1, <2>6 DEF Quiet, amounts
  <2> QED BY <2>2, <2>3, <2>4, <2>5, <2>6, StepKinds
<1> QED BY <1>1, <1>2, TypeInvariance, LocksExclude, CollectInvariance, PTL DEF Spec

-----------------------------------------------------------------------------
(* Bookings and guests agree with their payments.                            *)

(* A guest is of one booking, and whoever inserts a payment for a guest      *)
(* takes the guest by id and booking (staff-manual-payment.js,               *)
(* per-guest-checkout.js).                                                   *)
GuestsOfOneBooking ==
  \A p, q \in Payments :
    GuestOf[p] = GuestOf[q] /\ GuestOf[p] \in Guests => BookingOf[p] = BookingOf[q]

NoAddons == \A p \in Payments : ~IsAddon(p)

AgreeInv ==
  /\ \A b \in Bookings :
       AtMost(bookingPaid[b], Total[b]) = AtMost(PaidSum(PaymentsOf(b)), Total[b])
  /\ \A g \in Guests : guestPaid[g] = PaidSum(OfGuest(g))

(* What is summed for the guest of p is all there is of that guest.          *)
LEMMA GuestTotalIs ==
  ASSUME GuestsOfOneBooking, AmountsTyped, NEW p \in Payments, GuestOf[p] \in Guests, NEW n
  PROVE  /\ ~Settled(p) => GuestTotal(p, n) = n + PaidSum(OfGuest(GuestOf[p]))
         /\ Settled(p) => GuestTotal(p, paymentPaid[p]) = PaidSum(OfGuest(GuestOf[p]))
<1> DEFINE T == {q \in OfGuest(GuestOf[p]) : Settled(q)}
<1>1. {q \in PaidPayments(BookingOf[p]) \ {p} : GuestOf[q] = GuestOf[p]} = T \ {p}
  BY DEF GuestsOfOneBooking, PaidPayments, PaymentsOf, OfGuest, Settled
<1>2. \A m : GuestTotal(p, m) = m + Sum(paymentPaid, T \ {p})
  <2> HIDE DEF T
  <2> QED BY <1>1, SumsAreSums
<1>3. CASE ~Settled(p)
  <2>1. T \ {p} = T
    BY <1>3
  <2> QED BY <1>2, <1>3, <2>1 DEF PaidSum
<1>4. CASE Settled(p)
  <2>1. p \in T /\ T \subseteq Payments
    BY <1>4 DEF OfGuest
  <2>2. IsFiniteSet(T)
    BY <2>1, RowAssumption, FS_Subset
  <2>3. Sum(paymentPaid, T) = paymentPaid[p] + Sum(paymentPaid, T \ {p})
    <3> HIDE DEF T
    <3> QED BY <2>1, <2>2, SumRemove DEF AmountsTyped
  <2> QED BY <1>2, <1>4, <2>3 DEF PaidSum
<1> QED BY <1>3, <1>4

(* Whoever settles p and writes its guest's sum leaves the guests right.     *)
LEMMA SettlingKeepsGuests ==
  ASSUME GuestsOfOneBooking, TypeInv, AmountsTyped, AgreeInv,
         NEW p \in Payments, NEW amount \in Nat, ~Settled(p),
         payment'[p].status = "paid",
         \A q \in Payments \ {p} : payment'[q].status = payment[q].status,
         paymentPaid' = [paymentPaid EXCEPT ![p] = amount],
         guestPaid' = GuestPaidWith(p, amount)
  PROVE  \A g \in Guests : guestPaid'[g] = PaidSum(OfGuest(g))'
<1> SUFFICES ASSUME NEW g \in Guests
             PROVE  guestPaid'[g] = PaidSum(OfGuest(g))'
  OBVIOUS
<1>1. OfGuest(g) \in SUBSET Payments
  BY DEF OfGuest
<1>2. CASE g = GuestOf[p]
  <2>1. guestPaid'[g] = amount + PaidSum(OfGuest(g))
    BY <1>2, GuestTotalIs DEF GuestPaidWith
  <2>2. p \in OfGuest(g)
    BY <1>2 DEF OfGuest
  <2> QED BY <1>1, <2>1, <2>2, SettlingAdds
<1>3. CASE g # GuestOf[p]
  <2>1. guestPaid'[g] = PaidSum(OfGuest(g))
    BY <1>3 DEF GuestPaidWith, AgreeInv
  <2>2. p \notin OfGuest(g)
    BY <1>3 DEF OfGuest
  <2> QED BY <1>1, <2>1, <2>2, SettlingAdds
<1> QED BY <1>2, <1>3

LEMMA AgreeStep ==
  ASSUME CarefulLinks, NoAddons, GuestsOfOneBooking,
         TypeInv, LockInv, CollectInv, AmountsInv, AgreeInv, [Next]_vars
  PROVE  AgreeInv'
<1> DEFINE Agrees(b) ==
             AtMost(bookingPaid[b], Total[b]) = AtMost(PaidSum(PaymentsOf(b)), Total[b])
<1>1. /\ AmountsTyped
      /\ \A p \in Payments : BookingOf[p] \in Bookings
      /\ \A b \in Bookings : PaymentsOf(b) \in SUBSET Payments
      /\ \A g \in Guests : OfGuest(g) \in SUBSET Payments
  BY LinkAssumption DEF AmountsInv, PaymentsOf, OfGuest
<1>2. ASSUME NEW p \in Payments, NEW s \in Sessions, NEW late \in BOOLEAN,
             NEW amount \in Amounts(p), RecordTruth(p, s, amount, late)
      PROVE  AgreeInv'
  <2> DEFINE b == BookingOf[p]
             sum == amount + PaidSum(PaymentsOf(b))
  <2>1. /\ ~Settled(p) /\ amount \in Nat /\ payment'[p].status = "paid"
        /\ \A q \in Payments \ {p} : payment'[q].status = payment[q].status
        /\ paymentPaid' = [paymentPaid EXCEPT ![p] = amount]
        /\ guestPaid' = GuestPaidWith(p, amount)
    BY <1>1, <1>2, AmountsBounded
    DEF RecordTruth, Payable, EligibleStatuses, Settled, TypeInv, TypeOK, LedgerTyped, PaymentRow
  <2>2. \A c \in Bookings :
          PaidSum(PaymentsOf(c))' = IF c = b THEN sum ELSE PaidSum(PaymentsOf(c))
    BY <1>1, <2>1, SettlingAddsToBooking
  <2>3. /\ bookingPaid'[b] = MoneyAfter(p, amount).paid
        /\ \A c \in Bookings \ {b} : bookingPaid'[c] = bookingPaid[c]
    BY <1>1, <1>2 DEF RecordTruth, TypeInv, TypeOK, LedgerTyped
  <2>4. /\ sum \in Nat /\ Total[b] \in Nat
        /\ MoneyAfter(p, amount).paid = IF Total[b] > 0 THEN AtMost(sum, Total[b]) ELSE sum
    BY <1>1, <2>1, MoneyAfterIs
  <2>5. AtMost(bookingPaid'[b], Total[b]) = AtMost(sum, Total[b])
    BY <2>3, <2>4 DEF AtMost
  <2>6. \A c \in Bookings : AtMost(bookingPaid'[c], Total[c]) = AtMost(PaidSum(PaymentsOf(c))', Total[c])
    BY <2>2, <2>3, <2>5 DEF AgreeInv
  <2> QED BY <1>1, <2>1, <2>6, SettlingKeepsGuests DEF AgreeInv
<1>3. ASSUME NEW h \in Hooks, AddonRecord(h)
      PROVE  FALSE
  BY <1>3, AddonUnsettled DEF NoAddons, LockInv, AddonHeld, AddonRecord
<1>4. ASSUME NEW k \in Clerks, CashRecord(k)
      PROVE  AgreeInv'
  <2>1. PICK p \in Payments : p = job[k].on /\ ~Settled(p)
    BY <1>4, LinkAssumption DEF CashRecord, CashAccepted, TypeInv, SubjectsFit, Actors, Settled
  <2> DEFINE b == BookingOf[p]
             sum == Due[p] + PaidSum(PaymentsOf(b))
  <2>2. /\ Due[p] \in Nat /\ payment'[p].status = "paid"
        /\ \A q \in Payments \ {p} : payment'[q].status = payment[q].status
        /\ paymentPaid' = [paymentPaid EXCEPT ![p] = Due[p]]
        /\ guestPaid' = GuestPaidWith(p, Due[p])
    BY <1>4, <2>1, LinkAssumption DEF CashRecord, TypeInv, TypeOK, LedgerTyped, PaymentRow
  <2>3. \A c \in Bookings : PaidSum(PaymentsOf(c)) \in Nat
                           /\ PaidSum(PaymentsOf(c))' = IF c = b THEN sum ELSE PaidSum(PaymentsOf(c))
    BY <1>1, <2>1, <2>2, SettlingAddsToBooking
  <2>4. b \in Bookings /\ PaidElsewhere(b, p) = PaidSum(PaymentsOf(b))
    BY <1>1, <2>1, ElsewhereIsAll
  <2>5. PaidElsewhere(b, p) + Due[p] = sum
    BY <2>2, <2>3, <2>4
  <2>6. /\ bookingPaid'[b] = sum
        /\ \A c \in Bookings \ {b} : bookingPaid'[c] = bookingPaid[c]
    BY <1>4, <2>1, <2>4, <2>5 DEF CashRecord, TypeInv, TypeOK, LedgerTyped
  <2>7. \A c \in Bookings : AtMost(bookingPaid'[c], Total[c]) = AtMost(PaidSum(PaymentsOf(c))', Total[c])
    BY <2>3, <2>6 DEF AgreeInv
  <2> QED BY <1>1, <2>1, <2>2, <2>7, SettlingKeepsGuests DEF AgreeInv
<1>5. ASSUME NEW p \in Payments, RepairTruth(p)
      PROVE  AgreeInv'
  <2>1. \A S : PaidSum(S)' = PaidSum(S)
    BY <1>5 DEF RepairTruth, PaidSum, Settled
  <2>2. ASSUME NEW g \in Guests
        PROVE  guestPaid'[g] = guestPaid[g]
    <3>1. CASE guestPaid' = guestPaid
      BY <3>1
    <3>2. CASE guestPaid' = GuestPaidWith(p, paymentPaid[p])
      BY <1>1, <1>5, <3>2, GuestTotalIs DEF RepairTruth, GuestPaidWith, AgreeInv
    <3> QED BY <1>5, <3>1, <3>2 DEF RepairTruth
  <2> QED BY <1>5, <2>1, <2>2 DEF AgreeInv, RepairTruth
<1>6. CASE Quiet
  BY <1>1, <1>6, QuietKeepsSums DEF AgreeInv, Quiet, amounts
<1> QED BY <1>2, <1>3, <1>4, <1>5, <1>6, StepKinds

(* Booking and guest rows repeat what their payments sum to, up to the cap,  *)
(* whoever recorded them and in whatever order: the sums the handlers write  *)
(* are taken under the booking lock from rows only its holder settles.       *)
(* Add-on payments are not in them (the run addon_counted).                  *)
THEOREM RowsAgree ==
  CarefulLinks /\ NoAddons /\ GuestsOfOneBooking => (Spec => []LedgerAgrees)
<1> SUFFICES ASSUME CarefulLinks, NoAddons, GuestsOfOneBooking PROVE Spec => []LedgerAgrees
  OBVIOUS
<1>1. ASSUME Init
      PROVE  AgreeInv
  <2>1. /\ \A b \in Bookings : PaidSum(PaymentsOf(b)) = 0
        /\ \A g \in Guests : PaidSum(OfGuest(g)) = 0
    BY <1>1, NothingYet DEF PaymentsOf, OfGuest
  <2> QED BY <1>1, <2>1 DEF AgreeInv, Init, StoreInit
<1>2. TypeInv /\ LockInv /\ CollectInv /\ AmountsInv /\ AgreeInv /\ [Next]_vars => AgreeInv'
  BY AgreeStep
<1>3. AgreeInv => LedgerAgrees
  BY SumsAreSums DEF AgreeInv, LedgerAgrees, OfGuest
<1> QED BY <1>1, <1>2, <1>3, TypeInvariance, LocksExclude, CollectInvariance, AmountsInvariance,
           PTL DEF Spec

(* The run reconcile_cap has a payment that shows less than its session was  *)
(* paid.  Nobody but the reconciler does that.                               *)
THEOREM OnlyReconcilersCap ==
  CarefulLinks /\ Reconcilers = {} => (Spec => []RecordedInFull)
<1> SUFFICES ASSUME CarefulLinks, Reconcilers = {} PROVE Spec => []RecordedInFull
  OBVIOUS
<1>1. Init => RecordedInFull
  BY DEF Init, StoreInit, RecordedInFull, Settled
<1>2. TypeInv /\ LockInv /\ CollectInv /\ RecordedInFull /\ [Next]_vars => RecordedInFull'
  <2> SUFFICES ASSUME TypeInv, LockInv, CollectInv, RecordedInFull, [Next]_vars
               PROVE  RecordedInFull'
    OBVIOUS
  <2> USE DEF RecordedInFull, FullAmount, Settled, TypeInv, TypeOK, LedgerTyped, PaymentRow
  <2>1. ASSUME NEW p \in Payments, NEW s \in Sessions, NEW late \in BOOLEAN,
               NEW amount \in Amounts(p), RecordTruth(p, s, amount, late)
        PROVE  RecordedInFull'
    <3>1. amount = FullAmount(p)
      BY DEF Amounts
    <3> QED BY <2>1, <3>1 DEF RecordTruth
  <2>2. ASSUME NEW h \in Hooks, AddonRecord(h)
        PROVE  RecordedInFull'
    BY <2>2 DEF AddonRecord
  <2>3. ASSUME NEW k \in Clerks, CashRecord(k)
        PROVE  RecordedInFull'
    BY <2>3 DEF CashRecord
  <2>4. ASSUME NEW p \in Payments, RepairTruth(p)
        PROVE  RecordedInFull'
    BY <2>4 DEF RepairTruth
  <2>5. CASE Quiet
    BY <2>5 DEF Quiet, amounts
  <2> QED BY <2>1, <2>2, <2>3, <2>4, <2>5, StepKinds
<1> QED BY <1>1, <1>2, TypeInvariance, LocksExclude, CollectInvariance, PTL DEF Spec
=============================================================================
