-------------------------- MODULE BookingMoneySafety ------------------------
(* What the money spine never does, proved for all handlers and for every    *)
(* set of rows, sessions, events and actors.                                 *)
EXTENDS BookingMoneyTypes

(* A hook or a reconciler is at work on session s.                           *)
Brings(s) ==
  \/ \E h \in Hooks : job[h].at # "idle" /\ EventSession[job[h].on] = s
  \/ \E r \in Reconcilers : job[r].at # "idle" /\ job[r].on = s

(* Only a reconciler caps what it records.                                   *)
Amounts(p) == {FullAmount(p)} \cup {CappedAmount(p) : r \in Reconcilers}

(* The eight ways a step may write bookings and payments.                    *)
Writes ==
  \/ \E p \in Payments, s \in Sessions, late \in BOOLEAN :
       /\ Brings(s) /\ SessionPayment[s] = p /\ Bound(p, s)
       /\ \E amount \in Amounts(p) : RecordTruth(p, s, amount, late)
  \/ \E p \in Payments : RepairTruth(p)
  \/ \E h \in Hooks : AddonRecord(h)
  \/ \E c \in Cancellers : CancelCommit(c)
  \/ \E x \in Expirers : ExpireHold(x)
  \/ \E m \in LinkMakers : AttachSession(m)
  \/ \E k \in LinkCancellers : DropCommit(k)
  \/ \E k \in Clerks : CashRecord(k)

(* A step writes in one of those ways or leaves the ledger alone.            *)
LEMMA StepWrites ==
  ASSUME TypeInv, [Next]_vars
  PROVE  Writes \/ UNCHANGED ledger
<1>1. ASSUME NEW h \in Hooks, HookNext(h)
      PROVE  Writes \/ UNCHANGED ledger
  <2> DEFINE e == job[h].on
  <2>1. ASSUME job[h].at # "idle"
        PROVE  /\ EventPayment(e) \in Payments
               /\ EventSession[e] \in Sessions
               /\ job[h].late \in BOOLEAN
    BY <2>1, EventTyped DEF Actors, TypeInv, TypeOK, SubjectsFit, JobsTyped
  <2>2. CASE ApplyRecord(h)
    BY <2>1, <2>2 DEF ApplyRecord, AtPayment, Writes, Amounts, Brings, EventPayment
  <2>3. CASE ApplySettled(h)
    BY <2>1, <2>3 DEF ApplySettled, AtPayment, Writes
  <2>4. CASE Reapply(h)
    BY <2>1, <2>4 DEF Reapply, AtPayment, Writes, Amounts, Brings, EventPayment
  <2>5. CASE AddonRecord(h)
    BY <2>5 DEF Writes
  <2> QED
    BY <1>1, <2>2, <2>3, <2>4, <2>5
    DEF HookNext, HookStep, Receive, Claim, ClaimDuplicate, SharePayment, ShareBooking,
        LockBooking, ApplyReject, LockAgain, Notify, AddonLock, AddonSettled, AddonRaise
<1>2. ASSUME NEW r \in Reconcilers, ReconcilerNext(r)
      PROVE  Writes \/ UNCHANGED ledger
  <2>1. ASSUME PullApply(r)
        PROVE  /\ job[r].on \in Sessions
               /\ SessionPayment[job[r].on] \in Payments
               /\ job[r].late \in BOOLEAN
    BY <2>1, LinkAssumption DEF PullApply, Actors, TypeInv, TypeOK, SubjectsFit, JobsTyped
  <2>2. CASE PullApply(r)
    BY <2>1, <2>2 DEF PullApply, Writes, Amounts, Brings
  <2> QED BY <1>2, <2>2 DEF ReconcilerNext, ReconcilerStep, Pull, PullLock
<1>3. ASSUME NEW c \in Cancellers, CancellerNext(c)
      PROVE  Writes \/ UNCHANGED ledger
  BY <1>3 DEF CancellerNext, CancellerStep, Cancel, CancelLock, CancelLockPayment,
              CancelRefuse, Writes
<1>4. ASSUME NEW x \in Expirers, ExpirerNext(x)
      PROVE  Writes \/ UNCHANGED ledger
  BY <1>4 DEF ExpirerNext, ExpirerStep, PickHold, HoldLock, HoldLockClient, SkipHold, Writes
<1>5. ASSUME NEW m \in LinkMakers, LinkMakerNext(m)
      PROVE  Writes \/ UNCHANGED ledger
  BY <1>5 DEF LinkMakerNext, LinkMakerStep, MakeSession, LinkLockPayment, AttachRaise, Writes
<1>6. ASSUME NEW k \in LinkCancellers, LinkCancellerNext(k)
      PROVE  Writes \/ UNCHANGED ledger
  BY <1>6 DEF LinkCancellerNext, LinkCancellerStep, DropLink, LinkLockPayment, Writes
<1>7. ASSUME NEW k \in Clerks, ClerkNext(k)
      PROVE  Writes \/ UNCHANGED ledger
  BY <1>7 DEF ClerkNext, ClerkStep, TakeCash, CashLock, CashReturn, Writes
<1>8. ASSUME NEW a \in Actors, Fail(a) \/ AbortDeadlocked(a)
      PROVE  UNCHANGED ledger
  BY <1>8 DEF Fail, AbortDeadlocked
<1>9. CASE World
  BY <1>9 DEF World, CompleteCheckout, PayCheckout, LapseHold
<1>10. CASE UNCHANGED vars
  BY <1>10 DEF vars, ledger, amounts
<1> QED
  BY <1>1, <1>2, <1>3, <1>4, <1>5, <1>6, <1>7, <1>8, <1>9, <1>10 DEF Next, Step

-----------------------------------------------------------------------------
(* Cancelled bookings carry no money.                                        *)

(* A row not inserted yet is blank.  A cancellation passes over such a row,  *)
(* so this is what NoMoneyOnCancelled lacks to be inductive.                 *)
AbsentIsBlank ==
  \A p \in Payments : payment[p].status = "absent" => Harmless(p)

CancelInv == NoMoneyOnCancelled /\ AbsentIsBlank

LEMMA CancelInit ==
  ASSUME Init
  PROVE  CancelInv
<1>1. \A p \in Payments : payment[p].status = "absent" =>
        p \in CashPayments /\ payment[p].session = FirstSession(p)
          /\ payment[p].url = (FirstSession(p) # Nothing)
  BY DEF Init, StoreInit
<1>2. \A p \in CashPayments : FirstSession(p) = Nothing
  BY LinkAssumption DEF FirstSession
<1>3. AbsentIsBlank
  BY <1>1, <1>2 DEF AbsentIsBlank, Harmless, Init, StoreInit
<1>4. NoMoneyOnCancelled
  BY LinkAssumption DEF NoMoneyOnCancelled, Init, StoreInit
<1> QED BY <1>3, <1>4 DEF CancelInv

LEMMA CancelStep ==
  ASSUME TypeInv, CancelInv, [Next]_vars
  PROVE  CancelInv'
<1> USE DEF CancelInv, NoMoneyOnCancelled, AbsentIsBlank, Harmless
<1>1. \A p \in Payments : BookingOf[p] \in Bookings
  BY LinkAssumption
<1>2. CASE UNCHANGED ledger
  BY <1>2 DEF ledger, amounts
<1>3. ASSUME NEW p \in Payments, NEW s \in Sessions, NEW late \in BOOLEAN, NEW amount,
             RecordTruth(p, s, amount, late)
      PROVE  CancelInv'
  BY <1>1, <1>3 DEF RecordTruth, TakesMoney, TypeInv, TypeOK, LedgerTyped, BookingRow, PaymentRow
<1>4. ASSUME NEW p \in Payments, RepairTruth(p)
      PROVE  CancelInv'
  BY <1>1, <1>4 DEF RepairTruth, TypeInv, TypeOK, LedgerTyped, BookingRow
<1>5. ASSUME NEW h \in Hooks, AddonRecord(h)
      PROVE  CancelInv'
  BY <1>1, <1>5 DEF AddonRecord, TakesMoney, TypeInv, TypeOK, LedgerTyped, PaymentRow
<1>6. ASSUME NEW c \in Cancellers, CancelCommit(c)
      PROVE  CancelInv'
  BY <1>1, <1>6
  DEF CancelCommit, ZeroPayment, PresentPayments, PaymentsOf, Retired, DeadStatuses, amounts,
      TypeInv, TypeOK, LedgerTyped, BookingRow
<1>7. ASSUME NEW x \in Expirers, ExpireHold(x)
      PROVE  CancelInv'
  BY <1>1, <1>7
  DEF ExpireHold, Invalidated, amounts, TypeInv, TypeOK, LedgerTyped, BookingRow, PaymentRow
<1>8. ASSUME NEW m \in LinkMakers, AttachSession(m)
      PROVE  CancelInv'
  <2> DEFINE p == SessionPayment[job[m].on]
  <2>1. /\ booking' = booking /\ paymentPaid' = paymentPaid
        /\ booking[BookingOf[p]].status # "cancelled"
        /\ payment' = [payment EXCEPT ![p].status = "checkout_created",
                                      ![p].session = job[m].on, ![p].url = TRUE]
    BY <1>8 DEF AttachSession, Refused, amounts
  <2>2. ASSUME NEW q \in Payments
        PROVE  IF q = p THEN payment'[q].status = "checkout_created"
                        ELSE payment'[q] = payment[q]
    BY <2>1 DEF TypeInv, TypeOK, LedgerTyped, PaymentRow
  <2>3. ASSUME NEW q \in Payments
        PROVE  /\ booking'[BookingOf[q]].status = "cancelled" => Harmless(q)'
               /\ payment'[q].status = "absent" => Harmless(q)'
    <3>1. CASE q = p
      BY <2>1, <2>2, <3>1
    <3>2. CASE q # p
      <4>1. payment'[q] = payment[q]
        BY <2>2, <3>2
      <4> QED BY <2>1, <4>1
    <3> QED BY <3>1, <3>2
  <2> QED BY <2>3
<1>9. ASSUME NEW k \in LinkCancellers, DropCommit(k)
      PROVE  CancelInv'
  BY <1>1, <1>9
  DEF DropCommit, DeadStatuses, amounts, TypeInv, TypeOK, LedgerTyped, PaymentRow
<1>10. ASSUME NEW k \in Clerks, CashRecord(k)
      PROVE  CancelInv'
  BY <1>1, <1>10
  DEF CashRecord, CashAccepted, TypeInv, TypeOK, LedgerTyped, BookingRow, PaymentRow
<1> QED
  BY <1>2, <1>3, <1>4, <1>5, <1>6, <1>7, <1>8, <1>9, <1>10, StepWrites DEF Writes

(* A cancelled booking carries no money and no open checkout, whatever       *)
(* webhook, reconciler, link or clerk was under way when it was cancelled.   *)
THEOREM CancelledCarriesNothing == Spec => []NoMoneyOnCancelled
<1>1. CancelInv => NoMoneyOnCancelled
  BY DEF CancelInv
<1> QED BY <1>1, TypeInvariance, CancelInit, CancelStep, PTL DEF Spec

-----------------------------------------------------------------------------
(* Closed bookings stay closed.                                              *)

(* A booking gives up its beds in the step that closes it.                   *)
ClosedHasNoBeds == \A b \in Bookings : Closed(b) => ~booking[b].beds

ClosedStep ==
  \A b \in Bookings : Closed(b) =>
    booking'[b].status \in {"cancelled", "expired"} /\ ~booking'[b].beds

LEMMA ClosedInit ==
  ASSUME Init
  PROVE  ClosedHasNoBeds
BY LinkAssumption DEF ClosedHasNoBeds, Closed, Init, StoreInit

LEMMA ClosedNext ==
  ASSUME TypeInv, ClosedHasNoBeds, [Next]_vars
  PROVE  ClosedHasNoBeds' /\ ClosedStep
<1> USE DEF ClosedHasNoBeds, ClosedStep, Closed, TypeInv, TypeOK, LedgerTyped, BookingRow
<1>1. \A p \in Payments : BookingOf[p] \in Bookings
  BY LinkAssumption
<1>2. CASE UNCHANGED booking
  BY <1>2
<1>3. ASSUME NEW p \in Payments, NEW s \in Sessions, NEW late \in BOOLEAN, NEW amount,
             RecordTruth(p, s, amount, late)
      PROVE  ClosedHasNoBeds' /\ ClosedStep
  BY <1>1, <1>3 DEF RecordTruth, PromotesToConfirmed
<1>4. ASSUME NEW p \in Payments, RepairTruth(p)
      PROVE  ClosedHasNoBeds' /\ ClosedStep
  BY <1>1, <1>4 DEF RepairTruth
<1>5. ASSUME NEW c \in Cancellers, CancelCommit(c)
      PROVE  ClosedHasNoBeds' /\ ClosedStep
  BY <1>5 DEF CancelCommit
<1>6. ASSUME NEW x \in Expirers, ExpireHold(x)
      PROVE  ClosedHasNoBeds' /\ ClosedStep
  BY <1>6 DEF ExpireHold
<1>7. ASSUME NEW k \in Clerks, CashRecord(k)
      PROVE  ClosedHasNoBeds' /\ ClosedStep
  BY <1>7 DEF CashRecord
<1> QED
  BY <1>2, <1>3, <1>4, <1>5, <1>6, <1>7, StepWrites
  DEF Writes, AddonRecord, AttachSession, DropCommit, ledger

(* Late money never revives a booking: whatever arrives, a cancelled or      *)
(* expired one stays closed and without its beds.                            *)
THEOREM ClosedForGood == Spec => ClosedStaysClosed
<1>1. TypeInv /\ ClosedHasNoBeds /\ [Next]_vars => [ClosedStep]_vars
  BY ClosedNext
<1> QED BY <1>1, TypeInvariance, ClosedInit, ClosedNext, PTL
        DEF Spec, ClosedStaysClosed, ClosedStep

-----------------------------------------------------------------------------
(* Checkouts of one booking have one scope.                                  *)

(* A step that opens no link mixes no scopes.                                *)
LEMMA NoNewOffer ==
  ASSUME NoMixedScope, \A p \in Payments : OpenLink(p)' => OpenLink(p)
  PROVE  NoMixedScope'
BY DEF NoMixedScope, MixedScope, PaymentsOf

LEMMA OffersInit ==
  ASSUME Init
  PROVE  NoMixedScope
<1>1. ASSUME NEW p \in Payments, OpenLink(p)
      PROVE  \E s \in BornSessions : SessionPayment[s] = p
  BY <1>1 DEF OpenLink, Init, StoreInit, FirstSession
<1>2. SUFFICES ASSUME NEW p \in Payments, NEW q \in PaymentsOf(BookingOf[p]),
                      OpenLink(p), OpenLink(q)
               PROVE  (GuestOf[q] = Nothing) = (GuestOf[p] = Nothing)
  BY <1>2 DEF NoMixedScope, MixedScope
<1>3. PICK s \in BornSessions : SessionPayment[s] = p
  BY <1>1, <1>2
<1>4. q \in Payments /\ BookingOf[q] = BookingOf[p]
  BY DEF PaymentsOf
<1>5. PICK t \in BornSessions : SessionPayment[t] = q
  BY <1>1, <1>2, <1>4
<1> QED BY <1>3, <1>4, <1>5, LinkAssumption

LEMMA OffersStep ==
  ASSUME TypeInv, NoMixedScope, [Next]_vars
  PROVE  NoMixedScope'
<1> USE DEF OpenLink, TypeInv, TypeOK, LedgerTyped, PaymentRow
<1>1. CASE UNCHANGED payment
  BY <1>1, NoNewOffer
<1>2. ASSUME NEW p \in Payments, NEW s \in Sessions, NEW late \in BOOLEAN, NEW amount,
             RecordTruth(p, s, amount, late)
      PROVE  NoMixedScope'
  BY <1>2, NoNewOffer DEF RecordTruth
<1>3. ASSUME NEW h \in Hooks, AddonRecord(h)
      PROVE  NoMixedScope'
  BY <1>3, NoNewOffer DEF AddonRecord
<1>4. ASSUME NEW c \in Cancellers, CancelCommit(c)
      PROVE  NoMixedScope'
  BY <1>4, NoNewOffer DEF CancelCommit, Retired
<1>5. ASSUME NEW x \in Expirers, ExpireHold(x)
      PROVE  NoMixedScope'
  BY <1>5, NoNewOffer DEF ExpireHold
<1>6. ASSUME NEW k \in LinkCancellers, DropCommit(k)
      PROVE  NoMixedScope'
  BY <1>6, NoNewOffer DEF DropCommit
<1>7. ASSUME NEW k \in Clerks, CashRecord(k)
      PROVE  NoMixedScope'
  BY <1>7, NoNewOffer DEF CashRecord
<1>8. ASSUME NEW m \in LinkMakers, AttachSession(m)
      PROVE  NoMixedScope'
  <2> DEFINE p == SessionPayment[job[m].on]
  <2>1. ~MixedScope(p) /\ \A q \in Payments \ {p} : payment'[q] = payment[q]
    BY <1>8 DEF AttachSession, Refused
  <2>2. SUFFICES ASSUME NEW q \in Payments, NEW r \in PaymentsOf(BookingOf[q]) \ {q},
                        OpenLink(q)', OpenLink(r)'
                 PROVE  (GuestOf[r] = Nothing) = (GuestOf[q] = Nothing)
    BY <2>2 DEF NoMixedScope, MixedScope, PaymentsOf
  <2>3. /\ r \in Payments /\ BookingOf[r] = BookingOf[q]
        /\ q # p => OpenLink(q)
        /\ r # p => OpenLink(r)
    BY <2>1, <2>2 DEF PaymentsOf
  <2>4. CASE q = p
    BY <2>1, <2>2, <2>3, <2>4 DEF MixedScope
  <2>5. CASE r = p
    BY <2>1, <2>2, <2>3, <2>5 DEF MixedScope, PaymentsOf
  <2>6. CASE q # p /\ r # p
    BY <2>2, <2>3, <2>6 DEF NoMixedScope, MixedScope
  <2> QED BY <2>4, <2>5, <2>6
<1> QED
  BY <1>1, <1>2, <1>3, <1>4, <1>5, <1>6, <1>7, <1>8, StepWrites
  DEF Writes, RepairTruth, ledger

(* However makers of links, webhooks and cancellations interleave, a booking *)
(* never offers checkouts to single guests and to its group at once: only    *)
(* the attaching UPDATE opens a link, and its trigger looks first.           *)
THEOREM NoMixedOffers == Spec => []NoMixedScope
BY TypeInvariance, OffersInit, OffersStep, PTL DEF Spec
-----------------------------------------------------------------------------
(* The lock discipline of the money spine, which the rest of this module and *)
(* BookingMoneyLedger rest on.                                               *)

(* What a step of a may do to jobs and locks: others keep theirs, and what   *)
(* it takes was free.                                                        *)
OnlyOwn(a) ==
  /\ \A b \in Actors : b # a => job'[b] = job[b]
  /\ \A l \in locks : l.by # a => l \in locks'
  /\ \A l \in locks' : l \in locks \/
       /\ l.by = a
       /\ \A k \in locks : k.row = l.row /\ k.by # a => ~Conflicting(k.mode, l.mode)

LEMMA LockOwn ==
  ASSUME NEW a \in Actors, NEW needs, Lock(a, needs),
         \A b \in Actors : b # a => job'[b] = job[b]
  PROVE  OnlyOwn(a)
<1>1. \A n \in needs : \A k \in locks :
        k.row = n.row /\ k.by # a => ~Conflicting(k.mode, n.mode)
  BY DEF Lock, Grantable, Blockers
<1>2. locks' = locks \cup {[by |-> a, row |-> n.row, mode |-> n.mode] : n \in needs}
  BY DEF Lock
<1> QED BY <1>1, <1>2 DEF OnlyOwn

LEMMA UnlockOwn ==
  ASSUME NEW a \in Actors, Unlock(a) \/ UNCHANGED locks,
         \A b \in Actors : b # a => job'[b] = job[b]
  PROVE  OnlyOwn(a)
BY DEF OnlyOwn, Unlock

LEMMA JobsOwn ==
  ASSUME JobsTyped, NEW a \in Actors, NEW j, job' = [job EXCEPT ![a] = j]
  PROVE  \A b \in Actors : b # a => job'[b] = job[b]
BY DEF JobsTyped

LEMMA FinishOwn ==
  ASSUME JobsTyped, NEW a \in Actors, Finish(a)
  PROVE  OnlyOwn(a)
BY JobsOwn, UnlockOwn DEF Finish

LEMMA HookOwn ==
  ASSUME JobsTyped, NEW h \in Hooks, HookNext(h)
  PROVE  OnlyOwn(h)
<1> DEFINE Others == \A b \in Actors : b # h => job'[b] = job[b]
<1>1. h \in Actors
  BY DEF Actors
<1>2. Others
  <2> USE <1>1 DEF JobsTyped, Go, Finish, Start
  <2>1. ASSUME NEW e \in Events, Receive(h, e) PROVE Others
    BY <2>1 DEF Receive
  <2>2. CASE Claim(h) \/ SharePayment(h) \/ ShareBooking(h) \/ LockBooking(h) \/ LockAgain(h)
    BY <2>2 DEF Claim, SharePayment, ShareBooking, LockBooking, LockAgain
  <2>3. CASE ClaimDuplicate(h) \/ ApplySettled(h) \/ ApplyReject(h) \/ Reapply(h) \/ Notify(h)
    BY <2>3 DEF ClaimDuplicate, ApplySettled, ApplyReject, Reapply, Notify
  <2>4. CASE ApplyRecord(h)
    BY <2>4 DEF ApplyRecord, Committed, CommitUnknown
  <2>5. CASE AddonLock(h) \/ AddonSettled(h) \/ AddonRecord(h) \/ AddonRaise(h)
    BY <2>5 DEF AddonLock, AddonSettled, AddonRecord, AddonRaise, Committed, CommitUnknown
  <2> QED BY <2>1, <2>2, <2>3, <2>4, <2>5 DEF HookNext, HookStep
<1>3. (\E needs : Lock(h, needs)) \/ Unlock(h) \/ UNCHANGED locks
  <2> USE DEF Finish
  <2>1. CASE \E e \in Events : Receive(h, e)
    BY <2>1 DEF Receive
  <2>2. CASE Claim(h)
    BY <2>2 DEF Claim
  <2>3. CASE SharePayment(h)
    BY <2>3 DEF SharePayment
  <2>4. CASE ShareBooking(h)
    BY <2>4 DEF ShareBooking
  <2>5. CASE LockBooking(h)
    BY <2>5 DEF LockBooking
  <2>6. CASE LockAgain(h)
    BY <2>6 DEF LockAgain
  <2>7. CASE AddonLock(h)
    BY <2>7 DEF AddonLock
  <2>8. CASE ClaimDuplicate(h) \/ ApplySettled(h) \/ ApplyReject(h) \/ Reapply(h) \/ Notify(h)
    BY <2>8 DEF ClaimDuplicate, ApplySettled, ApplyReject, Reapply, Notify
  <2>9. CASE ApplyRecord(h) \/ AddonSettled(h) \/ AddonRecord(h) \/ AddonRaise(h)
    BY <2>9 DEF ApplyRecord, AddonSettled, AddonRecord, AddonRaise, Committed, CommitUnknown
  <2> QED
    BY <2>1, <2>2, <2>3, <2>4, <2>5, <2>6, <2>7, <2>8, <2>9 DEF HookNext, HookStep
<1> QED BY <1>1, <1>2, <1>3, LockOwn, UnlockOwn

LEMMA DeskOwn ==
  ASSUME JobsTyped, NEW a \in Actors,
         \/ ReconcilerNext(a) \/ CancellerNext(a) \/ ExpirerNext(a)
         \/ LinkMakerNext(a) \/ LinkCancellerNext(a) \/ ClerkNext(a)
  PROVE  OnlyOwn(a)
<1> USE DEF JobsTyped, Go, Finish, Start
<1>1. CASE ReconcilerNext(a)
  <2>1. CASE \E s \in Sessions : Pull(a, s)
    BY <2>1, UnlockOwn DEF Pull
  <2>2. CASE PullLock(a)
    BY <2>2, LockOwn DEF PullLock
  <2>3. CASE PullApply(a)
    BY <2>3, FinishOwn DEF PullApply
  <2> QED BY <1>1, <2>1, <2>2, <2>3 DEF ReconcilerNext, ReconcilerStep
<1>2. CASE CancellerNext(a)
  <2>1. CASE \E b \in Bookings : Cancel(a, b)
    BY <2>1, UnlockOwn DEF Cancel
  <2>2. CASE CancelLock(a)
    BY <2>2, LockOwn DEF CancelLock
  <2>3. CASE CancelLockPayment(a)
    BY <2>3, LockOwn DEF CancelLockPayment
  <2>4. CASE CancelCommit(a) \/ CancelRefuse(a)
    BY <2>4, FinishOwn DEF CancelCommit, CancelRefuse
  <2> QED BY <1>2, <2>1, <2>2, <2>3, <2>4 DEF CancellerNext, CancellerStep
<1>3. CASE ExpirerNext(a)
  <2>1. CASE \E b \in Bookings : PickHold(a, b)
    BY <2>1, UnlockOwn DEF PickHold
  <2>2. CASE HoldLock(a)
    BY <2>2, LockOwn DEF HoldLock
  <2>3. CASE HoldLockClient(a)
    BY <2>3, LockOwn DEF HoldLockClient
  <2>4. CASE ExpireHold(a) \/ SkipHold(a)
    BY <2>4, FinishOwn DEF ExpireHold, SkipHold
  <2> QED BY <1>3, <2>1, <2>2, <2>3, <2>4 DEF ExpirerNext, ExpirerStep
<1>4. CASE LinkMakerNext(a) \/ LinkCancellerNext(a)
  <2>1. CASE \/ \E s \in Sessions : MakeSession(a, s)
             \/ \E p \in Payments : DropLink(a, p)
    BY <2>1, UnlockOwn DEF MakeSession, DropLink
  <2>2. CASE LinkLockPayment(a)
    BY <2>2, LockOwn DEF LinkLockPayment
  <2>3. CASE AttachSession(a) \/ AttachRaise(a) \/ DropCommit(a)
    BY <2>3, FinishOwn DEF AttachSession, AttachRaise, DropCommit
  <2> QED BY <1>4, <2>1, <2>2, <2>3
          DEF LinkMakerNext, LinkMakerStep, LinkCancellerNext, LinkCancellerStep
<1>5. CASE ClerkNext(a)
  <2>1. CASE \E p \in Payments : TakeCash(a, p)
    BY <2>1, UnlockOwn DEF TakeCash
  <2>2. CASE CashLock(a)
    BY <2>2, LockOwn DEF CashLock
  <2>3. CASE CashRecord(a) \/ CashReturn(a)
    BY <2>3, FinishOwn DEF CashRecord, CashReturn
  <2> QED BY <1>5, <2>1, <2>2, <2>3 DEF ClerkNext, ClerkStep
<1> QED BY <1>1, <1>2, <1>3, <1>4, <1>5

(* No step touches the job or takes away a lock of another actor, nor takes  *)
(* a lock that conflicts with one.                                           *)
LEMMA StepOwn ==
  ASSUME JobsTyped, NEW a \in Actors, Step(a)
  PROVE  OnlyOwn(a)
BY HookOwn, DeskOwn, FinishOwn DEF Step, Fail, AbortDeadlocked

-----------------------------------------------------------------------------
(* The lock invariant.                                                       *)

(* No two transactions hold locks on a row that conflict.                    *)
Exclusive ==
  \A k, l \in locks : k.row = l.row /\ k.by # l.by => ~Conflicting(k.mode, l.mode)

AddonOf(h) == EventPayment(job[h].on)

Holds(a, r) == [by |-> a, row |-> r, mode |-> "update"] \in locks

(* A hook that found an add-on payment unsettled keeps it so by its lock     *)
(* until it writes.                                                          *)
AddonHeld ==
  \A h \in Hooks :
    /\ job[h].at \in {"addonLock", "addonApply"} => IsAddon(AddonOf(h))
    /\ job[h].at = "addonApply" => Holds(h, AddonOf(h)) /\ ~Settled(AddonOf(h))

LockInv == Exclusive /\ AddonHeld

LEMMA LockInit ==
  ASSUME Init
  PROVE  LockInv
BY DEF LockInv, Exclusive, AddonHeld, Init, StoreInit, Actors, Idle

LEMMA ExclusiveStep ==
  ASSUME LocksTyped, Exclusive, NEW a \in Actors, OnlyOwn(a)
  PROVE  Exclusive'
<1> SUFFICES ASSUME NEW k \in locks', NEW l \in locks', k.row = l.row, k.by # l.by
             PROVE  ~Conflicting(k.mode, l.mode)
  BY DEF Exclusive, Conflicting
<1>1. CASE k \in locks /\ l \in locks
  BY <1>1 DEF Exclusive
<1>2. CASE k \notin locks
  BY <1>2 DEF OnlyOwn, Conflicting
<1>3. CASE l \notin locks
  BY <1>3 DEF OnlyOwn, Conflicting
<1> QED BY <1>1, <1>2, <1>3

(* An add-on payment is settled by the hook that holds it and by no one      *)
(* else: every other writer of "paid" refuses add-ons.                       *)
LEMMA OnlyHolderSettles ==
  ASSUME TypeInv, Writes, NEW p \in Payments, IsAddon(p), ~Settled(p), Settled(p)'
  PROVE  \E h \in Hooks : AddonRecord(h) /\ AddonOf(h) = p
<1> USE DEF Settled, TypeInv, TypeOK, LedgerTyped, PaymentRow
<1>1. ASSUME NEW q \in Payments, NEW s \in Sessions, NEW late \in BOOLEAN, NEW amount,
             RecordTruth(q, s, amount, late)
      PROVE  FALSE
  BY <1>1 DEF RecordTruth, Payable, IsAddon
<1>2. ASSUME NEW q \in Payments, RepairTruth(q)
      PROVE  FALSE
  BY <1>2 DEF RepairTruth
<1>3. ASSUME NEW h \in Hooks, AddonRecord(h), AddonOf(h) # p
      PROVE  FALSE
  BY <1>3 DEF AddonRecord, AddonOf
<1>4. ASSUME NEW c \in Cancellers, CancelCommit(c)
      PROVE  FALSE
  BY <1>4 DEF CancelCommit, Retired
<1>5. ASSUME NEW x \in Expirers, ExpireHold(x)
      PROVE  FALSE
  BY <1>5 DEF ExpireHold
<1>6. ASSUME NEW m \in LinkMakers, AttachSession(m)
      PROVE  FALSE
  BY <1>6 DEF AttachSession
<1>7. ASSUME NEW k \in LinkCancellers, DropCommit(k)
      PROVE  FALSE
  BY <1>7 DEF DropCommit
<1>8. ASSUME NEW k \in Clerks, CashRecord(k)
      PROVE  FALSE
  <2>1. job[k].on \in CashPayments
    BY <1>8 DEF CashRecord, SubjectsFit, Actors
  <2>2. job[k].on # p
    BY <2>1, LinkAssumption DEF IsAddon
  <2> QED BY <1>8, <2>2 DEF CashRecord
<1> QED BY <1>1, <1>2, <1>3, <1>4, <1>5, <1>6, <1>7, <1>8 DEF Writes

(* A hook on its way to an add-on payment, in the steps of its own.          *)
LEMMA HookReachesAddon ==
  ASSUME TypeInv, AddonHeld, NEW h \in Hooks, HookNext(h)
  PROVE  /\ job'[h].at \in {"addonLock", "addonApply"} => IsAddon(AddonOf(h))'
         /\ job'[h].at = "addonApply" => Holds(h, AddonOf(h))' /\ ~Settled(AddonOf(h))'
<1> USE DEF AddonOf, IsAddon, EventPayment, TypeInv, TypeOK, JobsTyped
<1> DEFINE Elsewhere == job'[h].at \notin {"addonLock", "addonApply"}
<1>1. h \in Actors
  BY DEF Actors
<1>2. ASSUME NEW e \in Events, Receive(h, e)
      PROVE  Elsewhere
  BY <1>1, <1>2 DEF Receive, Start
<1>3. CASE Claim(h) \/ ClaimDuplicate(h) \/ SharePayment(h)
  BY <1>1, <1>3 DEF Claim, ClaimDuplicate, SharePayment, Go, Finish, Idle
<1>4. CASE ShareBooking(h)
  BY <1>1, <1>4 DEF ShareBooking, Go
<1>5. CASE LockBooking(h) \/ ApplySettled(h) \/ ApplyReject(h) \/ LockAgain(h)
            \/ Reapply(h) \/ Notify(h)
  BY <1>1, <1>5 DEF LockBooking, ApplySettled, ApplyReject, LockAgain, Reapply, Notify,
                    Go, Finish, Idle
<1>6. CASE ApplyRecord(h) \/ AddonSettled(h) \/ AddonRecord(h) \/ AddonRaise(h)
  BY <1>1, <1>6 DEF ApplyRecord, AddonSettled, AddonRecord, AddonRaise, Committed,
                    CommitUnknown, Go, Finish, Idle
<1>7. CASE AddonLock(h)
  <2>1. IsAddon(AddonOf(h)) /\ job'[h].on = job[h].on
    BY <1>1, <1>7 DEF AddonLock, Go, AddonHeld
  <2>2. Holds(h, AddonOf(h))'
    BY <1>7, <2>1 DEF AddonLock, Lock, Need, Holds
  <2>3. ~Settled(AddonOf(h))'
    BY <1>7, <2>1 DEF AddonLock, Settled, ledger
  <2> QED BY <2>1, <2>2, <2>3
<1> QED BY <1>2, <1>3, <1>4, <1>5, <1>6, <1>7 DEF HookNext, HookStep

LEMMA LockStep ==
  ASSUME TypeInv, LockInv, [Next]_vars
  PROVE  LockInv'
<1> USE DEF LockInv, TypeInv, TypeOK
<1>1. ASSUME NEW a \in Actors, Step(a)
      PROVE  LockInv'
  <2>1. OnlyOwn(a)
    BY <1>1, StepOwn
  <2>2. Exclusive'
    BY <2>1, ExclusiveStep
  <2>3. ASSUME NEW h \in Hooks, h = a
        PROVE  /\ job'[h].at \in {"addonLock", "addonApply"} => IsAddon(AddonOf(h))'
               /\ job'[h].at = "addonApply" => Holds(h, AddonOf(h))' /\ ~Settled(AddonOf(h))'
    <3>1. CASE HookNext(h)
      BY <3>1, HookReachesAddon
    <3>2. CASE Fail(a) \/ AbortDeadlocked(a)
      BY <2>3, <3>2 DEF Fail, AbortDeadlocked, Finish, Idle, JobsTyped
    <3> QED BY <1>1, <2>3, <3>1, <3>2, ActorAssumption DEF Step
  <2>4. ASSUME NEW h \in Hooks, h # a
        PROVE  /\ job'[h].at \in {"addonLock", "addonApply"} => IsAddon(AddonOf(h))'
               /\ job'[h].at = "addonApply" => Holds(h, AddonOf(h))' /\ ~Settled(AddonOf(h))'
    <3>1. h \in Actors /\ job'[h] = job[h]
      BY <2>1, <2>4 DEF OnlyOwn, Actors
    <3>2. job'[h].at \in {"addonLock", "addonApply"} => IsAddon(AddonOf(h))'
      BY <3>1 DEF AddonHeld, AddonOf, EventPayment, IsAddon
    <3>3. ASSUME job'[h].at = "addonApply"
          PROVE  Holds(h, AddonOf(h))' /\ ~Settled(AddonOf(h))'
      <4> DEFINE p == AddonOf(h)
      <4>1. /\ p \in Payments /\ AddonOf(h)' = p
            /\ IsAddon(p) /\ Holds(h, p) /\ ~Settled(p)
        BY <3>1, <3>3, EventTyped DEF AddonHeld, AddonOf, SubjectsFit, EventPayment
      <4>2. Holds(h, p)'
        BY <2>1, <2>4, <4>1 DEF OnlyOwn, Holds
      <4>3. ~Settled(p)'
        <5>1. SUFFICES ASSUME Settled(p)' PROVE FALSE
          OBVIOUS
        <5>2. Writes
          BY <4>1, <5>1, <1>1, StepWrites DEF Next, ledger, Settled
        <5>3. PICK g \in Hooks : AddonRecord(g) /\ AddonOf(g) = p
          BY <4>1, <5>1, <5>2, OnlyHolderSettles
        <5>4. g \in Actors /\ job[g].at = "addonApply" /\ job'[g].at = "idle"
          BY <5>3 DEF AddonRecord, Committed, CommitUnknown, Finish, Idle, JobsTyped, Actors
        <5>5. Holds(g, p)
          BY <5>3, <5>4 DEF AddonHeld
        <5>6. g # h
          BY <3>3, <5>4
        <5> QED BY <4>1, <5>5, <5>6 DEF Holds, Exclusive, Conflicting
      <4> QED BY <4>1, <4>2, <4>3
    <3> QED BY <3>2, <3>3
  <2> QED BY <2>2, <2>3, <2>4 DEF AddonHeld
<1>2. CASE World \/ UNCHANGED vars
  <2>1. UNCHANGED <<locks, job, payment>>
    BY <1>2 DEF World, CompleteCheckout, PayCheckout, LapseHold, ledger, vars
  <2> QED BY <2>1 DEF Exclusive, AddonHeld, Holds, AddonOf, Settled, IsAddon, EventPayment
<1> QED BY <1>1, <1>2 DEF Next

(* No two transactions of the spine ever hold conflicting locks, and an      *)
(* add-on payment cannot be settled behind the back of the hook that has it. *)
THEOREM LocksExclude == Spec => []LockInv
BY TypeInvariance, LockInit, LockStep, PTL DEF Spec
-----------------------------------------------------------------------------
(* A paid booking payment is money Stripe holds, for all handlers together.  *)

(* Nobody but its maker has heard of a session before it is surfaced.        *)
MakersHold ==
  /\ \A m \in LinkMakers : job[m].at # "idle" => checkout[job[m].on] = "made"
  /\ \A m, n \in LinkMakers :
       job[m].at # "idle" /\ job[n].at # "idle" /\ job[m].on = job[n].on => m = n

(* Stripe sends no event before the guest has submitted the checkout, and    *)
(* none but the early ones before it has the money.                          *)
EventsFollowMoney ==
  \A e \in Events : delivery[e] # "none" =>
    /\ checkout[EventSession[e]] \in {"processing", "paid"}
    /\ e \notin EarlyEvents => checkout[EventSession[e]] = "paid"

(* The payment of session s is still to be paid, and may be so by s.         *)
Awaits(s) == /\ payment[SessionPayment[s]].status \in EligibleStatuses
             /\ Bound(SessionPayment[s], s)

(* Session s is paid, or its payment would refuse it.                        *)
PaidOrRefused(s) ==
  checkout[s] = "paid" \/ ~Payable(SessionPayment[s]) \/ ~Bound(SessionPayment[s], s)

(* What hooks and reconcilers bring is paid, or will be refused.             *)
BringPaid ==
  /\ \A h \in Hooks : job[h].at # "idle" =>
       delivery[job[h].on] # "none" /\ PaidOrRefused(EventSession[job[h].on])
  /\ \A r \in Reconcilers : job[r].at # "idle" => checkout[job[r].on] = "paid"

StripeInv == MakersHold /\ EventsFollowMoney /\ BringPaid

(* Whatever Stripe settled was submitted by the guest in one of its sessions *)
(* first, whichever session the row carries since.                           *)
SubmittedFirst ==
  \A p \in Payments \ CashPayments : Settled(p) =>
    \E s \in Sessions : SessionPayment[s] = p /\ checkout[s] \in {"processing", "paid"}

CollectInv == StripeInv /\ PaidIsCollected /\ SubmittedFirst

-----------------------------------------------------------------------------
(* Stripe's side of a step.                                                  *)

LEMMA CollectInit ==
  ASSUME Init
  PROVE  CollectInv
BY DEF CollectInv, StripeInv, MakersHold, EventsFollowMoney, BringPaid, PaidIsCollected,
       SubmittedFirst, Settled, Init, StoreInit, Actors, Idle

(* A maker that is aborted for a deadlock was at work.                       *)
LEMMA AbortedMakerWorks ==
  ASSUME NEW m \in LinkMakers, AbortDeadlocked(m)
  PROVE  job[m].at # "idle"
<1>1. WaitsFor(m) # {}
  BY DEF AbortDeadlocked, Deadlocked
<1>2. Needs(m) # {}
  BY <1>1 DEF WaitsFor
<1>3. Needs(m) = LinkNeeds(m)
  BY ActorAssumption DEF Needs
<1> QED BY <1>2, <1>3 DEF LinkNeeds

(* What a maker does: begin on an unborn session, go on, or be done with it. *)
LEMMA MakerMoves ==
  ASSUME TypeInv, NEW m \in LinkMakers, Step(m)
  PROVE  \/ /\ job[m].at = "idle" /\ job'[m].on \in Sessions
            /\ checkout[job'[m].on] = "unborn"
            /\ checkout' = [checkout EXCEPT ![job'[m].on] = "made"]
         \/ /\ job[m].at # "idle" /\ job'[m].on = job[m].on
            /\ UNCHANGED checkout
         \/ /\ job[m].at # "idle" /\ job'[m].at = "idle"
            /\ \/ checkout' = [checkout EXCEPT ![job[m].on] = "open"]
               \/ UNCHANGED checkout
<1> USE DEF TypeInv, TypeOK, JobsTyped
<1>1. m \in Actors
  BY DEF Actors
<1>2. ASSUME NEW s \in Sessions, MakeSession(m, s)
      PROVE  /\ job[m].at = "idle" /\ job'[m].on = s /\ checkout[s] = "unborn"
             /\ checkout' = [checkout EXCEPT ![s] = "made"]
  BY <1>1, <1>2 DEF MakeSession, Start
<1>3. CASE LinkLockPayment(m)
  BY <1>1, <1>3 DEF LinkLockPayment, Go, stripe
<1>4. CASE AttachSession(m) \/ AttachRaise(m)
  BY <1>1, <1>4 DEF AttachSession, AttachRaise, AtTrigger, Finish, Idle
<1>5. CASE Fail(m)
  BY <1>1, <1>5 DEF Fail, Surface, Finish, Idle
<1>6. CASE AbortDeadlocked(m)
  BY <1>1, <1>6, AbortedMakerWorks DEF AbortDeadlocked, Surface, Finish, Idle
<1>7. LinkMakerNext(m) \/ Fail(m) \/ AbortDeadlocked(m)
  BY ActorAssumption DEF Step
<1> QED BY <1>2, <1>3, <1>4, <1>5, <1>6, <1>7 DEF LinkMakerNext, LinkMakerStep

(* No other actor touches the checkouts.                                     *)
LEMMA OthersLeaveCheckouts ==
  ASSUME NEW a \in Actors, a \notin LinkMakers, Step(a)
  PROVE  UNCHANGED checkout
<1>1. CASE HookNext(a)
  BY <1>1 DEF HookNext, HookStep, Receive, Claim, ClaimDuplicate, SharePayment, ShareBooking,
              LockBooking, ApplyRecord, ApplySettled, ApplyReject, LockAgain, Reapply, Notify,
              AddonLock, AddonSettled, AddonRecord, AddonRaise, stripe
<1>2. CASE ReconcilerNext(a) \/ CancellerNext(a) \/ ExpirerNext(a) \/ ClerkNext(a)
             \/ LinkCancellerNext(a)
  BY <1>2
  DEF ReconcilerNext, ReconcilerStep, Pull, PullLock, PullApply,
      CancellerNext, CancellerStep, Cancel, CancelLock, CancelLockPayment, CancelCommit,
      CancelRefuse, ExpirerNext, ExpirerStep, PickHold, HoldLock, HoldLockClient,
      ExpireHold, SkipHold, LinkCancellerNext, LinkCancellerStep, DropLink, LinkLockPayment,
      DropCommit, ClerkNext, ClerkStep, TakeCash, CashLock, CashRecord, CashReturn, stripe
<1>3. CASE Fail(a) \/ AbortDeadlocked(a)
  BY <1>3 DEF Fail, AbortDeadlocked, Surface
<1> QED BY <1>1, <1>2, <1>3 DEF Step

(* Money that has come, or is on its way, does not go back.                  *)
MoneyStays ==
  \A s \in Sessions :
    /\ checkout[s] = "paid" => checkout'[s] = "paid"
    /\ checkout[s] = "processing" => checkout'[s] \in {"processing", "paid"}

LEMMA CheckoutStep ==
  ASSUME TypeInv, MakersHold, [Next]_vars
  PROVE  MakersHold' /\ MoneyStays
<1> USE DEF TypeInv, TypeOK, WorldTyped, JobsTyped, MakersHold, MoneyStays
<1>1. LinkMakers \subseteq Actors
  BY DEF Actors
<1>2. ASSUME NEW m \in LinkMakers, Step(m)
      PROVE  MakersHold' /\ MoneyStays
  <2>1. \A n \in LinkMakers : n # m => job'[n] = job[n]
    BY <1>1, <1>2, StepOwn DEF OnlyOwn
  <2>2. \A n \in LinkMakers : job[n].at # "idle" => job[n].on \in Sessions
    BY <1>1 DEF SubjectsFit
  <2>3. CASE /\ job[m].at = "idle" /\ job'[m].on \in Sessions
             /\ checkout[job'[m].on] = "unborn"
             /\ checkout' = [checkout EXCEPT ![job'[m].on] = "made"]
    BY <2>1, <2>2, <2>3
  <2>4. CASE /\ job[m].at # "idle" /\ job'[m].on = job[m].on
             /\ UNCHANGED checkout
    BY <2>1, <2>2, <2>4
  <2>5. CASE /\ job[m].at # "idle" /\ job'[m].at = "idle"
             /\ \/ checkout' = [checkout EXCEPT ![job[m].on] = "open"]
                \/ UNCHANGED checkout
    BY <2>1, <2>2, <2>5
  <2> QED BY <1>2, <2>3, <2>4, <2>5, MakerMoves
<1>3. ASSUME NEW a \in Actors, a \notin LinkMakers, Step(a)
      PROVE  MakersHold' /\ MoneyStays
  <2>1. \A n \in LinkMakers : job'[n] = job[n]
    BY <1>1, <1>3, StepOwn DEF OnlyOwn
  <2> QED BY <1>3, <2>1, OthersLeaveCheckouts
<1>4. CASE World
  <2>1. ASSUME NEW s \in Sessions, CompleteCheckout(s) \/ PayCheckout(s)
        PROVE  /\ UNCHANGED job /\ checkout[s] \in {"open", "processing"}
               /\ \/ checkout' = [checkout EXCEPT ![s] = "paid"]
                  \/ /\ checkout' = [checkout EXCEPT ![s] = "processing"]
                     /\ checkout[s] = "open"
    BY <2>1 DEF CompleteCheckout, PayCheckout
  <2>2. ASSUME NEW m \in LinkMakers, job[m].at # "idle"
        PROVE  job[m].on \in Sessions
    BY <1>1, <2>2 DEF SubjectsFit
  <2>3. CASE \E b \in Bookings : LapseHold(b)
    BY <2>3 DEF LapseHold, stripe
  <2> QED BY <1>4, <2>1, <2>2, <2>3 DEF World
<1>5. CASE UNCHANGED vars
  BY <1>5 DEF vars
<1> QED BY <1>2, <1>3, <1>4, <1>5 DEF Next

(* A row that no longer waits for a session Stripe knows of, being settled,  *)
(* retired or moved to another session, never comes to wait for it again.    *)
LEMMA WaitIsOver ==
  ASSUME TypeInv, MakersHold, [Next]_vars, NEW s \in Sessions,
         checkout[s] \in {"processing", "paid"}, ~Awaits(s)
  PROVE  ~Awaits(s)'
<1> DEFINE p == SessionPayment[s]
<1> USE DEF TypeInv, TypeOK, LedgerTyped, PaymentRow, Awaits, Bound, EligibleStatuses
<1>1. p \in Payments \ CashPayments
  BY LinkAssumption
<1>2. CASE UNCHANGED ledger
  BY <1>2 DEF ledger
<1>3. ASSUME NEW q \in Payments, NEW t \in Sessions, NEW late \in BOOLEAN, NEW amount,
             RecordTruth(q, t, amount, late)
      PROVE  ~Awaits(s)'
  BY <1>1, <1>3 DEF RecordTruth, Payable
<1>4. ASSUME NEW q \in Payments, RepairTruth(q)
      PROVE  ~Awaits(s)'
  BY <1>4 DEF RepairTruth
<1>5. ASSUME NEW h \in Hooks, AddonRecord(h)
      PROVE  ~Awaits(s)'
  BY <1>1, <1>5 DEF AddonRecord
<1>6. ASSUME NEW c \in Cancellers, CancelCommit(c)
      PROVE  ~Awaits(s)'
  BY <1>1, <1>6 DEF CancelCommit, Retired
<1>7. ASSUME NEW x \in Expirers, ExpireHold(x)
      PROVE  ~Awaits(s)'
  BY <1>1, <1>7 DEF ExpireHold
<1>8. ASSUME NEW m \in LinkMakers, AttachSession(m)
      PROVE  ~Awaits(s)'
  <2>1. job[m].on \in Sessions /\ job[m].on # s
    BY <1>8 DEF AttachSession, AtTrigger, MakersHold, SubjectsFit, Actors
  <2>2. job[m].on # Nothing
    BY <2>1, RowAssumption
  <2> QED BY <1>1, <1>8, <2>1, <2>2 DEF AttachSession
<1>9. ASSUME NEW k \in LinkCancellers, DropCommit(k)
      PROVE  ~Awaits(s)'
  BY <1>1, <1>9 DEF DropCommit
<1>10. ASSUME NEW k \in Clerks, CashRecord(k)
       PROVE  ~Awaits(s)'
  <2>1. job[k].on \in CashPayments
    BY <1>10 DEF CashRecord, SubjectsFit, Actors
  <2> QED BY <1>1, <1>10, <2>1 DEF CashRecord
<1> QED
  BY <1>2, <1>3, <1>4, <1>5, <1>6, <1>7, <1>8, <1>9, <1>10, StepWrites DEF Writes

(* A payment that refuses a session Stripe knows of goes on refusing it.     *)
LEMMA RefusalStays ==
  ASSUME TypeInv, MakersHold, [Next]_vars, NEW s \in Sessions,
         checkout[s] \in {"processing", "paid"}, PaidOrRefused(s)
  PROVE  PaidOrRefused(s)'
<1>1. CASE checkout[s] = "paid"
  BY <1>1, CheckoutStep DEF MoneyStays, PaidOrRefused
<1>2. CASE IsAddon(SessionPayment[s])
  BY <1>2 DEF PaidOrRefused, Payable, IsAddon
<1>3. CASE ~Awaits(s)
  BY <1>3, WaitIsOver DEF PaidOrRefused, Payable, Awaits
<1> QED BY <1>1, <1>2, <1>3 DEF PaidOrRefused, Payable, IsAddon, Awaits

-----------------------------------------------------------------------------
(* Stripe's events and the hooks that got them.                              *)

(* A hook gets an event Stripe has sent, keeps to it, or is done with it.    *)
LEMMA HookMoves ==
  ASSUME TypeInv, NEW h \in Hooks, Step(h)
  PROVE  /\ \/ job'[h].at = "idle"
            \/ job[h].at # "idle" /\ job'[h].on = job[h].on
            \/ /\ job[h].at = "idle" /\ \E e \in Events : Receive(h, e) /\ job'[h].on = e
         /\ \A e \in Events : delivery'[e] = delivery[e] \/
              (e = job[h].on /\ job[h].at # "idle" /\ delivery'[e] = "acked")
         /\ \/ UNCHANGED claimed
            \/ job[h].at # "idle" /\ claimed' = claimed \cup {job[h].on}
<1> USE DEF TypeInv, TypeOK, JobsTyped, WorldTyped
<1>1. h \in Actors
  BY DEF Actors
<1>2. ASSUME NEW e \in Events, Receive(h, e)
      PROVE  job[h].at = "idle" /\ job'[h].on = e /\ UNCHANGED <<delivery, claimed>>
  BY <1>1, <1>2 DEF Receive, Start, stripe
<1> USE DEF Go, Finish, Idle
<1>3. CASE Claim(h) \/ ClaimDuplicate(h) \/ SharePayment(h) \/ ShareBooking(h) \/ LockBooking(h)
  BY <1>1, <1>3 DEF Claim, ClaimDuplicate, SharePayment, ShareBooking, LockBooking, stripe, Ack
<1>4. CASE ApplyRecord(h) \/ ApplySettled(h) \/ ApplyReject(h)
  BY <1>1, <1>4 DEF ApplyRecord, ApplySettled, ApplyReject, AtPayment, Committed, CommitUnknown,
                    stripe, Ack
<1>5. CASE LockAgain(h) \/ Reapply(h) \/ Notify(h)
  BY <1>1, <1>5 DEF LockAgain, Reapply, Notify, AtPayment, stripe, Ack
<1>6. CASE AddonLock(h) \/ AddonSettled(h) \/ AddonRecord(h) \/ AddonRaise(h)
  BY <1>1, <1>6 DEF AddonLock, AddonSettled, AddonRecord, AddonRaise, AtPayment, Committed,
                    CommitUnknown, stripe, Ack
<1>7. CASE Fail(h) \/ AbortDeadlocked(h)
  BY <1>1, <1>7 DEF Fail, AbortDeadlocked, AnswerAborted, Swallows
<1>8. HookNext(h) \/ Fail(h) \/ AbortDeadlocked(h)
  BY ActorAssumption DEF Step
<1> QED BY <1>2, <1>3, <1>4, <1>5, <1>6, <1>7, <1>8 DEF HookNext, HookStep

(* No other actor acknowledges or claims an event.                           *)
LEMMA OthersLeaveDelivery ==
  ASSUME NEW a \in Actors, a \notin Hooks, Step(a)
  PROVE  UNCHANGED <<delivery, claimed>>
<1>1. CASE LinkMakerNext(a) \/ LinkCancellerNext(a)
  BY <1>1 DEF LinkMakerNext, LinkMakerStep, MakeSession, LinkLockPayment, AttachSession,
              AttachRaise, LinkCancellerNext, LinkCancellerStep, DropLink, DropCommit, stripe
<1>2. CASE ReconcilerNext(a) \/ CancellerNext(a) \/ ExpirerNext(a) \/ ClerkNext(a)
  BY <1>2
  DEF ReconcilerNext, ReconcilerStep, Pull, PullLock, PullApply,
      CancellerNext, CancellerStep, Cancel, CancelLock, CancelLockPayment, CancelCommit,
      CancelRefuse, ExpirerNext, ExpirerStep, PickHold, HoldLock, HoldLockClient,
      ExpireHold, SkipHold, ClerkNext, ClerkStep, TakeCash, CashLock, CashRecord,
      CashReturn, stripe
<1>3. CASE Fail(a) \/ AbortDeadlocked(a)
  BY <1>3 DEF Fail, AbortDeadlocked, AnswerAborted, Swallows
<1> QED BY <1>1, <1>2, <1>3 DEF Step

LEMMA EventsStep ==
  ASSUME TypeInv, StripeInv, [Next]_vars
  PROVE  EventsFollowMoney' /\ \A e \in Events : delivery[e] # "none" => delivery'[e] # "none"
<1> USE DEF StripeInv, EventsFollowMoney, TypeInv, TypeOK, WorldTyped
<1>1. MoneyStays /\ \A e \in Events : EventSession[e] \in Sessions
  BY CheckoutStep, LinkAssumption
<1>2. ASSUME \A e \in Events : delivery'[e] = delivery[e] \/
               (delivery[e] # "none" /\ delivery'[e] # "none")
      PROVE  EventsFollowMoney' /\ \A e \in Events : delivery[e] # "none" => delivery'[e] # "none"
  BY <1>1, <1>2 DEF MoneyStays
<1>3. ASSUME NEW h \in Hooks, Step(h)
      PROVE  \A e \in Events : delivery'[e] = delivery[e] \/
               (delivery[e] # "none" /\ delivery'[e] # "none")
  BY <1>3, HookMoves DEF BringPaid
<1>4. ASSUME NEW a \in Actors, a \notin Hooks, Step(a)
      PROVE  UNCHANGED delivery
  BY <1>4, OthersLeaveDelivery
<1>5. CASE World
  <2>1. ASSUME NEW s \in Sessions, CompleteCheckout(s)
        PROVE  EventsFollowMoney' /\ \A e \in Events : delivery[e] # "none" => delivery'[e] # "none"
    BY <1>1, <2>1 DEF CompleteCheckout, MoneyStays
  <2>2. ASSUME NEW s \in Sessions, PayCheckout(s)
        PROVE  EventsFollowMoney' /\ \A e \in Events : delivery[e] # "none" => delivery'[e] # "none"
    BY <1>1, <2>2 DEF PayCheckout, MoneyStays
  <2>3. CASE \E b \in Bookings : LapseHold(b)
    BY <1>2, <2>3 DEF LapseHold, stripe
  <2> QED BY <1>5, <2>1, <2>2, <2>3 DEF World
<1>6. CASE UNCHANGED vars
  BY <1>2, <1>6 DEF vars
<1> QED BY <1>2, <1>3, <1>4, <1>5, <1>6 DEF Next

LEMMA BringStep ==
  ASSUME TypeInv, StripeInv, [Next]_vars
  PROVE  BringPaid'
<1> USE DEF StripeInv, TypeInv, TypeOK, JobsTyped, Bound, Payable
<1>1. /\ MoneyStays
      /\ \A e \in Events : delivery[e] # "none" => delivery'[e] # "none"
  BY CheckoutStep, EventsStep
<1>2. \A s \in Sessions : checkout[s] \in {"processing", "paid"} /\ PaidOrRefused(s)
                            => PaidOrRefused(s)'
  BY RefusalStays
<1> DEFINE Sound(h) == delivery[job[h].on] # "none" /\ PaidOrRefused(EventSession[job[h].on])
<1>3. ASSUME NEW h \in Hooks, job'[h].at # "idle", job[h].at # "idle", job'[h].on = job[h].on
      PROVE  Sound(h)'
  <2>1. PICK e \in Events : e = job[h].on
    BY <1>3 DEF SubjectsFit, Actors
  <2>2. delivery[e] # "none" /\ PaidOrRefused(EventSession[e])
    BY <1>3, <2>1 DEF BringPaid
  <2>3. checkout[EventSession[e]] \in {"processing", "paid"}
    BY <2>2 DEF EventsFollowMoney
  <2>4. EventSession[e] \in Sessions
    BY LinkAssumption
  <2>5. delivery'[e] # "none" /\ PaidOrRefused(EventSession[e])'
    BY <1>1, <1>2, <2>2, <2>3, <2>4
  <2> QED BY <1>3, <2>1, <2>5 DEF PaidOrRefused
<1>4. ASSUME NEW h \in Hooks, NEW e \in Events, Receive(h, e), job'[h].on = e
      PROVE  Sound(h)'
  <2>1. delivery'[e] # "none" /\ UNCHANGED <<payment, checkout>>
    BY <1>4 DEF Receive, stripe, ledger
  <2>2. PaidOrRefused(EventSession[e])
    BY <1>4 DEF Receive, Presentable, EventPayment, IsAddon, Settled, EligibleStatuses,
                EventsFollowMoney, PaidOrRefused
  <2> QED BY <1>4, <2>1, <2>2 DEF PaidOrRefused
<1>5. ASSUME NEW r \in Reconcilers, job'[r].at # "idle",
             checkout[job'[r].on] = "paid", job'[r].on \in Sessions
      PROVE  checkout'[job'[r].on] = "paid"
  BY <1>1, <1>5 DEF MoneyStays
<1>6. ASSUME NEW h \in Hooks, job'[h].at # "idle"
      PROVE  Sound(h)'
  <2>1. h \in Actors
    BY DEF Actors
  <2>2. CASE Step(h)
    BY <1>3, <1>4, <1>6, <2>2, HookMoves
  <2>3. ASSUME NEW a \in Actors, a # h, Step(a)
        PROVE  Sound(h)'
    <3>1. job'[h] = job[h]
      BY <2>1, <2>3, StepOwn DEF OnlyOwn
    <3> QED BY <1>3, <1>6, <3>1
  <2>4. CASE World \/ UNCHANGED vars
    <3>1. job' = job
      BY <2>4 DEF World, CompleteCheckout, PayCheckout, LapseHold, vars
    <3> QED BY <1>3, <1>6, <3>1
  <2> QED BY <2>2, <2>3, <2>4 DEF Next
<1>7. ASSUME NEW r \in Reconcilers, job'[r].at # "idle"
      PROVE  checkout'[job'[r].on] = "paid"
  <2>1. r \in Actors
    BY DEF Actors
  <2>2. ASSUME job[r].at # "idle", job'[r].on = job[r].on
        PROVE  checkout'[job'[r].on] = "paid"
    BY <1>5, <1>7, <2>1, <2>2 DEF BringPaid, SubjectsFit
  <2>3. CASE Step(r)
    <3>1. CASE PullLock(r)
      BY <2>1, <2>2, <3>1 DEF PullLock
    <3>2. CASE PullApply(r) \/ Fail(r) \/ AbortDeadlocked(r)
      BY <1>7, <2>1, <3>2 DEF PullApply, Fail, AbortDeadlocked, Finish, Idle
    <3>3. ASSUME NEW s \in Sessions, Pull(r, s)
          PROVE  checkout'[job'[r].on] = "paid"
      BY <2>1, <3>3 DEF Pull, Start, stripe
    <3> QED BY <2>3, <3>1, <3>2, <3>3, ActorAssumption DEF Step, ReconcilerNext, ReconcilerStep
  <2>4. ASSUME NEW a \in Actors, a # r, Step(a)
        PROVE  checkout'[job'[r].on] = "paid"
    <3>1. job'[r] = job[r]
      BY <2>1, <2>4, StepOwn DEF OnlyOwn
    <3> QED BY <1>7, <2>2, <3>1
  <2>5. CASE World \/ UNCHANGED vars
    <3>1. job' = job
      BY <2>5 DEF World, CompleteCheckout, PayCheckout, LapseHold, vars
    <3> QED BY <1>7, <2>2, <3>1
  <2> QED BY <2>3, <2>4, <2>5 DEF Next
<1> QED BY <1>6, <1>7 DEF BringPaid

-----------------------------------------------------------------------------
(* The theorem.                                                              *)

(* The session a payment is recorded for has been paid.                      *)
LEMMA RecordedIsPaid ==
  ASSUME TypeInv, StripeInv, NEW s \in Sessions, Brings(s),
         Payable(SessionPayment[s]), Bound(SessionPayment[s], s)
  PROVE  checkout[s] = "paid"
BY DEF Brings, StripeInv, BringPaid, PaidOrRefused

LEMMA PaidIsCollectedStep ==
  ASSUME TypeInv, LockInv, CollectInv, [Next]_vars
  PROVE  PaidIsCollected'
<1> USE DEF CollectInv, StripeInv, Settled, TypeInv, TypeOK, LedgerTyped, PaymentRow
<1>1. SUFFICES ASSUME NEW p \in Payments \ CashPayments, Settled(p)', ~IsAddon(p)
               PROVE  payment'[p].session # Nothing /\ checkout'[payment'[p].session] = "paid"
  BY DEF PaidIsCollected, IsAddon
<1>2. MoneyStays
  BY CheckoutStep
<1>3. ASSUME Settled(p), payment'[p].session = payment[p].session
      PROVE  payment'[p].session # Nothing /\ checkout'[payment'[p].session] = "paid"
  BY <1>1, <1>2, <1>3 DEF PaidIsCollected, MoneyStays
<1>4. CASE UNCHANGED ledger
  BY <1>1, <1>3, <1>4 DEF ledger
<1>5. ASSUME NEW s \in Sessions, NEW late \in BOOLEAN, NEW amount, NEW q \in Payments,
             Brings(s), SessionPayment[s] = q, Bound(q, s), RecordTruth(q, s, amount, late)
      PROVE  payment'[p].session # Nothing /\ checkout'[payment'[p].session] = "paid"
  <2>1. CASE q = p
    <3>1. payment'[p].session = s
      BY <1>5, <2>1 DEF RecordTruth, Bound
    <3>2. checkout'[s] = "paid"
      BY <1>2, <1>5, RecordedIsPaid DEF RecordTruth, MoneyStays
    <3> QED BY <3>1, <3>2, RowAssumption
  <2>2. CASE q # p
    BY <1>1, <1>3, <1>5, <2>2 DEF RecordTruth
  <2> QED BY <2>1, <2>2
<1>6. ASSUME NEW q \in Payments, RepairTruth(q)
      PROVE  payment'[p].session # Nothing /\ checkout'[payment'[p].session] = "paid"
  BY <1>1, <1>3, <1>6 DEF RepairTruth
<1>7. ASSUME NEW h \in Hooks, AddonRecord(h)
      PROVE  payment'[p].session # Nothing /\ checkout'[payment'[p].session] = "paid"
  <2>1. AddonOf(h) # p
    BY <1>1, <1>7 DEF LockInv, AddonHeld, AddonRecord
  <2> QED BY <1>1, <1>3, <1>7, <2>1 DEF AddonRecord, AddonOf
<1>8. ASSUME NEW c \in Cancellers, CancelCommit(c)
      PROVE  payment'[p].session # Nothing /\ checkout'[payment'[p].session] = "paid"
  BY <1>1, <1>3, <1>8 DEF CancelCommit, Retired
<1>9. ASSUME NEW x \in Expirers, ExpireHold(x)
      PROVE  payment'[p].session # Nothing /\ checkout'[payment'[p].session] = "paid"
  BY <1>1, <1>3, <1>9 DEF ExpireHold
<1>10. ASSUME NEW m \in LinkMakers, AttachSession(m)
       PROVE  payment'[p].session # Nothing /\ checkout'[payment'[p].session] = "paid"
  BY <1>1, <1>3, <1>10 DEF AttachSession
<1>11. ASSUME NEW k \in LinkCancellers, DropCommit(k)
       PROVE  payment'[p].session # Nothing /\ checkout'[payment'[p].session] = "paid"
  BY <1>1, <1>3, <1>11 DEF DropCommit
<1>12. ASSUME NEW k \in Clerks, CashRecord(k)
       PROVE  payment'[p].session # Nothing /\ checkout'[payment'[p].session] = "paid"
  <2>1. job[k].on \in CashPayments
    BY <1>12 DEF CashRecord, SubjectsFit, Actors
  <2> QED BY <1>1, <1>3, <1>12, <2>1 DEF CashRecord
<1> QED
  BY <1>4, <1>5, <1>6, <1>7, <1>8, <1>9, <1>10, <1>11, <1>12, StepWrites DEF Writes

(* What anyone brings has been submitted.                                    *)
LEMMA BroughtIsSubmitted ==
  ASSUME TypeInv, StripeInv, NEW s \in Sessions, Brings(s)
  PROVE  checkout[s] \in {"processing", "paid"}
BY DEF Brings, StripeInv, BringPaid, EventsFollowMoney, TypeInv, SubjectsFit, Actors

LEMMA SubmittedStep ==
  ASSUME TypeInv, CollectInv, [Next]_vars
  PROVE  SubmittedFirst'
<1> USE DEF CollectInv, Settled, TypeInv, TypeOK, LedgerTyped, PaymentRow
<1> DEFINE Submitted(p) ==
             \E s \in Sessions : SessionPayment[s] = p /\ checkout[s] \in {"processing", "paid"}
<1>1. SUFFICES ASSUME NEW p \in Payments \ CashPayments, Settled(p)'
               PROVE  Submitted(p)'
  BY DEF SubmittedFirst
<1>2. MoneyStays
  BY CheckoutStep DEF StripeInv
<1>3. ASSUME Submitted(p)
      PROVE  Submitted(p)'
  BY <1>2, <1>3 DEF MoneyStays
<1>4. ASSUME Settled(p)
      PROVE  Submitted(p)'
  BY <1>3, <1>4 DEF SubmittedFirst
<1>5. CASE UNCHANGED ledger
  BY <1>1, <1>4, <1>5 DEF ledger
<1>6. ASSUME NEW q \in Payments, NEW s \in Sessions, NEW late \in BOOLEAN, NEW amount,
             Brings(s), SessionPayment[s] = q, RecordTruth(q, s, amount, late)
      PROVE  Submitted(p)'
  <2>1. CASE q = p
    BY <1>3, <1>6, <2>1, BroughtIsSubmitted
  <2>2. CASE q # p
    BY <1>1, <1>4, <1>6, <2>2 DEF RecordTruth
  <2> QED BY <2>1, <2>2
<1>7. ASSUME NEW h \in Hooks, AddonRecord(h)
      PROVE  Submitted(p)'
  <2> DEFINE s == EventSession[job[h].on]
  <2>1. job[h].at # "idle" /\ job[h].on \in Events
    BY <1>7 DEF AddonRecord, SubjectsFit, Actors
  <2>2. s \in Sessions /\ Brings(s)
    BY <2>1, EventTyped DEF Brings
  <2>3. CASE SessionPayment[s] = p
    BY <1>3, <2>2, <2>3, BroughtIsSubmitted
  <2>4. CASE SessionPayment[s] # p
    BY <1>1, <1>4, <1>7, <2>4 DEF AddonRecord, EventPayment
  <2> QED BY <2>3, <2>4
<1>8. ASSUME NEW k \in Clerks, CashRecord(k)
      PROVE  Submitted(p)'
  <2>1. job[k].on \in CashPayments
    BY <1>8 DEF CashRecord, SubjectsFit, Actors
  <2> QED BY <1>1, <1>4, <1>8, <2>1 DEF CashRecord
<1>9. ASSUME NEW c \in Cancellers, CancelCommit(c)
      PROVE  Submitted(p)'
  BY <1>1, <1>4, <1>9 DEF CancelCommit, Retired
<1>10. ASSUME NEW x \in Expirers, ExpireHold(x)
       PROVE  Submitted(p)'
  BY <1>1, <1>4, <1>10 DEF ExpireHold
<1>11. ASSUME NEW m \in LinkMakers, AttachSession(m)
       PROVE  Submitted(p)'
  BY <1>1, <1>4, <1>11 DEF AttachSession
<1>12. ASSUME NEW k \in LinkCancellers, DropCommit(k)
       PROVE  Submitted(p)'
  BY <1>1, <1>4, <1>12 DEF DropCommit
<1>13. ASSUME NEW q \in Payments, RepairTruth(q)
       PROVE  Submitted(p)'
  BY <1>1, <1>4, <1>13 DEF RepairTruth
<1> QED
  BY <1>5, <1>6, <1>7, <1>8, <1>9, <1>10, <1>11, <1>12, <1>13, StepWrites DEF Writes

(* Stripe's side and the ledger's agree in every state, for all handlers.    *)
LEMMA CollectInvariance == Spec => []CollectInv
<1>1. TypeInv /\ LockInv /\ CollectInv /\ [Next]_vars => CollectInv'
  BY CheckoutStep, EventsStep, BringStep, PaidIsCollectedStep, SubmittedStep
  DEF CollectInv, StripeInv
<1> QED BY <1>1, CollectInit, TypeInvariance, LocksExclude, PTL DEF Spec

(* A booking payment is marked paid only if Stripe holds the money of the    *)
(* session its row carries, whichever webhook, reconciler or link service    *)
(* got there first and whatever events came early, late or twice.            *)
THEOREM PaidMeansCollected == Spec => []PaidIsCollected
<1>1. CollectInv => PaidIsCollected
  BY DEF CollectInv
<1> QED BY <1>1, CollectInvariance, PTL
-----------------------------------------------------------------------------
(* No paid session is forgotten.                                             *)

RowsExist == \A p \in Payments \ CashPayments : payment[p].status # "absent"

(* The steps behind a hook's first commit: each may end in a 200 whatever    *)
(* goes wrong in it.                                                         *)
Afterwards == {"notify", "again", "reapply"}

(* Stripe is told 200, an event is claimed, and a hook comes to what follows *)
(* its commit, only when the row no longer waits for the session.            *)
AnsweredIsDone ==
  /\ \A e \in Events : delivery[e] = "acked" \/ e \in claimed =>
       delivery[e] # "none" /\ (IsAddon(EventPayment(e)) \/ ~Awaits(EventSession[e]))
  /\ \A h \in Hooks : job[h].at \in Afterwards => ~Awaits(EventSession[job[h].on])

(* Stripe has sent the events of the money it holds.                         *)
PaidIsAnnounced ==
  \A e \in Events \ EarlyEvents :
    checkout[EventSession[e]] = "paid" => delivery[e] # "none"

AnswerInv == RowsExist /\ AnsweredIsDone /\ PaidIsAnnounced

(* Of a session paid for the booking itself, either the event is still due   *)
(* or the row is paid, retired or moved to another session.  MoneyLands says *)
(* that the former ends.                                                     *)
NoMoneyForgotten ==
  \A e \in Events \ EarlyEvents :
    LET s == EventSession[e]
        p == SessionPayment[s]
    IN checkout[s] = "paid" /\ ~IsAddon(p) =>
         \/ delivery[e] = "due"
         \/ Settled(p) \/ payment[p].status \in DeadStatuses \/ ~Bound(p, s)

LEMMA AnswerInit ==
  ASSUME Init
  PROVE  AnswerInv
<1>1. RowsExist
  BY DEF RowsExist, Init, StoreInit
<1>2. AnsweredIsDone
  BY DEF AnsweredIsDone, Afterwards, Init, StoreInit, Actors, Idle
<1>3. PaidIsAnnounced
  BY LinkAssumption DEF PaidIsAnnounced, Init, StoreInit
<1> QED BY <1>1, <1>2, <1>3 DEF AnswerInv

(* Only a clerk's rows are inserted, and no row is deleted.                  *)
LEMMA RowsExistStep ==
  ASSUME TypeInv, RowsExist, [Next]_vars
  PROVE  RowsExist'
<1> USE DEF RowsExist, TypeInv, TypeOK, LedgerTyped, PaymentRow
<1>1. ASSUME NEW q \in Payments, NEW t \in Sessions, NEW late \in BOOLEAN, NEW amount,
             RecordTruth(q, t, amount, late)
      PROVE  RowsExist'
  <2>1. \A p \in Payments : payment'[p].status \in {payment[p].status, "paid"}
    BY <1>1 DEF RecordTruth
  <2> QED BY <2>1
<1>2. CASE (\E q \in Payments : RepairTruth(q)) \/ UNCHANGED ledger
  BY <1>2 DEF RepairTruth, ledger
<1>3. CASE \E h \in Hooks : AddonRecord(h)
  BY <1>3 DEF AddonRecord
<1>4. ASSUME NEW k \in Clerks, CashRecord(k)
      PROVE  RowsExist'
  <2>1. \A p \in Payments \ {job[k].on} : payment'[p] = payment[p]
    BY <1>4 DEF CashRecord
  <2>2. job[k].on \in CashPayments
    BY <1>4 DEF CashRecord, SubjectsFit, Actors
  <2> QED BY <2>1, <2>2
<1>5. ASSUME NEW c \in Cancellers, CancelCommit(c)
      PROVE  RowsExist'
  BY <1>5 DEF CancelCommit, Retired
<1>6. ASSUME NEW x \in Expirers, ExpireHold(x)
      PROVE  RowsExist'
  <2>1. \A p \in Payments : payment'[p].status = payment[p].status
    BY <1>6 DEF ExpireHold
  <2> QED BY <2>1
<1>7. ASSUME NEW m \in LinkMakers, AttachSession(m)
      PROVE  RowsExist'
  BY <1>7 DEF AttachSession
<1>8. ASSUME NEW k \in LinkCancellers, DropCommit(k)
      PROVE  RowsExist'
  BY <1>8 DEF DropCommit
<1> QED BY <1>1, <1>2, <1>3, <1>4, <1>5, <1>6, <1>7, <1>8, StepWrites DEF Writes

(* A hook that answers 200, claims its event, or turns to what follows the   *)
(* commit, leaves a row that does not wait for its session.                  *)
LEMMA AnswerIsDone ==
  ASSUME TypeInv, AddonHeld, AnsweredIsDone, NEW h \in Hooks, Step(h), job[h].at # "idle",
         NEW e \in Events, e = job[h].on,
         delivery' # delivery \/ claimed' # claimed \/ job'[h].at \in Afterwards
  PROVE  \/ IsAddon(EventPayment(e)) /\ job'[h].at \notin Afterwards
         \/ ~Awaits(EventSession[e])'
<1> DEFINE p == EventPayment(e)
           s == EventSession[e]
<1> USE DEF TypeInv, TypeOK, JobsTyped, LedgerTyped, PaymentRow, Afterwards
<1>1. h \in Actors /\ s \in Sessions /\ p \in Payments
  BY EventTyped DEF Actors
<1>2. p = SessionPayment[s]
  BY DEF EventPayment
<1>3. ASSUME Settled(p)'
      PROVE  ~Awaits(s)'
  BY <1>2, <1>3 DEF Awaits, Settled, EligibleStatuses
<1>4. ASSUME Unfit(p, s), UNCHANGED ledger
      PROVE  IsAddon(p) \/ ~Awaits(s)'
  BY <1>2, <1>4 DEF Awaits, Unfit, Bound, Payable, IsAddon, ledger
<1>5. ASSUME NEW amount, NEW late, RecordTruth(p, s, amount, late)
      PROVE  Settled(p)'
  BY <1>1, <1>5 DEF RecordTruth, Settled
<1>6. ASSUME RepairTruth(p)
      PROVE  Settled(p)'
  BY <1>6 DEF RepairTruth, Settled
<1>7. CASE ClaimDuplicate(h)
  <2>1. CASE IsAddon(p)
    BY <1>1, <1>7, <2>1 DEF ClaimDuplicate, Finish, Idle
  <2>2. CASE ~IsAddon(p)
    BY <1>2, <1>7, <2>2 DEF ClaimDuplicate, AnsweredIsDone, Awaits, Bound, ledger
  <2> QED BY <2>1, <2>2
<1>8. CASE ApplyRecord(h)
  BY <1>3, <1>5, <1>8 DEF ApplyRecord
<1>9. CASE ApplyReject(h)
  BY <1>1, <1>4, <1>9 DEF ApplyReject, Finish, Idle
<1>10. CASE Reapply(h)
  <2>1. Settled(p)' \/ (Unfit(p, s) /\ UNCHANGED ledger)
    BY <1>5, <1>6, <1>10 DEF Reapply
  <2>2. job'[h].at \notin Afterwards
    BY <1>1, <1>10 DEF Reapply, Finish, Idle
  <2> QED BY <1>3, <1>4, <2>1, <2>2
<1>11. CASE Notify(h) \/ LockAgain(h)
  BY <1>2, <1>11 DEF Notify, LockAgain, AnsweredIsDone, Awaits, Bound, ledger
<1>12. CASE AddonSettled(h) \/ AddonRecord(h)
  BY <1>1, <1>12 DEF AddonSettled, AddonRecord, AtPayment, AddonHeld, AddonOf, Committed, CommitUnknown,
                     Finish, Idle
<1>13. CASE Claim(h) \/ SharePayment(h) \/ ShareBooking(h) \/ LockBooking(h)
              \/ AddonLock(h) \/ AddonRaise(h)
  BY <1>1, <1>13 DEF Claim, SharePayment, ShareBooking, LockBooking,
                     AddonLock, AddonRaise, Go, Finish, Idle, stripe
<1>14. CASE Fail(h) \/ AbortDeadlocked(h)
  <2>1. CASE Swallows(h)
    BY <1>2, <1>14, <2>1
    DEF Swallows, AnsweredIsDone, Awaits, Bound, Fail, AbortDeadlocked, ledger
  <2>2. CASE ~Swallows(h)
    BY <1>1, <1>14, <2>2 DEF Fail, AbortDeadlocked, AnswerAborted, Finish, Idle
  <2> QED BY <2>1, <2>2
<1>16. CASE ApplySettled(h)
  BY <1>3, <1>6, <1>16 DEF ApplySettled
<1>15. HookStep(h) \/ Fail(h) \/ AbortDeadlocked(h)
  BY ActorAssumption DEF Step, HookNext, Receive, Start
<1> QED
  BY <1>7, <1>8, <1>9, <1>10, <1>11, <1>12, <1>13, <1>14, <1>15, <1>16 DEF HookStep

LEMMA AnsweredStep ==
  ASSUME TypeInv, LockInv, StripeInv, AnsweredIsDone, [Next]_vars
  PROVE  AnsweredIsDone'
<1> USE DEF TypeInv, TypeOK
<1>1. ASSUME NEW e \in Events, delivery[e] # "none", ~Awaits(EventSession[e])
      PROVE  ~Awaits(EventSession[e])'
  BY <1>1, WaitIsOver, EventTyped DEF StripeInv, EventsFollowMoney
<1>2. ASSUME NEW e \in Events, IsAddon(EventPayment(e))
      PROVE  IsAddon(EventPayment(e))'
  BY <1>2 DEF IsAddon, EventPayment
<1>3. ASSUME NEW e \in Events, delivery'[e] = "acked" \/ e \in claimed'
      PROVE  delivery'[e] # "none" /\ (IsAddon(EventPayment(e)) \/ ~Awaits(EventSession[e]))'
  <2> DEFINE Known == delivery[e] = "acked" \/ e \in claimed
  <2>1. CASE Known
    BY <1>1, <1>2, <2>1, EventsStep DEF AnsweredIsDone
  <2>2. ASSUME ~Known, NEW h \in Hooks, Step(h)
        PROVE  delivery'[e] # "none" /\ (IsAddon(EventPayment(e)) \/ ~Awaits(EventSession[e]))'
    <3>1. e = job[h].on /\ job[h].at # "idle" /\ (delivery' # delivery \/ claimed' # claimed)
      BY <1>3, <2>2, HookMoves
    <3>2. IsAddon(EventPayment(e)) \/ ~Awaits(EventSession[e])'
      BY <2>2, <3>1, AnswerIsDone DEF LockInv
    <3>3. delivery'[e] # "none"
      BY <3>1, EventsStep DEF StripeInv, BringPaid
    <3> QED BY <1>2, <3>2, <3>3
  <2>3. ASSUME ~Known, NEW a \in Actors, a \notin Hooks, Step(a)
        PROVE  FALSE
    BY <1>3, <2>3, OthersLeaveDelivery
  <2>4. ASSUME ~Known, World \/ UNCHANGED vars
        PROVE  FALSE
    BY <1>3, <2>4 DEF World, CompleteCheckout, PayCheckout, LapseHold, stripe, vars
  <2> QED BY <2>1, <2>2, <2>3, <2>4 DEF Next
<1>4. ASSUME NEW h \in Hooks, job'[h].at \in Afterwards
      PROVE  ~Awaits(EventSession[job[h].on])'
  <2>1. h \in Actors
    BY DEF Actors
  <2>2. ASSUME job'[h] = job[h]
        PROVE  ~Awaits(EventSession[job[h].on])'
    <3>1. PICK e \in Events : e = job[h].on
      BY <1>4, <2>1, <2>2 DEF SubjectsFit, Afterwards
    <3>2. delivery[e] # "none" /\ ~Awaits(EventSession[e])
      BY <1>4, <2>2, <3>1 DEF StripeInv, BringPaid, AnsweredIsDone, Afterwards
    <3>3. ~Awaits(EventSession[e])'
      BY <1>1, <3>2
    <3> QED BY <2>2, <3>1, <3>3 DEF Awaits, Bound
  <2>3. CASE Step(h)
    <3>1. job[h].at # "idle" /\ job'[h].on = job[h].on
      BY <1>4, <2>1, <2>3, HookMoves DEF Receive, Start, JobsTyped, Afterwards
    <3>2. PICK e \in Events : e = job[h].on
      BY <2>1, <3>1 DEF SubjectsFit
    <3>3. ~Awaits(EventSession[e])'
      BY <1>4, <2>3, <3>1, <3>2, AnswerIsDone DEF LockInv
    <3> QED BY <3>1, <3>2, <3>3 DEF Awaits, Bound
  <2>4. ASSUME NEW a \in Actors, a # h, Step(a)
        PROVE  job'[h] = job[h]
    BY <2>1, <2>4, StepOwn DEF OnlyOwn
  <2>5. ASSUME World \/ UNCHANGED vars
        PROVE  job'[h] = job[h]
    BY <2>5 DEF World, CompleteCheckout, PayCheckout, LapseHold, vars
  <2> QED BY <2>2, <2>3, <2>4, <2>5 DEF Next
<1> QED BY <1>3, <1>4 DEF AnsweredIsDone

LEMMA AnnouncedStep ==
  ASSUME TypeInv, StripeInv, PaidIsAnnounced, [Next]_vars
  PROVE  PaidIsAnnounced'
<1> USE DEF TypeInv, TypeOK, WorldTyped
<1>1. SUFFICES ASSUME NEW e \in Events \ EarlyEvents, checkout'[EventSession[e]] = "paid"
               PROVE  delivery'[e] # "none"
  BY DEF PaidIsAnnounced
<1> DEFINE s == EventSession[e]
<1>2. s \in Sessions
  BY EventTyped
<1>3. CASE checkout[s] = "paid"
  BY <1>3, EventsStep DEF PaidIsAnnounced
<1>4. ASSUME NEW t \in Sessions, PayCheckout(t)
      PROVE  checkout[s] = "paid" \/ delivery'[e] # "none"
  BY <1>1, <1>2, <1>4 DEF PayCheckout
<1>5. ASSUME NEW m \in LinkMakers, Step(m)
      PROVE  checkout[s] = "paid"
  BY <1>1, <1>2, <1>5, MakerMoves
<1>6. ASSUME NEW a \in Actors, a \notin LinkMakers, Step(a)
      PROVE  checkout[s] = "paid"
  BY <1>1, <1>6, OthersLeaveCheckouts
<1>7. ASSUME NEW t \in Sessions, CompleteCheckout(t)
      PROVE  checkout[s] = "paid"
  BY <1>1, <1>2, <1>7 DEF CompleteCheckout
<1>8. ASSUME (\E b \in Bookings : LapseHold(b)) \/ UNCHANGED vars
      PROVE  checkout[s] = "paid"
  BY <1>1, <1>8 DEF LapseHold, stripe, vars
<1> QED BY <1>3, <1>4, <1>5, <1>6, <1>7, <1>8 DEF Next, World

(* No money is forgotten: a session Stripe was paid for is recorded, or its  *)
(* row was retired or moved to another session, or Stripe still has the      *)
(* event to deliver.  No 200 goes out before, whatever fails, is aborted or  *)
(* comes twice.                                                              *)
THEOREM NoneForgotten == Spec => []NoMoneyForgotten
<1>1. TypeInv /\ LockInv /\ CollectInv /\ AnswerInv /\ [Next]_vars => AnswerInv'
  BY RowsExistStep, AnsweredStep, AnnouncedStep DEF AnswerInv, CollectInv
<1>2. TypeInv /\ AnswerInv => NoMoneyForgotten
  <2>1. SUFFICES ASSUME TypeInv, AnswerInv, NEW e \in Events \ EarlyEvents,
                        checkout[EventSession[e]] = "paid", ~IsAddon(EventPayment(e)),
                        delivery[e] # "due"
                 PROVE  \/ Settled(EventPayment(e))
                        \/ payment[EventPayment(e)].status \in DeadStatuses
                        \/ ~Bound(EventPayment(e), EventSession[e])
    BY DEF NoMoneyForgotten, EventPayment
  <2>2. delivery[e] = "acked" /\ ~Awaits(EventSession[e])
    BY <2>1 DEF AnswerInv, PaidIsAnnounced, AnsweredIsDone, TypeInv, TypeOK, WorldTyped
  <2>3. payment[EventPayment(e)].status \in PaymentStatuses \ {"absent"}
    BY <2>1, EventTyped, LinkAssumption
    DEF AnswerInv, RowsExist, EventPayment, TypeInv, TypeOK, LedgerTyped, PaymentRow
  <2> QED BY <2>2, <2>3
          DEF Awaits, EventPayment, Settled, PaymentStatuses, EligibleStatuses, DeadStatuses
<1> QED BY <1>1, <1>2, AnswerInit, TypeInvariance, LocksExclude, CollectInvariance, PTL DEF Spec
-----------------------------------------------------------------------------
(* Confirmations, with every kind of actor at work.                          *)

(* A booking whose status a confirmation may speak for, and that no          *)
(* canceller will touch: some event of it is claimed.                        *)
Confirmable(b) == ClaimsOf(b) # {} /\ booking[b].status \in AutoConfirmStatuses

(* A hook only comes to the confirmation with such a booking, and so only    *)
(* such a booking is ever confirmed.                                         *)
NotifyInv ==
  /\ \A h \in Hooks : job[h].at = "notify" => Confirmable(EventBooking(job[h].on))
  /\ \A b \in notified : Confirmable(b)

(* A claim is never withdrawn, and a confirmation comes from a hook that is  *)
(* at that step.                                                             *)
LEMMA ClaimsGrow ==
  ASSUME [Next]_vars
  PROVE  /\ claimed \subseteq claimed'
         /\ \A b \in notified' : b \in notified \/
              \E h \in Hooks : job[h].at = "notify" /\ EventBooking(job[h].on) = b
<1> DEFINE Grown == /\ claimed \subseteq claimed'
                    /\ \A b \in notified' : b \in notified \/
                         \E h \in Hooks : job[h].at = "notify" /\ EventBooking(job[h].on) = b
<1>1. ASSUME NEW h \in Hooks, HookNext(h)
      PROVE  Grown
  <2>1. CASE Notify(h)
    BY <2>1 DEF Notify
  <2> QED
    BY <1>1, <2>1
    DEF HookNext, HookStep, Receive, Claim, ClaimDuplicate, SharePayment, ShareBooking,
        LockBooking, ApplyRecord, ApplySettled, ApplyReject, LockAgain, Reapply, AddonLock,
        AddonSettled, AddonRecord, AddonRaise
<1>2. ASSUME NEW a \in Actors, Step(a), a \notin Hooks \/ ~HookNext(a)
      PROVE  Grown
  <2>1. UNCHANGED <<claimed, notified>>
    BY <1>2
    DEF Step, ReconcilerNext, ReconcilerStep, Pull, PullLock, PullApply,
        CancellerNext, CancellerStep, Cancel, CancelLock, CancelLockPayment, CancelCommit,
        CancelRefuse, ExpirerNext, ExpirerStep, PickHold, HoldLock, HoldLockClient,
        ExpireHold, SkipHold, LinkMakerNext, LinkMakerStep, MakeSession, LinkLockPayment,
        AttachSession, AttachRaise, LinkCancellerNext, LinkCancellerStep, DropLink,
        DropCommit, ClerkNext, ClerkStep, TakeCash, CashLock, CashRecord, CashReturn,
        Fail, AbortDeadlocked
  <2> QED BY <2>1
<1>3. CASE World \/ UNCHANGED vars
  BY <1>3 DEF World, CompleteCheckout, PayCheckout, LapseHold, vars
<1> QED BY <1>1, <1>2, <1>3 DEF Next

(* No step takes a confirmable booking back: money only confirms, expiry     *)
(* wants a hold, and a cancellation finds the claim.                         *)
LEMMA ConfirmableStays ==
  ASSUME TypeInv, [Next]_vars, NEW b \in Bookings, Confirmable(b)
  PROVE  Confirmable(b)'
<1> USE DEF Confirmable, AutoConfirmStatuses, TypeInv, TypeOK, LedgerTyped, BookingRow
<1>1. ClaimsOf(b)' # {}
  BY ClaimsGrow DEF ClaimsOf
<1>2. \A p \in Payments : BookingOf[p] \in Bookings
  BY LinkAssumption
<1>3. CASE UNCHANGED ledger
  BY <1>1, <1>3 DEF ledger
<1>4. ASSUME NEW p \in Payments, NEW s \in Sessions, NEW late \in BOOLEAN, NEW amount,
             RecordTruth(p, s, amount, late)
      PROVE  Confirmable(b)'
  BY <1>1, <1>2, <1>4 DEF RecordTruth
<1>5. ASSUME NEW p \in Payments, RepairTruth(p)
      PROVE  Confirmable(b)'
  BY <1>1, <1>2, <1>5 DEF RepairTruth
<1>6. ASSUME NEW c \in Cancellers, CancelCommit(c)
      PROVE  Confirmable(b)'
  <2>1. b # job[c].on
    BY <1>6 DEF CancelCommit, ZeroPayment
  <2> QED BY <1>1, <1>6, <2>1 DEF CancelCommit
<1>7. ASSUME NEW x \in Expirers, ExpireHold(x)
      PROVE  Confirmable(b)'
  <2>1. b # job[x].on
    BY <1>7 DEF ExpireHold, Overdue
  <2> QED BY <1>1, <1>7, <2>1 DEF ExpireHold
<1>8. ASSUME NEW k \in Clerks, CashRecord(k)
      PROVE  Confirmable(b)'
  BY <1>1, <1>8 DEF CashRecord
<1>9. (\E h \in Hooks : AddonRecord(h)) \/ (\E m \in LinkMakers : AttachSession(m))
        \/ (\E k \in LinkCancellers : DropCommit(k)) => Confirmable(b)'
  BY <1>1 DEF AddonRecord, AttachSession, DropCommit
<1> QED BY <1>3, <1>4, <1>5, <1>6, <1>7, <1>8, <1>9, StepWrites DEF Writes

(* A hook that comes to the confirmation has just claimed its event and      *)
(* recorded its money on a live booking, or has made it one.                 *)
LEMMA NotifyReached ==
  ASSUME TypeInv, NEW h \in Hooks, Step(h), job'[h].at = "notify"
  PROVE  Confirmable(EventBooking(job[h].on))'
<1> USE DEF TypeInv, TypeOK, JobsTyped
<1>1. h \in Actors
  BY DEF Actors
<1>2. ASSUME NEW e \in Events, Receive(h, e)
      PROVE  FALSE
  BY <1>1, <1>2 DEF Receive, Start
<1>3. CASE Claim(h) \/ ClaimDuplicate(h) \/ SharePayment(h) \/ ShareBooking(h) \/ LockBooking(h)
  BY <1>1, <1>3 DEF Claim, ClaimDuplicate, SharePayment, ShareBooking, LockBooking, Go, Finish,
                    Idle
<1>4. CASE ApplySettled(h) \/ ApplyReject(h) \/ LockAgain(h) \/ Reapply(h) \/ Notify(h)
  BY <1>1, <1>4 DEF ApplySettled, ApplyReject, LockAgain, Reapply, Notify, Go, Finish, Idle
<1>5. CASE AddonLock(h) \/ AddonSettled(h) \/ AddonRecord(h) \/ AddonRaise(h)
  BY <1>1, <1>5 DEF AddonLock, AddonSettled, AddonRecord, AddonRaise, Committed, CommitUnknown,
                    Go, Finish, Idle
<1>6. CASE Fail(h) \/ AbortDeadlocked(h)
  BY <1>1, <1>6 DEF Fail, AbortDeadlocked, Finish, Idle
<1>7. CASE ApplyRecord(h)
  <2> DEFINE e == job[h].on
             p == EventPayment(e)
             b == BookingOf[p]
             late == job[h].late
  <2>1. e \in Events /\ p \in Payments /\ b \in Bookings
    BY <1>1, <1>7, EventTyped DEF ApplyRecord, AtPayment, SubjectsFit
  <2>2. /\ AutoConfirms(p, FullAmount(p), late) /\ job'[h].on = e
        /\ RecordTruth(p, EventSession[e], FullAmount(p), late)
        /\ claimed' = claimed \cup {e}
    BY <1>1, <1>7 DEF ApplyRecord, Committed, CommitUnknown, Go, Finish, Idle
  <2>3. booking'[b].status =
          IF PromotesToConfirmed(booking[b].status, late,
                                 MoneyAfter(p, FullAmount(p)).payStatus, Sunset)
          THEN "confirmed" ELSE booking[b].status
    BY <2>1, <2>2 DEF RecordTruth, LedgerTyped, BookingRow
  <2>4. booking'[b].status \in AutoConfirmStatuses
    BY <2>2, <2>3
    DEF AutoConfirms, AllowsAutoConfirmation, PromotesToConfirmed, AutoConfirmStatuses
  <2>5. EventBooking(job'[h].on) = b /\ e \in ClaimsOf(b)'
    BY <2>2 DEF EventBooking, EventPayment, ClaimsOf
  <2> QED BY <2>4, <2>5 DEF Confirmable, EventBooking, EventPayment
<1>8. HookNext(h) \/ Fail(h) \/ AbortDeadlocked(h)
  BY ActorAssumption DEF Step
<1> QED BY <1>2, <1>3, <1>4, <1>5, <1>6, <1>7, <1>8 DEF HookNext, HookStep

LEMMA NotifyStep ==
  ASSUME TypeInv, NotifyInv, [Next]_vars
  PROVE  NotifyInv'
<1>1. ASSUME NEW b \in Bookings, Confirmable(b)
      PROVE  Confirmable(b)'
  BY <1>1, ConfirmableStays
<1>2. ASSUME NEW h \in Hooks, job[h].at = "notify"
      PROVE  EventBooking(job[h].on) \in Bookings /\ Confirmable(EventBooking(job[h].on))
  BY <1>2, EventTyped DEF NotifyInv, TypeInv, SubjectsFit, Actors
<1>3. ASSUME NEW b \in notified'
      PROVE  Confirmable(b)'
  <2>1. b \in Bookings /\ Confirmable(b)
    BY <1>2, <1>3, ClaimsGrow DEF NotifyInv, TypeInv, TypeOK, WorldTyped
  <2> QED BY <1>1, <2>1
<1>4. ASSUME NEW h \in Hooks, job'[h].at = "notify"
      PROVE  Confirmable(EventBooking(job[h].on))'
  <2>1. ASSUME job'[h] = job[h]
        PROVE  Confirmable(EventBooking(job[h].on))'
    <3>1. PICK b \in Bookings : b = EventBooking(job[h].on) /\ Confirmable(b)
      BY <1>2, <1>4, <2>1
    <3>2. b = EventBooking(job'[h].on) /\ Confirmable(b)'
      BY <1>1, <2>1, <3>1
    <3> QED BY <3>2 DEF Confirmable, EventBooking, EventPayment
  <2>2. CASE Step(h)
    BY <1>4, <2>2, NotifyReached
  <2>3. ASSUME NEW a \in Actors, a # h, Step(a)
        PROVE  job'[h] = job[h]
    BY <2>3, StepOwn DEF OnlyOwn, Actors, TypeInv, TypeOK
  <2>4. ASSUME World \/ UNCHANGED vars
        PROVE  job'[h] = job[h]
    BY <2>4 DEF World, CompleteCheckout, PayCheckout, LapseHold, vars
  <2> QED BY <2>1, <2>2, <2>3, <2>4 DEF Next
<1> QED BY <1>3, <1>4 DEF NotifyInv, Confirmable, EventBooking, EventPayment

(* No confirmation is out for a booking that is not live, whatever           *)
(* cancellation, expiry or link service runs beside the webhooks: the claim  *)
(* committed with the money keeps cancellers off for good.                   *)
THEOREM ConfirmedStaysLive == Spec => []NotifiedIsLive
<1>1. Init => NotifyInv
  BY DEF Init, StoreInit, NotifyInv, Actors, Idle
<1>2. NotifyInv => NotifiedIsLive
  BY DEF NotifyInv, Confirmable, NotifiedIsLive
<1> QED BY <1>1, <1>2, NotifyStep, TypeInvariance, PTL DEF Spec
-----------------------------------------------------------------------------
(* Rings of waiting transactions.                                            *)

(* The actors that lock a booking before anything else.                      *)
BookingFirst == Reconcilers \cup Cancellers \cup Expirers \cup Clerks

WorksOn(a) == IF a \in Reconcilers THEN BookingOf[SessionPayment[job[a].on]]
              ELSE IF a \in Clerks THEN BookingOf[job[a].on]
              ELSE job[a].on

(* Past its first lock such an actor holds its booking, and it holds nothing *)
(* but that, a canceller the payments of its booking, and an expirer that    *)
(* writes the tenant.                                                        *)
Orderly(a) ==
  /\ job[a].at \notin {"idle", "lock"} => Holds(a, WorksOn(a))
  /\ \A l \in locks : l.by = a =>
       /\ job[a].at \notin {"idle", "lock"}
       /\ \/ l.row = WorksOn(a)
          \/ a \in Cancellers /\ l.row \in PaymentsOf(WorksOn(a))
          \/ a \in Expirers /\ job[a].at = "write" /\ l.row = Client

OrderInv == \A a \in BookingFirst : Orderly(a)

LEMMA FinishOrderly ==
  ASSUME JobsTyped, NEW a \in Actors, Finish(a)
  PROVE  Orderly(a)'
BY DEF JobsTyped, Finish, Unlock, Idle, Orderly

(* An actor that begins holds nothing yet.                                   *)
LEMMA StartOrderly ==
  ASSUME JobsTyped, NEW a \in BookingFirst, OrderInv, NEW subject,
         Start(a, "lock", subject, job'[a].late), UNCHANGED locks
  PROVE  Orderly(a)'
<1>1. a \in Actors /\ job'[a].at = "lock"
  BY DEF BookingFirst, Actors, JobsTyped, Start
<1>2. \A l \in locks : l.by # a
  BY DEF OrderInv, Orderly, Start
<1> QED BY <1>1, <1>2 DEF Orderly

(* The first lock is the booking's.                                          *)
LEMMA FirstOrderly ==
  ASSUME JobsTyped, NEW a \in BookingFirst, OrderInv, job[a].at = "lock",
         Lock(a, {Need(WorksOn(a), "update")}),
         job'[a].at \notin {"idle", "lock"}, job'[a].on = job[a].on
  PROVE  Orderly(a)'
<1>1. locks' = locks \cup {[by |-> a, row |-> WorksOn(a), mode |-> "update"]}
  BY DEF Lock, Need
<1>2. \A l \in locks : l.by # a
  BY DEF OrderInv, Orderly
<1>3. WorksOn(a)' = WorksOn(a)
  BY DEF WorksOn
<1> QED BY <1>1, <1>2, <1>3 DEF Orderly, Holds

LEMMA OwnOrderly ==
  ASSUME TypeInv, OrderInv, NEW a \in BookingFirst, Step(a)
  PROVE  Orderly(a)'
<1> USE DEF TypeInv, TypeOK
<1>1. a \in Actors
  BY DEF BookingFirst, Actors
<1>2. CASE a \in Reconcilers /\ ReconcilerNext(a)
  <2>1. ASSUME NEW s \in Sessions, Pull(a, s)
        PROVE  Orderly(a)'
    <3>1. Start(a, "lock", s, job'[a].late) /\ UNCHANGED locks
      BY <1>1, <2>1 DEF Pull, Start, JobsTyped
    <3> QED BY <3>1, StartOrderly
  <2>2. CASE PullLock(a)
    <3>1. /\ job[a].at = "lock" /\ Lock(a, {Need(WorksOn(a), "update")})
          /\ job'[a].at = "apply" /\ job'[a].on = job[a].on
      BY <1>1, <1>2, <2>2 DEF PullLock, WorksOn, JobsTyped
    <3> QED BY <3>1, FirstOrderly
  <2>3. CASE PullApply(a)
    BY <1>1, <2>3, FinishOrderly DEF PullApply
  <2> QED BY <1>2, <2>1, <2>2, <2>3 DEF ReconcilerNext, ReconcilerStep
<1>3. CASE a \in Cancellers /\ CancellerNext(a)
  <2>1. ASSUME NEW b \in Bookings, Cancel(a, b)
        PROVE  Orderly(a)'
    <3>1. Start(a, "lock", b, job'[a].late) /\ UNCHANGED locks
      BY <1>1, <2>1 DEF Cancel, Start, JobsTyped
    <3> QED BY <3>1, StartOrderly
  <2>2. WorksOn(a) = job[a].on
    BY <1>3, ActorAssumption DEF WorksOn
  <2>3. CASE CancelLock(a)
    <3>1. /\ job[a].at = "lock" /\ Lock(a, {Need(WorksOn(a), "update")})
          /\ job'[a].at = "lockPayment" /\ job'[a].on = job[a].on
      BY <1>1, <2>2, <2>3 DEF CancelLock, Go, JobsTyped
    <3> QED BY <3>1, FirstOrderly
  <2>4. CASE CancelLockPayment(a)
    <3>1. PICK p \in Unlocked(a) : Lock(a, {Need(p, "update")})
      BY <2>4 DEF CancelLockPayment
    <3>2. p \in PaymentsOf(WorksOn(a))
      BY <2>2 DEF Unlocked, PresentPayments
    <3>3. locks' = locks \cup {[by |-> a, row |-> p, mode |-> "update"]}
      BY <3>1 DEF Lock, Need
    <3>4. job' = job /\ job[a].at = "lockPayment" /\ WorksOn(a)' = WorksOn(a)
      BY <2>4 DEF CancelLockPayment, WorksOn
    <3> QED BY <1>3, <3>2, <3>3, <3>4 DEF OrderInv, Orderly, Holds, PaymentsOf
  <2>5. CASE CancelCommit(a) \/ CancelRefuse(a)
    BY <1>1, <2>5, FinishOrderly DEF CancelCommit, CancelRefuse
  <2> QED BY <1>3, <2>1, <2>3, <2>4, <2>5 DEF CancellerNext, CancellerStep
<1>4. CASE a \in Expirers /\ ExpirerNext(a)
  <2>1. ASSUME NEW b \in Bookings, PickHold(a, b)
        PROVE  Orderly(a)'
    <3>1. Start(a, "lock", b, job'[a].late) /\ UNCHANGED locks
      BY <1>1, <2>1 DEF PickHold, Start, JobsTyped
    <3> QED BY <3>1, StartOrderly
  <2>2. WorksOn(a) = job[a].on
    BY <1>4, ActorAssumption DEF WorksOn
  <2>3. CASE HoldLock(a)
    <3>1. /\ job[a].at = "lock" /\ Lock(a, {Need(WorksOn(a), "update")})
          /\ job'[a].at = "lockClient" /\ job'[a].on = job[a].on
      BY <1>1, <2>2, <2>3 DEF HoldLock, Go, JobsTyped
    <3> QED BY <3>1, FirstOrderly
  <2>4. CASE HoldLockClient(a)
    <3>1. locks' = locks \cup {[by |-> a, row |-> Client, mode |-> "update"]}
      BY <2>4 DEF HoldLockClient, Lock, Need
    <3>2. job[a].at = "lockClient" /\ job'[a].at = "write" /\ job'[a].on = job[a].on
      BY <1>1, <2>4 DEF HoldLockClient, Go, JobsTyped
    <3>3. WorksOn(a)' = WorksOn(a)
      BY <3>2 DEF WorksOn
    <3> QED BY <1>4, <3>1, <3>2, <3>3 DEF OrderInv, Orderly, Holds, PaymentsOf
  <2>5. CASE ExpireHold(a) \/ SkipHold(a)
    BY <1>1, <2>5, FinishOrderly DEF ExpireHold, SkipHold
  <2> QED BY <1>4, <2>1, <2>3, <2>4, <2>5 DEF ExpirerNext, ExpirerStep
<1>5. CASE a \in Clerks /\ ClerkNext(a)
  <2>1. ASSUME NEW p \in Payments, TakeCash(a, p)
        PROVE  Orderly(a)'
    <3>1. Start(a, "lock", p, job'[a].late) /\ UNCHANGED locks
      BY <1>1, <2>1 DEF TakeCash, Start, JobsTyped
    <3> QED BY <3>1, StartOrderly
  <2>2. CASE CashLock(a)
    <3>1. /\ job[a].at = "lock" /\ Lock(a, {Need(WorksOn(a), "update")})
          /\ job'[a].at = "write" /\ job'[a].on = job[a].on
      BY <1>1, <1>5, <2>2, ActorAssumption DEF CashLock, WorksOn, Go, JobsTyped
    <3> QED BY <3>1, FirstOrderly
  <2>3. CASE CashRecord(a) \/ CashReturn(a)
    BY <1>1, <2>3, FinishOrderly DEF CashRecord, CashReturn
  <2> QED BY <1>5, <2>1, <2>2, <2>3 DEF ClerkNext, ClerkStep
<1>6. CASE Fail(a) \/ AbortDeadlocked(a)
  BY <1>1, <1>6, FinishOrderly DEF Fail, AbortDeadlocked
<1> QED BY <1>2, <1>3, <1>4, <1>5, <1>6, ActorAssumption DEF Step, BookingFirst

LEMMA OrderStep ==
  ASSUME TypeInv, OrderInv, [Next]_vars
  PROVE  OrderInv'
<1> SUFFICES ASSUME NEW a \in BookingFirst
             PROVE  Orderly(a)'
  BY DEF OrderInv
<1>1. a \in Actors
  BY DEF BookingFirst, Actors
<1>2. CASE Step(a)
  BY <1>2, OwnOrderly
<1>3. ASSUME job'[a] = job[a],
             \A l \in locks : l.by = a => l \in locks',
             \A l \in locks' : l.by = a => l \in locks
      PROVE  Orderly(a)'
  BY <1>3 DEF OrderInv, Orderly, WorksOn, Holds, PaymentsOf
<1>4. ASSUME NEW c \in Actors, c # a, Step(c)
      PROVE  Orderly(a)'
  <2>1. OnlyOwn(c)
    BY <1>4, StepOwn DEF TypeInv, TypeOK
  <2> QED BY <1>1, <1>3, <1>4, <2>1 DEF OnlyOwn
<1>5. CASE World \/ UNCHANGED vars
  BY <1>3, <1>5 DEF World, CompleteCheckout, PayCheckout, LapseHold, vars
<1> QED BY <1>2, <1>4, <1>5 DEF Next

LEMMA WorksOnBooking ==
  ASSUME TypeInv, NEW a \in BookingFirst, job[a].at # "idle"
  PROVE  WorksOn(a) \in Bookings
BY LinkAssumption, ActorAssumption DEF WorksOn, BookingFirst, Actors, TypeInv, SubjectsFit

(* Such an actor waits for its booking, and then for payments of the booking *)
(* or for the tenant; an expirer has the tenant when it waits for payments.  *)
LEMMA NeedsOrdered ==
  ASSUME TypeInv, NEW a \in BookingFirst, NEW n \in Needs(a)
  PROVE  \/ job[a].at = "lock" /\ n.row = WorksOn(a)
         \/ job[a].at \notin {"idle", "lock"} /\ n.row \in PaymentsOf(WorksOn(a))
         \/ /\ job[a].at \notin {"idle", "lock"} /\ n.row = Client
            /\ ~(a \in Expirers /\ job[a].at = "write")
<1> USE DEF Need
<1>1. CASE a \in Reconcilers
  <2>1. n \in ReconcilerNeeds(a)
    BY <1>1, ActorAssumption DEF Needs
  <2>2. job[a].at # "idle" => SessionPayment[job[a].on] \in Payments
    BY <1>1, LinkAssumption DEF TypeInv, SubjectsFit, Actors
  <2> DEFINE p == SessionPayment[job[a].on]
  <2>3. WorksOn(a) = BookingOf[p]
    BY <1>1 DEF WorksOn
  <2>4. \/ job[a].at = "lock" /\ n = [row |-> BookingOf[p], mode |-> "update"]
        \/ job[a].at = "apply" /\ n = [row |-> p, mode |-> "update"]
    BY <2>1 DEF ReconcilerNeeds
  <2> HIDE DEF p
  <2>5. CASE job[a].at = "lock"
    BY <2>3, <2>4, <2>5
  <2>6. CASE job[a].at = "apply"
    <3>1. p \in Payments
      BY <2>2, <2>6 DEF p
    <3> QED BY <2>3, <2>4, <2>6, <3>1 DEF PaymentsOf
  <2> QED BY <2>4, <2>5, <2>6
<1>2. CASE a \in Cancellers
  <2>1. n \in CancellerNeeds(a) /\ WorksOn(a) = job[a].on
    BY <1>2, ActorAssumption DEF Needs, WorksOn
  <2>2. CASE job[a].at = "lock"
    BY <2>1, <2>2 DEF CancellerNeeds
  <2>3. CASE job[a].at = "lockPayment"
    <3>1. PICK p \in Unlocked(a) : n = [row |-> p, mode |-> "update"]
      BY <2>1, <2>3 DEF CancellerNeeds
    <3>2. p \in PaymentsOf(WorksOn(a))
      BY <2>1 DEF Unlocked, PresentPayments
    <3> QED BY <2>3, <3>1, <3>2
  <2>4. job[a].at \in {"lock", "lockPayment"}
    BY <2>1 DEF CancellerNeeds
  <2> QED BY <2>2, <2>3, <2>4
<1>3. CASE a \in Expirers
  <2>1. n \in ExpirerNeeds(a) /\ WorksOn(a) = job[a].on
    BY <1>3, ActorAssumption DEF Needs, WorksOn
  <2> QED BY <2>1 DEF ExpirerNeeds, Invalidated
<1>4. CASE a \in Clerks
  <2>1. n \in ClerkNeeds(a) /\ WorksOn(a) = BookingOf[job[a].on]
    BY <1>4, ActorAssumption DEF Needs, WorksOn
  <2> QED BY <1>4, <2>1, ActorAssumption DEF ClerkNeeds
<1> QED BY <1>1, <1>2, <1>3, <1>4 DEF BookingFirst

(* No ring of transactions that all lock their booking first: none of them   *)
(* waits for a payment one of them holds, so the tenant's holder waits for   *)
(* none of them, and then no booking's holder does.                          *)
LEMMA BookingFirstNoRing ==
  ASSUME TypeInv, Exclusive, OrderInv, NEW D \in SUBSET BookingFirst, Deadlocked(D)
  PROVE  FALSE
<1>1. \A a \in D : \E n \in Needs(a), c \in D : \E l \in locks :
        l.by = c /\ c # a /\ l.row = n.row
  <2> SUFFICES ASSUME NEW a \in D
               PROVE  \E n \in Needs(a), c \in D : \E l \in locks :
                        l.by = c /\ c # a /\ l.row = n.row
    OBVIOUS
  <2>1. PICK c \in D : c \in WaitsFor(a)
    BY DEF Deadlocked
  <2>2. PICK n \in Needs(a) : c \in Blockers(a, n)
    BY <2>1 DEF WaitsFor
  <2>3. \E l \in locks : l.by = c /\ c # a /\ l.row = n.row
    BY <2>2 DEF Blockers
  <2> QED BY <2>3
<1>2. ASSUME NEW a \in D, NEW n \in Needs(a), NEW c \in D, NEW l \in locks,
             l.by = c, c # a, l.row = n.row, job[a].at # "lock",
             n.row \in PaymentsOf(WorksOn(a))
      PROVE  FALSE
  <2>1. Orderly(c) /\ job[c].at \notin {"idle", "lock"}
    BY <1>2 DEF OrderInv, Orderly
  <2>2. l.row \in Payments /\ l.row # Client /\ WorksOn(c) \in Bookings /\ l.row # WorksOn(c)
    BY <1>2, <2>1, RowAssumption, WorksOnBooking DEF PaymentsOf
  <2>3. l.row \in PaymentsOf(WorksOn(c))
    BY <1>2, <2>1, <2>2 DEF Orderly
  <2>4. WorksOn(a) = WorksOn(c)
    BY <1>2, <2>3 DEF PaymentsOf
  <2>5. Holds(a, WorksOn(a)) /\ Holds(c, WorksOn(c))
    BY <1>2, <2>1, NeedsOrdered DEF OrderInv, Orderly
  <2> QED BY <1>2, <2>4, <2>5 DEF Exclusive, Holds, Conflicting
<1>3. ASSUME NEW a \in D, NEW n \in Needs(a), NEW c \in D, NEW l \in locks,
             l.by = c, c # a, l.row = n.row, job[a].at # "lock", n.row = Client
      PROVE  FALSE
  <2>1. Orderly(c) /\ job[c].at \notin {"idle", "lock"}
    BY <1>3 DEF OrderInv, Orderly
  <2>2. WorksOn(c) \in Bookings
    BY <2>1, WorksOnBooking
  <2>3. c \in Expirers /\ job[c].at = "write"
    BY <1>3, <2>1, <2>2, RowAssumption DEF Orderly, PaymentsOf
  <2>4. PICK m \in Needs(c), d \in D : \E k \in locks : k.by = d /\ d # c /\ k.row = m.row
    BY <1>1
  <2>5. m.row \in PaymentsOf(WorksOn(c))
    BY <2>3, NeedsOrdered
  <2> QED BY <1>2, <2>3, <2>4, <2>5
<1>4. ASSUME NEW c \in D, job[c].at # "lock"
      PROVE  FALSE
  <2>1. PICK n \in Needs(c), d \in D : \E l \in locks : l.by = d /\ d # c /\ l.row = n.row
    BY <1>1
  <2> QED BY <1>2, <1>3, <1>4, <2>1, NeedsOrdered
<1>5. PICK a \in D : TRUE
  BY DEF Deadlocked
<1>6. PICK n \in Needs(a), c \in D : \E l \in locks : l.by = c /\ c # a /\ l.row = n.row
  BY <1>1
<1>7. job[c].at # "lock"
  BY <1>6 DEF OrderInv, Orderly
<1> QED BY <1>4, <1>7

(* Every ring of waiting transactions has a webhook or a link service in it. *)
RingsNeedHooks ==
  \A D \in SUBSET Actors :
    Deadlocked(D) => D \cap (Hooks \cup LinkMakers \cup LinkCancellers) # {}

(* Reconcilers, cancellations, the expiry worker and clerks never deadlock   *)
(* among themselves: they all lock the booking first, and the tenant before  *)
(* payments.  Every ring has a webhook in it, whose claim takes share locks  *)
(* it strengthens later, or a link service, which locks the payment first.   *)
THEOREM DesksNeverRing == Spec => []RingsNeedHooks
<1>1. Init => OrderInv
  BY DEF Init, StoreInit, OrderInv, Orderly, BookingFirst, Actors, Idle
<1>2. TypeInv /\ LockInv /\ OrderInv => RingsNeedHooks
  <2> SUFFICES ASSUME TypeInv, LockInv, OrderInv, NEW D \in SUBSET Actors, Deadlocked(D),
                      D \cap (Hooks \cup LinkMakers \cup LinkCancellers) = {}
               PROVE  FALSE
    BY DEF RingsNeedHooks
  <2>1. D \in SUBSET BookingFirst
    BY DEF Actors, BookingFirst
  <2> QED BY <2>1, BookingFirstNoRing DEF LockInv
<1> QED BY <1>1, <1>2, OrderStep, TypeInvariance, LocksExclude, PTL DEF Spec
=============================================================================
