--------------------------- MODULE BookingMoneyTypes ------------------------
(* Type correctness of the money spine, for every set of rows, sessions,     *)
(* events and actors.                                                        *)
EXTENDS BookingMoney, TLAPS

(* Each kind of actor works on rows of its own kind.                         *)
SubjectsFit ==
  \A a \in Actors : job[a].at # "idle" =>
    /\ a \in Hooks => job[a].on \in Events
    /\ a \in Reconcilers \cup LinkMakers => job[a].on \in Sessions
    /\ a \in Cancellers \cup Expirers => job[a].on \in Bookings
    /\ a \in LinkCancellers => job[a].on \in Payments
    /\ a \in Clerks => job[a].on \in CashPayments

TypeInv == TypeOK /\ SubjectsFit

-----------------------------------------------------------------------------
(* The helpers of MoneyStore.                                                *)

(* An event is about a payment, and through it about a booking.              *)
LEMMA EventTyped ==
  ASSUME NEW e \in Events
  PROVE  /\ EventSession[e] \in Sessions
         /\ EventPayment(e) \in Payments
         /\ EventBooking(e) \in Bookings
         /\ BookingOf[EventPayment(e)] \in Bookings
BY LinkAssumption DEF EventPayment, EventBooking

(* Locking adds rows of the tables under the name of the actor.              *)
LEMMA LockTyped ==
  ASSUME LocksTyped, NEW a \in Actors,
         NEW needs \in SUBSET [row : Rows, mode : Modes], Lock(a, needs)
  PROVE  LocksTyped'
BY DEF LocksTyped, Lock

LEMMA UnlockTyped ==
  ASSUME LocksTyped, NEW a \in Actors, Unlock(a)
  PROVE  LocksTyped'
BY DEF LocksTyped, Unlock

(* An actor that goes to its next step keeps its subject.                    *)
LEMMA GoTyped ==
  ASSUME JobsTyped, SubjectsFit, NEW a \in Actors, job[a].at # "idle",
         NEW step \in Steps, NEW late \in BOOLEAN,
         job' = [job EXCEPT ![a].at = step, ![a].late = late]
  PROVE  JobsTyped' /\ SubjectsFit'
BY DEF JobsTyped, SubjectsFit

LEMMA StepTyped ==
  ASSUME JobsTyped, SubjectsFit, NEW a \in Actors, job[a].at # "idle",
         NEW step \in Steps, Go(a, step)
  PROVE  JobsTyped' /\ SubjectsFit'
BY DEF JobsTyped, SubjectsFit, Go

LEMMA FinishTyped ==
  ASSUME LocksTyped, JobsTyped, SubjectsFit, NEW a \in Actors, Finish(a)
  PROVE  LocksTyped' /\ JobsTyped' /\ SubjectsFit'
BY UnlockTyped DEF JobsTyped, SubjectsFit, Finish, Idle, Steps, Subjects

(* An idle actor that begins a job begins it on a subject of its own kind.   *)
LEMMA StartTyped ==
  ASSUME JobsTyped, SubjectsFit, NEW a \in Actors, NEW step \in Steps,
         NEW subject \in Subjects, NEW late \in BOOLEAN,
         Start(a, step, subject, late),
         /\ a \in Hooks => subject \in Events
         /\ a \in Reconcilers \cup LinkMakers => subject \in Sessions
         /\ a \in Cancellers \cup Expirers => subject \in Bookings
         /\ a \in LinkCancellers => subject \in Payments
         /\ a \in Clerks => subject \in CashPayments
  PROVE  JobsTyped' /\ SubjectsFit'
BY DEF JobsTyped, SubjectsFit, Start

(* A row lock in one of the three modes.                                     *)
LEMMA NeedTyped ==
  ASSUME NEW r \in Rows, NEW m \in Modes
  PROVE  Need(r, m) \in [row : Rows, mode : Modes]
BY DEF Need

-----------------------------------------------------------------------------
(* The writes of PaymentTruth.                                               *)

LEMMA PayStatusTyped ==
  ASSUME NEW kind, NEW total, NEW prev, NEW amount, NEW due
  PROVE  DerivePaymentState(kind, total, prev, amount, due).payStatus \in PayStatuses
BY DEF DerivePaymentState, PayStatuses

(* Overwriting an entry of a function leaves a function.                     *)
LEMMA OverwriteTyped ==
  ASSUME NEW S, NEW f, f = [x \in S |-> f[x]], NEW p, NEW v, NEW g, g = [f EXCEPT ![p] = v]
  PROVE  g = [x \in S |-> g[x]]
OBVIOUS

LEMMA RecordTyped ==
  ASSUME LedgerTyped, NEW p \in Payments, NEW s \in Sessions, NEW amount,
         NEW late \in BOOLEAN, RecordTruth(p, s, amount, late)
  PROVE  LedgerTyped'
<1> DEFINE b == BookingOf[p]
           ps == MoneyAfter(p, amount).payStatus
           st == IF PromotesToConfirmed(booking[b].status, late, ps, Sunset)
                   THEN "confirmed" ELSE booking[b].status
<1>1. b \in Bookings
  BY LinkAssumption
<1>2. ps \in PayStatuses
  BY PayStatusTyped DEF MoneyAfter
<1>3. st \in BookingStatuses
  BY <1>1 DEF LedgerTyped, BookingRow, BookingStatuses
<1>4. booking' \in [Bookings -> BookingRow]
  <2>1. booking' = [booking EXCEPT ![b].payStatus = ps, ![b].status = st]
    BY DEF RecordTruth
  <2> HIDE DEF ps, st, b
  <2> QED BY <1>1, <1>2, <1>3, <2>1 DEF LedgerTyped, BookingRow
<1>5. payment' \in [Payments -> PaymentRow]
  BY DEF RecordTruth, LedgerTyped, PaymentRow, PaymentStatuses
<1>6. /\ bookingPaid' = [bookingPaid EXCEPT ![b] = MoneyAfter(p, amount).paid]
      /\ paymentPaid' = [paymentPaid EXCEPT ![p] = amount]
  BY DEF RecordTruth
<1>7. /\ bookingPaid' = [c \in Bookings |-> bookingPaid'[c]]
      /\ paymentPaid' = [q \in Payments |-> paymentPaid'[q]]
  BY <1>6, OverwriteTyped DEF LedgerTyped
<1>8. guestPaid' = [g \in Guests |-> guestPaid'[g]]
  BY DEF RecordTruth, GuestPaidWith
<1> QED BY <1>4, <1>5, <1>7, <1>8 DEF LedgerTyped

LEMMA RepairTyped ==
  ASSUME LedgerTyped, NEW p \in Payments, RepairTruth(p)
  PROVE  LedgerTyped'
<1>1. booking' \in [Bookings -> BookingRow]
  <2>1. "confirmed" \in BookingStatuses
    BY DEF BookingStatuses
  <2>2. booking' = booking \/ booking' = [booking EXCEPT ![BookingOf[p]].status = "confirmed"]
    BY DEF RepairTruth
  <2> QED BY <2>1, <2>2, LinkAssumption DEF LedgerTyped, BookingRow
<1>2. guestPaid' = [g \in Guests |-> guestPaid'[g]]
  BY DEF RepairTruth, LedgerTyped, GuestPaidWith
<1> QED BY <1>1, <1>2 DEF RepairTruth, LedgerTyped

-----------------------------------------------------------------------------
(* One lemma per kind of actor, one step per action.                         *)

LEMMA HookTyped ==
  ASSUME TypeInv, NEW h \in Hooks, HookNext(h)
  PROVE  TypeInv'
<1> USE DEF TypeInv, TypeOK
<1> DEFINE e == job[h].on
<1>1. h \in Actors
  BY DEF Actors
<1>2. ASSUME job[h].at # "idle"
      PROVE  /\ e \in Events
             /\ EventSession[e] \in Sessions
             /\ EventPayment(e) \in Payments
             /\ EventBooking(e) \in Bookings
             /\ BookingOf[EventPayment(e)] \in Bookings
             /\ job[h].late \in BOOLEAN
             /\ lapsed[EventBooking(e)] \in BOOLEAN
  BY <1>1, <1>2, EventTyped DEF SubjectsFit, JobsTyped, WorldTyped
<1>3. ASSUME NEW d \in Events, Receive(h, d)
      PROVE  TypeInv'
  <2>1. lapsed[BookingOf[EventPayment(d)]] \in BOOLEAN
    BY EventTyped DEF WorldTyped
  <2>2. Start(h, "claim", d, lapsed[BookingOf[EventPayment(d)]])
    BY <1>3 DEF Receive
  <2>3. JobsTyped' /\ SubjectsFit'
    BY <1>1, <2>1, <2>2, StartTyped, ActorAssumption DEF Steps, Subjects
  <2> QED BY <1>3, <2>3 DEF Receive, ledger, amounts, stripe, LedgerTyped, LocksTyped, WorldTyped
<1>4. CASE Claim(h)
  <2>1. job[h].at # "idle"
    BY <1>4 DEF Claim
  <2>2. {Need(e, "update"), Need(Client, "keyshare")} \in SUBSET [row : Rows, mode : Modes]
    BY <1>2, <2>1, NeedTyped DEF Rows, Modes
  <2>3. LocksTyped'
    BY <1>1, <1>4, <2>2, LockTyped DEF Claim
  <2>4. PICK late \in LapseSeen(h, EventBooking(e)) :
          job' = [job EXCEPT ![h].at = "sharePayment", ![h].late = late]
    BY <1>4 DEF Claim
  <2>5. JobsTyped' /\ SubjectsFit'
    BY <1>1, <1>2, <2>1, <2>4, GoTyped DEF LapseSeen, Steps
  <2> QED BY <1>4, <2>3, <2>5 DEF Claim, ledger, amounts, stripe, LedgerTyped, WorldTyped
<1>5. CASE ClaimDuplicate(h)
  <2>1. job[h].at # "idle"
    BY <1>5 DEF ClaimDuplicate
  <2>2. LocksTyped' /\ JobsTyped' /\ SubjectsFit'
    BY <1>1, <1>5, <2>1, FinishTyped, StepTyped DEF ClaimDuplicate, Steps, LocksTyped
  <2>3. WorldTyped'
    BY <1>5 DEF ClaimDuplicate, Ack, WorldTyped
  <2> QED BY <1>5, <2>2, <2>3 DEF ClaimDuplicate, ledger, amounts, LedgerTyped
<1>6. CASE SharePayment(h)
  <2>1. job[h].at # "idle"
    BY <1>6 DEF SharePayment
  <2>2. {Need(EventPayment(e), "keyshare")} \in SUBSET [row : Rows, mode : Modes]
    BY <1>2, <2>1, NeedTyped DEF Rows, Modes
  <2>3. LocksTyped' /\ JobsTyped' /\ SubjectsFit'
    BY <1>1, <1>6, <2>1, <2>2, LockTyped, StepTyped DEF SharePayment, Steps
  <2> QED BY <1>6, <2>3 DEF SharePayment, ledger, amounts, stripe, LedgerTyped, WorldTyped
<1>7. CASE ShareBooking(h)
  <2>1. job[h].at # "idle"
    BY <1>7 DEF ShareBooking
  <2>2. {Need(EventBooking(e), "keyshare")} \in SUBSET [row : Rows, mode : Modes]
    BY <1>2, <2>1, NeedTyped DEF Rows, Modes
  <2>3. LocksTyped' /\ JobsTyped' /\ SubjectsFit'
    BY <1>1, <1>7, <2>1, <2>2, LockTyped, StepTyped DEF ShareBooking, Steps
  <2> QED BY <1>7, <2>3 DEF ShareBooking, ledger, amounts, stripe, LedgerTyped, WorldTyped
<1>8. CASE LockBooking(h)
  <2>1. job[h].at # "idle"
    BY <1>8 DEF LockBooking
  <2>2. {Need(EventBooking(e), "update")} \in SUBSET [row : Rows, mode : Modes]
    BY <1>2, <2>1, NeedTyped DEF Rows, Modes
  <2>3. LocksTyped' /\ JobsTyped' /\ SubjectsFit'
    BY <1>1, <1>8, <2>1, <2>2, LockTyped, StepTyped DEF LockBooking, Steps
  <2> QED BY <1>8, <2>3 DEF LockBooking, ledger, amounts, stripe, LedgerTyped, WorldTyped
<1>9. ASSUME job[h].at # "idle", NEW auto \in BOOLEAN,
             Committed(h, auto) \/ CommitUnknown(h),
             claimed' \subseteq Events, notified' = notified,
             UNCHANGED <<checkout, lapsed>>
      PROVE  LocksTyped' /\ JobsTyped' /\ SubjectsFit' /\ WorldTyped'
  <2>1. LocksTyped' /\ JobsTyped' /\ SubjectsFit'
    BY <1>1, <1>9, FinishTyped, UnlockTyped, StepTyped DEF Committed, CommitUnknown, Steps
  <2>2. delivery' \in [Events -> {"none", "due", "acked"}]
    BY <1>9 DEF Committed, CommitUnknown, Ack, WorldTyped
  <2>3. failures' \in 0 .. MaxFailures
    BY <1>9, LinkAssumption DEF Committed, CommitUnknown, WorldTyped
  <2> QED BY <1>9, <2>1, <2>2, <2>3 DEF WorldTyped
<1>10. CASE ApplyRecord(h)
  <2>1. job[h].at # "idle"
    BY <1>10 DEF ApplyRecord, AtPayment
  <2>2. RecordTruth(EventPayment(e), EventSession[e], FullAmount(EventPayment(e)), job[h].late)
    BY <1>10 DEF ApplyRecord
  <2>3. LedgerTyped'
    BY <1>2, <2>1, <2>2, RecordTyped
  <2>4. AutoConfirms(EventPayment(e), FullAmount(EventPayment(e)), job[h].late) \in BOOLEAN
    BY DEF AutoConfirms, AllowsAutoConfirmation
  <2>5. claimed' \subseteq Events
    BY <1>2, <1>10, <2>1 DEF ApplyRecord, WorldTyped
  <2>6. LocksTyped' /\ JobsTyped' /\ SubjectsFit' /\ WorldTyped'
    BY <1>9, <1>10, <2>1, <2>4, <2>5 DEF ApplyRecord
  <2> QED BY <2>3, <2>6
<1>11. CASE ApplySettled(h)
  <2>1. job[h].at # "idle"
    BY <1>11 DEF ApplySettled, AtPayment
  <2>2. LedgerTyped'
    BY <1>2, <1>11, <2>1, RepairTyped DEF ApplySettled
  <2>3. LocksTyped' /\ JobsTyped' /\ SubjectsFit'
    BY <1>1, <1>11, <2>1, UnlockTyped, StepTyped DEF ApplySettled, Steps
  <2>4. WorldTyped'
    BY <1>2, <1>11, <2>1 DEF ApplySettled, stripe, WorldTyped
  <2> QED BY <2>2, <2>3, <2>4
<1>12. CASE ApplyReject(h)
  BY <1>1, <1>12, FinishTyped
  DEF ApplyReject, Ack, ledger, amounts, LedgerTyped, WorldTyped
<1>13. CASE LockAgain(h)
  <2>1. job[h].at # "idle"
    BY <1>13 DEF LockAgain
  <2>2. {Need(EventBooking(e), "update")} \in SUBSET [row : Rows, mode : Modes]
    BY <1>2, <2>1, NeedTyped DEF Rows, Modes
  <2>3. PICK late \in LapseSeen(h, EventBooking(e)) :
          job' = [job EXCEPT ![h].at = "reapply", ![h].late = late]
    BY <1>13 DEF LockAgain
  <2>4. LocksTyped' /\ JobsTyped' /\ SubjectsFit'
    BY <1>1, <1>2, <1>13, <2>1, <2>2, <2>3, LockTyped, GoTyped DEF LockAgain, LapseSeen, Steps
  <2> QED BY <1>13, <2>4 DEF LockAgain, ledger, amounts, stripe, LedgerTyped, WorldTyped
<1>14. CASE Reapply(h)
  <2>1. job[h].at # "idle"
    BY <1>14 DEF Reapply, AtPayment
  <2>2. LedgerTyped'
    BY <1>2, <1>14, <2>1, RepairTyped, RecordTyped DEF Reapply, ledger, amounts, LedgerTyped
  <2>3. LocksTyped' /\ JobsTyped' /\ SubjectsFit'
    BY <1>1, <1>14, FinishTyped DEF Reapply
  <2>4. WorldTyped'
    BY <1>14 DEF Reapply, Ack, WorldTyped
  <2> QED BY <2>2, <2>3, <2>4
<1>15. CASE Notify(h)
  <2>1. job[h].at # "idle"
    BY <1>15 DEF Notify
  <2>2. JobsTyped' /\ SubjectsFit'
    BY <1>1, <1>15 DEF Notify, JobsTyped, SubjectsFit, Idle, Steps, Subjects
  <2>3. WorldTyped'
    BY <1>2, <1>15, <2>1 DEF Notify, Ack, WorldTyped
  <2> QED BY <1>15, <2>2, <2>3 DEF Notify, ledger, amounts, LedgerTyped, LocksTyped
<1>16. CASE AddonLock(h)
  <2>1. job[h].at # "idle"
    BY <1>16 DEF AddonLock
  <2>2. {Need(EventPayment(e), "update")} \in SUBSET [row : Rows, mode : Modes]
    BY <1>2, <2>1, NeedTyped DEF Rows, Modes
  <2>3. LocksTyped' /\ JobsTyped' /\ SubjectsFit'
    BY <1>1, <1>16, <2>1, <2>2, LockTyped, StepTyped DEF AddonLock, Steps
  <2> QED BY <1>16, <2>3 DEF AddonLock, ledger, amounts, stripe, LedgerTyped, WorldTyped
<1>17. CASE AddonSettled(h)
  <2>1. job[h].at # "idle"
    BY <1>17 DEF AddonSettled, AtPayment
  <2>2. claimed' \subseteq Events
    BY <1>2, <1>17, <2>1 DEF AddonSettled, WorldTyped
  <2>3. LocksTyped' /\ JobsTyped' /\ SubjectsFit' /\ WorldTyped'
    BY <1>9, <1>17, <2>1, <2>2 DEF AddonSettled
  <2> QED BY <1>17, <2>3 DEF AddonSettled, ledger, amounts, LedgerTyped
<1>18. CASE AddonRecord(h)
  <2>1. job[h].at # "idle"
    BY <1>18 DEF AddonRecord
  <2>2. claimed' \subseteq Events
    BY <1>2, <1>18, <2>1 DEF AddonRecord, WorldTyped
  <2>3. LocksTyped' /\ JobsTyped' /\ SubjectsFit' /\ WorldTyped'
    BY <1>9, <1>18, <2>1, <2>2 DEF AddonRecord
  <2>4. payment' \in [Payments -> PaymentRow]
    BY <1>18 DEF AddonRecord, LedgerTyped, PaymentRow, PaymentStatuses
  <2>5. paymentPaid' = [paymentPaid EXCEPT ![EventPayment(e)] = FullAmount(EventPayment(e))]
    BY <1>18 DEF AddonRecord
  <2>6. paymentPaid' = [q \in Payments |-> paymentPaid'[q]]
    BY <2>5, OverwriteTyped DEF LedgerTyped
  <2> QED BY <1>18, <2>3, <2>4, <2>6 DEF AddonRecord, LedgerTyped
<1>19. CASE AddonRaise(h)
  BY <1>1, <1>19, FinishTyped
  DEF AddonRaise, ledger, amounts, stripe, LedgerTyped, WorldTyped
<1> QED
  BY <1>3, <1>4, <1>5, <1>6, <1>7, <1>8, <1>10, <1>11, <1>12, <1>13, <1>14, <1>15,
     <1>16, <1>17, <1>18, <1>19 DEF HookNext, HookStep

LEMMA ReconcilerTyped ==
  ASSUME TypeInv, NEW r \in Reconcilers, ReconcilerNext(r)
  PROVE  TypeInv'
<1> USE DEF TypeInv, TypeOK
<1> DEFINE s == job[r].on
           p == SessionPayment[s]
<1>1. r \in Actors
  BY DEF Actors
<1>2. ASSUME job[r].at # "idle"
      PROVE  s \in Sessions /\ p \in Payments /\ BookingOf[p] \in Bookings
  BY <1>1, <1>2, LinkAssumption DEF SubjectsFit
<1>3. ASSUME NEW t \in Sessions, Pull(r, t)
      PROVE  TypeInv'
  <2>1. lapsed[BookingOf[SessionPayment[t]]] \in BOOLEAN
    BY LinkAssumption DEF WorldTyped
  <2>2. Start(r, "lock", t, lapsed[BookingOf[SessionPayment[t]]])
    BY <1>3 DEF Pull
  <2>3. JobsTyped' /\ SubjectsFit'
    BY <1>1, <2>1, <2>2, StartTyped, ActorAssumption DEF Steps, Subjects
  <2> QED BY <1>3, <2>3 DEF Pull, ledger, amounts, stripe, LedgerTyped, LocksTyped, WorldTyped
<1>4. CASE PullLock(r)
  <2>1. job[r].at # "idle"
    BY <1>4 DEF PullLock
  <2>2. {Need(BookingOf[p], "update")} \in SUBSET [row : Rows, mode : Modes]
    BY <1>2, <2>1, NeedTyped DEF Rows, Modes
  <2>3. PICK late \in {job[r].late, lapsed[BookingOf[p]]} :
          job' = [job EXCEPT ![r].at = "apply", ![r].late = late]
    BY <1>4 DEF PullLock
  <2>4. late \in BOOLEAN
    BY <1>1, <1>2, <2>1 DEF JobsTyped, WorldTyped
  <2>5. LocksTyped' /\ JobsTyped' /\ SubjectsFit'
    BY <1>1, <1>4, <2>1, <2>2, <2>3, <2>4, LockTyped, GoTyped DEF PullLock, Steps
  <2> QED BY <1>4, <2>5 DEF PullLock, ledger, amounts, stripe, LedgerTyped, WorldTyped
<1>5. CASE PullApply(r)
  <2>1. job[r].at # "idle"
    BY <1>5 DEF PullApply
  <2>2. job[r].late \in BOOLEAN
    BY <1>1 DEF JobsTyped
  <2>3. LedgerTyped'
    BY <1>2, <1>5, <2>1, <2>2, RepairTyped, RecordTyped DEF PullApply, ledger, amounts, LedgerTyped
  <2>4. LocksTyped' /\ JobsTyped' /\ SubjectsFit'
    BY <1>1, <1>5, FinishTyped DEF PullApply
  <2> QED BY <1>5, <2>3, <2>4 DEF PullApply, stripe, WorldTyped
<1> QED BY <1>3, <1>4, <1>5 DEF ReconcilerNext, ReconcilerStep

LEMMA CancellerTyped ==
  ASSUME TypeInv, NEW c \in Cancellers, CancellerNext(c)
  PROVE  TypeInv'
<1> USE DEF TypeInv, TypeOK
<1> DEFINE b == job[c].on
<1>1. c \in Actors
  BY DEF Actors
<1>2. ASSUME job[c].at # "idle"
      PROVE  b \in Bookings
  BY <1>1, <1>2 DEF SubjectsFit
<1>3. ASSUME NEW d \in Bookings, Cancel(c, d)
      PROVE  TypeInv'
  <2>1. JobsTyped' /\ SubjectsFit'
    BY <1>1, <1>3, StartTyped, ActorAssumption DEF Cancel, Steps, Subjects
  <2> QED BY <1>3, <2>1 DEF Cancel, ledger, amounts, stripe, LedgerTyped, LocksTyped, WorldTyped
<1>4. CASE CancelLock(c)
  <2>1. job[c].at # "idle"
    BY <1>4 DEF CancelLock
  <2>2. {Need(b, "update")} \in SUBSET [row : Rows, mode : Modes]
    BY <1>2, <2>1, NeedTyped DEF Rows, Modes
  <2>3. LocksTyped' /\ JobsTyped' /\ SubjectsFit'
    BY <1>1, <1>4, <2>1, <2>2, LockTyped, StepTyped DEF CancelLock, Steps
  <2> QED BY <1>4, <2>3 DEF CancelLock, ledger, amounts, stripe, LedgerTyped, WorldTyped
<1>5. CASE CancelLockPayment(c)
  <2>1. PICK p \in Unlocked(c) : Lock(c, {Need(p, "update")})
    BY <1>5 DEF CancelLockPayment
  <2>2. {Need(p, "update")} \in SUBSET [row : Rows, mode : Modes]
    BY NeedTyped DEF Unlocked, PresentPayments, PaymentsOf, Rows, Modes
  <2>3. LocksTyped'
    BY <1>1, <2>1, <2>2, LockTyped
  <2> QED BY <1>5, <2>3
          DEF CancelLockPayment, ledger, amounts, stripe, LedgerTyped, JobsTyped, SubjectsFit, WorldTyped
<1>6. CASE CancelCommit(c)
  <2>1. LocksTyped' /\ JobsTyped' /\ SubjectsFit'
    BY <1>1, <1>6, FinishTyped DEF CancelCommit
  <2>2. booking' \in [Bookings -> BookingRow]
    BY <1>6 DEF CancelCommit, LedgerTyped, BookingRow, BookingStatuses
  <2>3. payment' \in [Payments -> PaymentRow]
    BY <1>6 DEF CancelCommit, Retired, LedgerTyped, PaymentRow, PaymentStatuses
  <2> QED BY <1>6, <2>1, <2>2, <2>3 DEF CancelCommit, amounts, stripe, LedgerTyped, WorldTyped
<1>7. CASE CancelRefuse(c)
  BY <1>1, <1>7, FinishTyped
  DEF CancelRefuse, ledger, amounts, stripe, LedgerTyped, WorldTyped
<1> QED BY <1>3, <1>4, <1>5, <1>6, <1>7 DEF CancellerNext, CancellerStep

LEMMA ExpirerTyped ==
  ASSUME TypeInv, NEW x \in Expirers, ExpirerNext(x)
  PROVE  TypeInv'
<1> USE DEF TypeInv, TypeOK
<1> DEFINE b == job[x].on
<1>1. x \in Actors
  BY DEF Actors
<1>2. ASSUME job[x].at # "idle"
      PROVE  b \in Bookings
  BY <1>1, <1>2 DEF SubjectsFit
<1>3. ASSUME NEW d \in Bookings, PickHold(x, d)
      PROVE  TypeInv'
  <2>1. JobsTyped' /\ SubjectsFit'
    BY <1>1, <1>3, StartTyped, ActorAssumption DEF PickHold, Steps, Subjects
  <2> QED BY <1>3, <2>1 DEF PickHold, ledger, amounts, stripe, LedgerTyped, LocksTyped, WorldTyped
<1>4. CASE HoldLock(x)
  <2>1. job[x].at # "idle"
    BY <1>4 DEF HoldLock
  <2>2. {Need(b, "update")} \in SUBSET [row : Rows, mode : Modes]
    BY <1>2, <2>1, NeedTyped DEF Rows, Modes
  <2>3. LocksTyped' /\ JobsTyped' /\ SubjectsFit'
    BY <1>1, <1>4, <2>1, <2>2, LockTyped, StepTyped DEF HoldLock, Steps
  <2> QED BY <1>4, <2>3 DEF HoldLock, ledger, amounts, stripe, LedgerTyped, WorldTyped
<1>5. CASE HoldLockClient(x)
  <2>1. job[x].at # "idle"
    BY <1>5 DEF HoldLockClient
  <2>2. {Need(Client, "update")} \in SUBSET [row : Rows, mode : Modes]
    BY NeedTyped DEF Rows, Modes
  <2>3. LocksTyped' /\ JobsTyped' /\ SubjectsFit'
    BY <1>1, <1>5, <2>1, <2>2, LockTyped, StepTyped DEF HoldLockClient, Steps
  <2> QED BY <1>5, <2>3 DEF HoldLockClient, ledger, amounts, stripe, LedgerTyped, WorldTyped
<1>6. CASE ExpireHold(x)
  <2>1. LocksTyped' /\ JobsTyped' /\ SubjectsFit'
    BY <1>1, <1>6, FinishTyped DEF ExpireHold
  <2>2. booking' \in [Bookings -> BookingRow]
    BY <1>6 DEF ExpireHold, LedgerTyped, BookingRow, BookingStatuses
  <2>3. payment' \in [Payments -> PaymentRow]
    BY <1>6 DEF ExpireHold, LedgerTyped, PaymentRow
  <2> QED BY <1>6, <2>1, <2>2, <2>3 DEF ExpireHold, amounts, stripe, LedgerTyped, WorldTyped
<1>7. CASE SkipHold(x)
  BY <1>1, <1>7, FinishTyped
  DEF SkipHold, ledger, amounts, stripe, LedgerTyped, WorldTyped
<1> QED BY <1>3, <1>4, <1>5, <1>6, <1>7 DEF ExpirerNext, ExpirerStep

(* The first half of both UPDATEs of PaymentLinks.                           *)
LEMMA LinkLockTyped ==
  ASSUME TypeInv, NEW a \in LinkMakers \cup LinkCancellers, LinkLockPayment(a)
  PROVE  TypeInv'
<1> USE DEF TypeInv, TypeOK
<1>1. a \in Actors /\ job[a].at # "idle"
  BY DEF Actors, LinkLockPayment
<1>2. LinkedPayment(a) \in Payments
  BY <1>1, LinkAssumption DEF LinkedPayment, SubjectsFit
<1>3. {Need(LinkedPayment(a), "nokey")} \in SUBSET [row : Rows, mode : Modes]
  BY <1>2, NeedTyped DEF Rows, Modes
<1>4. LocksTyped' /\ JobsTyped' /\ SubjectsFit'
  BY <1>1, <1>3, LockTyped, StepTyped DEF LinkLockPayment, Steps
<1> QED BY <1>4 DEF LinkLockPayment, ledger, amounts, stripe, LedgerTyped, WorldTyped

LEMMA LinkMakerTyped ==
  ASSUME TypeInv, NEW m \in LinkMakers, LinkMakerNext(m)
  PROVE  TypeInv'
<1> USE DEF TypeInv, TypeOK
<1>1. m \in Actors
  BY DEF Actors
<1>2. ASSUME NEW s \in Sessions, MakeSession(m, s)
      PROVE  TypeInv'
  <2>1. JobsTyped' /\ SubjectsFit'
    BY <1>1, <1>2, StartTyped, ActorAssumption DEF MakeSession, Steps, Subjects
  <2> QED BY <1>2, <2>1 DEF MakeSession, ledger, amounts, LedgerTyped, LocksTyped, WorldTyped
<1>3. CASE AttachSession(m)
  <2>1. job[m].on \in Sessions
    BY <1>1, <1>3 DEF AttachSession, AtTrigger, SubjectsFit
  <2>2. LocksTyped' /\ JobsTyped' /\ SubjectsFit'
    BY <1>1, <1>3, FinishTyped DEF AttachSession
  <2>3. payment' \in [Payments -> PaymentRow]
    BY <1>3, <2>1 DEF AttachSession, LedgerTyped, PaymentRow, PaymentStatuses
  <2> QED BY <1>3, <2>2, <2>3 DEF AttachSession, amounts, LedgerTyped, WorldTyped
<1>4. CASE AttachRaise(m)
  BY <1>1, <1>4, FinishTyped DEF AttachRaise, ledger, amounts, LedgerTyped, WorldTyped
<1> QED BY <1>2, <1>3, <1>4, LinkLockTyped DEF LinkMakerNext, LinkMakerStep

LEMMA LinkCancellerTyped ==
  ASSUME TypeInv, NEW k \in LinkCancellers, LinkCancellerNext(k)
  PROVE  TypeInv'
<1> USE DEF TypeInv, TypeOK
<1>1. k \in Actors
  BY DEF Actors
<1>2. ASSUME NEW p \in Payments, DropLink(k, p)
      PROVE  TypeInv'
  <2>1. JobsTyped' /\ SubjectsFit'
    BY <1>1, <1>2, StartTyped, ActorAssumption DEF DropLink, Steps, Subjects
  <2> QED BY <1>2, <2>1 DEF DropLink, ledger, amounts, stripe, LedgerTyped, LocksTyped, WorldTyped
<1>3. CASE DropCommit(k)
  <2>1. LocksTyped' /\ JobsTyped' /\ SubjectsFit'
    BY <1>1, <1>3, FinishTyped DEF DropCommit
  <2>2. payment' \in [Payments -> PaymentRow]
    BY <1>3 DEF DropCommit, LedgerTyped, PaymentRow, PaymentStatuses
  <2> QED BY <1>3, <2>1, <2>2 DEF DropCommit, amounts, stripe, LedgerTyped, WorldTyped
<1> QED BY <1>2, <1>3, LinkLockTyped DEF LinkCancellerNext, LinkCancellerStep

LEMMA ClerkTyped ==
  ASSUME TypeInv, NEW k \in Clerks, ClerkNext(k)
  PROVE  TypeInv'
<1> USE DEF TypeInv, TypeOK
<1> DEFINE p == job[k].on
           b == BookingOf[p]
<1>1. k \in Actors
  BY DEF Actors
<1>2. ASSUME job[k].at # "idle"
      PROVE  p \in Payments /\ b \in Bookings
  BY <1>1, <1>2, LinkAssumption DEF SubjectsFit
<1>3. ASSUME NEW q \in Payments, TakeCash(k, q)
      PROVE  TypeInv'
  <2>1. JobsTyped' /\ SubjectsFit'
    BY <1>1, <1>3, StartTyped, ActorAssumption DEF TakeCash, Steps, Subjects
  <2> QED BY <1>3, <2>1 DEF TakeCash, ledger, amounts, stripe, LedgerTyped, LocksTyped, WorldTyped
<1>4. CASE CashLock(k)
  <2>1. job[k].at # "idle"
    BY <1>4 DEF CashLock
  <2>2. {Need(b, "update")} \in SUBSET [row : Rows, mode : Modes]
    BY <1>2, <2>1, NeedTyped DEF Rows, Modes
  <2>3. LocksTyped' /\ JobsTyped' /\ SubjectsFit'
    BY <1>1, <1>4, <2>1, <2>2, LockTyped, StepTyped DEF CashLock, Steps
  <2> QED BY <1>4, <2>3 DEF CashLock, ledger, amounts, stripe, LedgerTyped, WorldTyped
<1>5. CASE CashRecord(k)
  <2> DEFINE sum == PaidElsewhere(b, p) + Due[p]
             ps  == IF Total[b] > 0 /\ sum >= Total[b] THEN "paid"
                    ELSE IF booking[b].payStatus = "not_requested" THEN "deposit_paid"
                    ELSE booking[b].payStatus
  <2>1. LocksTyped' /\ JobsTyped' /\ SubjectsFit'
    BY <1>1, <1>5, FinishTyped DEF CashRecord
  <2>2. p \in Payments /\ b \in Bookings
    BY <1>2, <1>5 DEF CashRecord
  <2>3. booking' \in [Bookings -> BookingRow]
    <3>1. booking' = [booking EXCEPT ![b].payStatus = ps]
      BY <1>5 DEF CashRecord
    <3>2. ps \in PayStatuses
      BY <2>2 DEF LedgerTyped, BookingRow, PayStatuses
    <3> HIDE DEF ps, b
    <3> QED BY <3>1, <3>2 DEF LedgerTyped, BookingRow
  <2>4. payment' \in [Payments -> PaymentRow]
    BY <1>5 DEF CashRecord, LedgerTyped, PaymentRow, PaymentStatuses
  <2>5. /\ paymentPaid' = [paymentPaid EXCEPT ![p] = Due[p]]
        /\ bookingPaid' = [bookingPaid EXCEPT ![b] = sum]
    BY <1>5 DEF CashRecord
  <2>6. /\ paymentPaid' = [q \in Payments |-> paymentPaid'[q]]
        /\ bookingPaid' = [c \in Bookings |-> bookingPaid'[c]]
    BY <2>5, OverwriteTyped DEF LedgerTyped
  <2>7. guestPaid' = [g \in Guests |-> guestPaid'[g]]
    BY <1>5 DEF CashRecord, GuestPaidWith
  <2>8. WorldTyped'
    BY <1>5 DEF CashRecord, stripe, WorldTyped
  <2> QED BY <2>1, <2>3, <2>4, <2>6, <2>7, <2>8 DEF LedgerTyped
<1>6. CASE CashReturn(k)
  BY <1>1, <1>6, FinishTyped
  DEF CashReturn, ledger, amounts, stripe, LedgerTyped, WorldTyped
<1> QED BY <1>3, <1>4, <1>5, <1>6 DEF ClerkNext, ClerkStep

(* A lost or aborted transaction, and the world outside.                     *)
LEMMA LostTyped ==
  ASSUME TypeInv, NEW a \in Actors, Fail(a) \/ AbortDeadlocked(a)
  PROVE  TypeInv'
<1> USE DEF TypeInv, TypeOK
<1>1. LocksTyped' /\ JobsTyped' /\ SubjectsFit'
  BY FinishTyped DEF Fail, AbortDeadlocked
<1>2. checkout' \in [Sessions -> {"unborn", "made", "open", "processing", "paid"}]
  BY DEF Fail, AbortDeadlocked, Surface, WorldTyped
<1>2a. delivery' \in [Events -> {"none", "due", "acked"}]
  BY DEF Fail, AbortDeadlocked, AnswerAborted, WorldTyped
<1>3. failures' \in 0 .. MaxFailures
  BY LinkAssumption DEF Fail, AbortDeadlocked, WorldTyped
<1> QED BY <1>1, <1>2, <1>2a, <1>3
        DEF Fail, AbortDeadlocked, ledger, amounts, LedgerTyped, WorldTyped

LEMMA WorldStepTyped ==
  ASSUME TypeInv, World
  PROVE  TypeInv'
<1> USE DEF TypeInv, TypeOK
<1>1. ASSUME NEW s \in Sessions, CompleteCheckout(s) \/ PayCheckout(s)
      PROVE  TypeInv'
  BY <1>1 DEF CompleteCheckout, PayCheckout, ledger, amounts, LedgerTyped, LocksTyped,
              JobsTyped, SubjectsFit, WorldTyped
<1>2. ASSUME NEW b \in Bookings, LapseHold(b)
      PROVE  TypeInv'
  BY <1>2 DEF LapseHold, ledger, amounts, stripe, LedgerTyped, LocksTyped,
              JobsTyped, SubjectsFit, WorldTyped
<1> QED BY <1>1, <1>2 DEF World

-----------------------------------------------------------------------------

LEMMA TypeInit ==
  ASSUME Init
  PROVE  TypeInv
<1> USE DEF Init, StoreInit
<1>1. LedgerTyped
  <2>1. booking \in [Bookings -> BookingRow]
    BY LinkAssumption DEF BookingRow, BookingStatuses, PayStatuses
  <2>2. \A p \in Payments : FirstSession(p) \in Sessions \cup {Nothing}
    BY LinkAssumption DEF FirstSession
  <2>3. payment \in [Payments -> PaymentRow]
    BY <2>2 DEF PaymentRow, PaymentStatuses
  <2> QED BY <2>1, <2>3 DEF LedgerTyped
<1>2. LocksTyped /\ JobsTyped /\ SubjectsFit
  BY DEF LocksTyped, JobsTyped, SubjectsFit, Idle, Steps, Subjects
<1>3. WorldTyped
  BY LinkAssumption DEF WorldTyped
<1> QED BY <1>1, <1>2, <1>3 DEF TypeInv, TypeOK

LEMMA TypeStep ==
  ASSUME TypeInv, [Next]_vars
  PROVE  TypeInv'
<1>1. ASSUME NEW a \in Actors, Step(a)
      PROVE  TypeInv'
  BY <1>1, HookTyped, ReconcilerTyped, CancellerTyped, ExpirerTyped, LinkMakerTyped,
     LinkCancellerTyped, ClerkTyped, LostTyped DEF Step
<1>2. CASE World
  BY <1>2, WorldStepTyped
<1>3. CASE UNCHANGED vars
  BY <1>3 DEF vars, TypeInv, TypeOK, LedgerTyped, LocksTyped, JobsTyped, SubjectsFit, WorldTyped
<1> QED BY <1>1, <1>2, <1>3 DEF Next

(* The inductive invariant: types, and every actor on a subject of its kind. *)
THEOREM TypeInvariance == Spec => []TypeInv
<1> QED BY TypeInit, TypeStep, PTL DEF Spec

(* Every handler, in every interleaving, leaves every row, lock, job and     *)
(* event of the spine well formed.                                           *)
THEOREM TypeCorrect == Spec => []TypeOK
<1>1. TypeInv => TypeOK
  BY DEF TypeInv
<1> QED BY <1>1, TypeInvariance, PTL
=============================================================================
