# Money, mail and confirmations of the Staff API in TLA+

The repository runs Luna, a booking and messaging service for guest houses and
surf schools: a Node.js Staff API over Postgres (`src/scripts/staff-query-api.js`
and some 780 modules in `src/scripts/lib`), Stripe for payments, Microsoft Graph
and WhatsApp for messages, and agents that talk to guests through the API.  These
modules specify the parts of it where concurrency and failure meet something that
must not be done twice or lost:

* the money spine: how a Stripe payment becomes a paid, confirmed booking, and how
  that races with cancellation, hold expiry, payment links and cash;
* inbound mail: how two processes read one mailbox page by page, under a lease,
  into the staff inbox;
* outbound mail: how Luna and the staff write, approve, send and recover replies,
  each at most once;
* the confirmation of a paid booking by WhatsApp: who may send it, what is
  recorded of it, and until when it is owed.

## Inventory

### The money spine (modelled)

| component | state it keeps | operations | what makes it correct |
|---|---|---|---|
| Stripe webhook (`staff-query-api.js` `handleStripeWebhook`, `stripe-webhook-event-claim.js`, `stripe-webhook-payment-truth.js`) | `payment_events` claims; through the policy, payments, bookings, guests | look up and validate; claim and apply in one transaction; reconcile duplicates; send the confirmation | a claim commits with its money and never without; nothing paid is lost to redelivery, deadlock or lost answers |
| payment-truth policy (`stripe-hold-promote-policy.js`, `luna-booking-payment-totals.js`) | none of its own: amounts and statuses of payments, bookings and guests | record a payment, repair one already recorded, promote a hold, allow a confirmation | the projections agree with the payment rows; late money never revives a booking |
| reconciler (`stripe-payment-reconcile.js`) | none | pull paid sessions, apply the same writes | as above, without claims |
| unpaid cancellation (`guest-unpaid-cancellation.js`) | booking status, beds, payment rows | check evidence under locks, retire rows, cancel | never while money was received; nothing collectible remains |
| hold expiry worker (`booking-hold-expiry.js`, `run-booking-hold-expiry.js`) | booking status, beds, checkout URLs | list overdue holds, expire each | no paid booking expires; every unpaid overdue one does |
| payment links (`luna-front-desk-payment-link-service.js`) | payment rows, Stripe sessions | make a session for a draft, drop a link | paid rows are left alone; a booking is paid by its guests or as a whole |
| manual payments (`staff-manual-payment.js`) | a paid row, the projections | record cash or bank money once | the projections agree |
| triggers (`124_luna_v3_fix2_evidence_and_cancel_guard.sql`) | none | refuse money on cancelled bookings, cancellations with money, mixed checkouts | they hold whatever handler writes |

The components share tables and call each other little: they meet in Postgres row
locks.  A webhook claims its event (an INSERT whose foreign keys share-lock the
tenant, the payment and the booking), locks the booking and the payment, writes
and commits; the others lock the booking first, except links and add-on payments,
which reach the payment row first and the booking through a trigger; the expiry
worker also locks the tenant.  Stripe delivers events again until it gets a 200.

What is hard here: rings of lock waits; reads before a lock that are stale under
it; a commit whose answer is lost; a process that dies between the commit and the
message; duplicate, late and reordered events; batches with a limit.  Each such
place is listed in `PROJECT.json` under `hazards` with its line.

### Mail and confirmations (modelled)

| component | state it keeps | operations | what makes it correct |
|---|---|---|---|
| inbound delta state (`email-inbound-delta-state-store.js`, `email-authority-bound-messages-delta-page-operation.js`, `email-delta-sunset-staging-worker.js`) | one row per mailbox: generation, phase, cursor, version, lease; the inbound events | read, acquire, open, recheck, commit a page, mark a reset, release; the operator's restart | no message before the cursor is missing; a page of an old lease or generation is never kept |
| inbox projection (`email-inbound-inbox-bridge.js`) | the conversation's messages, the projection journal | list unprojected events, check, post | each event is posted once, whoever projects it |
| outbound send (`staff-email-inbox-routes.js`, `email-authority-bound-outbound-operation.js`, `email-outbound-send-journal-store.js`) | approvals, a journal row per operation with phase and call counts, the thread | draft, edit, delete, approve and send, recover | each provider call at most once; what leaves is what was agreed; what left becomes known |
| same-desk auto-send (`email-luna-microsoft-auto-create-send.js`, `email-luna-same-desk-auto-send-claim.js`) | a claim per inbound message with a lease | claim, link the draft, reread the gates, begin dispatch, give back | one automatic reply to a message; none through a gate that stayed closed |
| confirmation (`luna-guest-confirmation-auto-send.js`, `luna-booking-confirmation-send.js`, `luna-guest-reply-send-route.js`, `staff-booking-confirmation-owed.js`) | the claim in the booking's metadata, `confirmation_sent_at`, a row per idempotency key, what is owed, delivery events | claim, replay, gates, claim the row, call, persist, mark, stamp, clear, release | one message under a key; a claim is given back unless something went out; owed until delivered |

The workers and the staff routes meet in the approval and journal rows, which
every transaction locks; the automatic flow goes through the same approval and
dispatch as a member of the staff.  Confirmations have no transaction: every
statement commits by itself, and only conditional UPDATEs and a UNIQUE key order
the senders.  They are started by the webhook's `Notify`, by a guest's message and
by the bot's route, so `ConfirmationSend` lets senders start at any time.

### The rest (not modelled)

| component | state and operations | properties that make it correct |
|---|---|---|
| per-guest checkout (`per-guest-checkout.js`) | one payment row and session per guest | shares add up; no mixing with a group checkout |
| Luna V3 (`model-led-luna/v3-operations.js`, `v3-booking-flow.js`, `v3-group-checkout.js`) | operation rows with leases and provider keys | one effect per operation; an expired lease is taken over safely |
| email Luna automation queue (`email-luna-automation-queue-store.js`) | queue rows, leases, attempts | each message is handled to an end state |
| readiness and admission (`staff-api-readiness-lifecycle.js`, `radar-g06-admission-control.js`, `staff-api-admission-boundary.js`) | counters and phases of one process | slots are returned; a draining process takes no work |
| OAuth grants, staff notifications, schedules, pages, website, Hermes agents, tooling | tokens; messages; bookings; none | mostly cryptography, I/O and wording |

## Modules

| module | models |
|---|---|
| `PaymentState` | the pure rules: what a payment does to totals and payment status (`deriveBookingPaymentState`), when it confirms a booking, when a message may go out (`decideStripeHoldPromote`) |
| `MoneyStore` | the tables, the row locks with Postgres's conflict rules, Stripe's sessions and deliveries, the clock, lost transactions |
| `PaymentTruth` | `applyStripeBookingPaymentTruthWrites` and its validations, used by the next two |
| `StripeWebhook` | the webhook, booking and add-on path |
| `StripeReconcile` | the reconciler |
| `UnpaidCancellation` | the two cancel routes |
| `HoldExpiry` | the worker |
| `PaymentLinks` | draft links and link cancellation, with the triggers behind their UPDATEs |
| `ManualPayment` | cash |
| `BookingMoney` | the handlers above together, deadlock detection, the properties, fairness |
| `MoneyLedger` | the abstract specification: a payment is banked once and for ever; a booking is given up only while nothing is banked, and never lives again |
| `EmailDeltaStore` | the delta-state row of a mailbox, its lease and the conditional writes |
| `EmailDelta` | the page operation, the worker's tick, the projection, the operator's restart, the properties |
| `MailFeed` | the abstract inbound feed: a round reads on from its place, and the place moves together with the messages |
| `OutboundSend` | drafts, approval, the journal and its provider calls on Microsoft Graph, recovery |
| `SameDeskSend` | the automatic flow and its claims on top of `OutboundSend`, gates, losses, the properties |
| `MailOnce` | the abstract sender: a text may change until somebody agrees; then one copy of it leaves |
| `ConfirmationSend` | the confirmation of one booking, its properties and fairness; it is its own TLC instance |
| `MC*` | instances for TLC |
| `BookingMoneyTypes`, `BookingMoneySafety`, `BookingMoneyLedger` | theorems about money |
| `SumFacts` | lemmas about sums over finite sets, for the amounts |
| `EmailDeltaSafety`, `SameDeskSendTypes`, `SameDeskSendSafety`, `ConfirmationSendSafety` | theorems about mail and confirmations |

How state corresponds to the code, for money.  `booking[b]` is the bookings row (`status`,
`payment_status`, whether beds are assigned), `payment[p]` the payments row
(`status`, the Stripe session in column or metadata, whether a checkout URL is
set); `bookingPaid`, `paymentPaid` and `guestPaid` are the `amount_paid_cents` of
the three tables, in maps of their own.  `claimed` holds the committed rows of
`payment_events`.  `job[a]` is where the handler of actor `a` stands, on what, and
what NOW() of its transaction said of the hold.  `locks` are the row locks of open
transactions: key-share (foreign keys), no-key update (an UPDATE) and update (FOR
UPDATE).  An action is the stretch of a handler from one lock to the next; the
writes of a transaction happen in the step that commits.  That loses no behaviour:
nobody reads uncommitted rows, and every write of a payment row happens under the
update lock of its booking, taken by the handler or by the trigger of migration
124.  `checkout` and `delivery` are Stripe's.

Data is abstract: a session is made for exactly the amount due, so the checks of
amount, currency and tenant never fail and are left out; guests have a phone.
The add-on path's service records, metadata, drafts and logs are left out.  The
sets of statuses are those of the schema's enums; `blocked`, `refunded` and `failed`
are written by no handler modelled here.

For inbound mail, `row` is the current row of `tenant_email_inbound_delta_states`;
`state_version` is only compared for equality, so `current` keeps who knows the
present one; `page[w]` is what a worker remembers between its transactions.
Messages are numbered as they arrive and a cursor is the number it reads up to.
Each transaction locks the row or is one conditional UPDATE, so each is an action.

For outbound mail, `approval`, `journal` and `claim` are the tables of their
names, `mail[d]` is the provider's draft with the calls it has received, and
`job[s]` is where a handler stands.  An operation id belongs to one draft for ever,
and a claim's token to one flow, so drafts and workers stand for them.  A provider
call is an action apart from the journal writes before and after it.

For confirmations, `booking` has `confirmation_sent_at` and the claim's state in
the metadata, `row[k]` the `guest_message_sends` row of a key, `message[k]` what
WhatsApp has of it, `owed` and `deliveries` the tables
`booking_confirmation_owed` and `booking_confirmation_delivery_events`;
`callback[k]` is the handler of a delivered status.  Every statement is an action.
A gate is open or closed as the environment likes: one that closes before the row is
looked at (`Refuse`: no preview, a recipient that is not allowed) gives the claim
back and writes nothing, a later one leaves a blocked row.  Failed statuses are
recorded in one staging scope only (`luna-supervisor-event-emitter.js:165`),
which is the constant `CapturesFailed`; the run has it TRUE, where more can happen,
and the theorems hold for both.

WhatsApp is assumed to have taken a message only when it answers with success or the
answer is lost.  The code takes every other answer, a 5xx too, for a message that
was not sent (`luna-whatsapp-provider.js:179-190`) and frees the row for the next
try.  If WhatsApp sent the message and answered 500, the retry would send it again:
`OnePerKey` and `ClaimIsExclusive` rest on this assumption, which the code cannot
check.

## Runs

All runs of money have one booking (two in `MCExpiry`) and two or three payments; races are
between actors and need no more bookings than share a lock, and two payments are
the least that has totals, superseded links and scopes.

| run | shows | bounds |
|---|---|---|
| `race` | types; `NoMoneyOnCancelled`, `PaidIsCollected`, `LedgerAgrees`, `NotifiedIsLive`, `ClaimIsRecorded`, `PaidStaysPaid`, `ClosedStaysClosed` and the refinement `KeepsLedger`, with two hooks, a reconciler, a canceller and the worker, when a transaction, a commit's answer or a handler is lost; in the Sunset scope, where a pending booking is confirmed too | two sessions with an event each, hooks symmetric; `MaxFailures` = 1: one loss, and the retry |
| `addon` | the add-on path against a cancellation, a delayed payment method and a lost transaction | two hooks, three events, `MaxFailures` = 1 |
| `links` | `NoMixedScope`, `NoMoneyOnCancelled`, `PaidIsCollected` with two makers and a canceller of links | two sessions for one draft, one for the other |
| `guests` | `LedgerAgrees` and `PaidInFull` with shares by card and in cash | two guests, three payments |
| `release` | liveness `OverdueIsReleased`, `TransactionsEnd` and `MoneyLands` with the worker in the ring of waits | two holds, a batch of two, the worker and a hook, `MaxFailures` = 1 |
| `delta` | types; `NothingSkipped`, `PostedOnce`, the refinement `KeepsFeed`, and the liveness `MailIsStored`, `MailReachesInbox` | two processes, two messages of which one is rejected, pages of up to two, two generations, one failure (a lost answer, a dead process or an outlived lease), one dropped cursor |
| `send` | types; `CallsAreJournaled`, `CommittedIsSent`, `OneAutoReply`, `PausedIsNotSent`, the refinement `KeepsPromise`, and the liveness `SentIsSettled` | two workers and two members of the staff, of whom Luna acts for one; one inbound message, two drafts, two texts, one failure, two acts of the staff |
| `confirm` | types; `OnePerKey`, `ClaimIsExclusive`, `HeldIsUnsettled`, `SentIsAccepted`, `ClearedIsDelivered`, `AcceptedIsKept`, and the liveness `DeliveryClears` | two automatic senders and a request of the bot's route, the booking's key and another, `MaxLosses` = 1 |

Why these bounds are enough.  In `delta` a page that is too slow needs a second
worker and a message after the first page; the restart needs a second generation;
the rejected message is the one that stays at the head of every batch.  In `send`
a second worker takes over what the first gave up, the two members of the staff
are one for whom recovery works and one for whom it does not, the second draft is
the rival reply; drafts run out, so a worker may stop at `save`, which is the
bound's doing.  With two inbound messages (`Last` = 2) `send` takes longer than
five minutes; `recover_drift` has two and the proofs have any number.  In `confirm`
two senders race for the claim, the third has none to ask for, and the second key
is the one the bot's caller may bring.

Deadlock checking is off: the money spine stops when every guest has paid or gone
and every event is acknowledged, and mail and confirmations when there is nothing
left to send.

Four more runs state what a comment of the code promises and find it violated:

| run | the code | the comment |
|---|---|---|
| `link_cancel` | a dropped link overwrites a payment that was paid after the row was read | "Cannot cancel a paid payment row." |
| `reconcile_cap` | the reconciler caps the amount at what is left of the total | "the exact same payment-truth writes the webhook does" |
| `addon_counted` | the next booking payment counts a paid add-on into the booking | "does NOT update booking payment amounts" |
| `recover_drift` | once the guest writes again, a reply whose send was not answered can no longer be recovered | "Staff-safe recovery for already-approved operations in send_dispatched/outcome_unknown." |

Observations without a run of their own:

* A payment link is attached to a row by its id alone: one that is no draft any
  more, even a paid one, is overwritten
  (`luna-front-desk-payment-link-service.js:798`, against the message "Payment row
  no longer draft — concurrent update." at `:825`).
* Paid but unconfirmed holds stay at the head of the worker's batch
  (`booking-hold-expiry.js:105`); when they fill it, those behind them never
  expire.  `release` therefore gives the worker a batch that holds every booking,
  and `OverdueIsReleased` fails in it with `BatchSize` = 1.
* In the same way messages the bridge rejects stay unprojected at the head of every
  batch, and the code's `LIMIT 5` does not rule out five of them.  The proofs take a
  batch of any size; `MailReachesInbox` says on its face that it speaks of a batch
  larger than the number of rejected messages, and `delta` has one of two.
* A fresh message raises `needs_human` (`email-inbound-inbox-bridge.js:737`), so in
  same-desk mode the flow it starts stops until staff clear the flag and the
  message is found projected again.
* Recovery works only for the staff user an operation ran for, and an operation
  that stopped between a call to create or update and the record of its answer is
  never sent: at most once, by design.
* The bot's route takes no claim and brings its own key, so a booking may be
  confirmed twice, once under each of two keys: `OnePerKey` is about a key.
  `docs/PHASE-14.1-LUNA-CONFIRMATION-SEND-GATES-PLAN.md:68` lists duplicate sends
  among what must remain impossible.
* The try/catch of the pause gate (`luna-guest-reply-send-route.js:638-672`) also
  swallows a failing write of the audit: the message then goes out although the
  conversation is paused.
* A handler that dies after `confirmation_sent_at` and before the stamp leaves the
  booking owed for ever: every retry returns before it would stamp again.
  `DeliveryClears` speaks only of what was stamped.
* A handler that dies with the claim leaves it in flight for ever, a message taken
  without an id keeps it, and a row left pending is never sent again; the bot's
  route under another key is the way out.  `HeldIsUnsettled` says that nothing
  else leaves a claim in flight.

One more comment has no run: "Global lock order ... is booking, then guest, then
payment." (`stripe-hold-promote-policy.js:423`).  The claim's foreign keys lock
the payment first; what comes of it are deadlocks, which a redelivery repairs.

Every property of a passing run has a mutant in the modules (an operator marked
"Mutant") that changes the code the way a bug would, and that the run refutes.

## Fairness

Money.  `FairSpec` assumes: a handler that was started goes on whenever it can, strongly,
because a wait for a lock is enabled and disabled again as locks come and go;
Postgres breaks every ring of waits (its deadlock detector runs after
`deadlock_timeout`); Stripe redelivers a due event again and again; the worker,
started by an hourly job, runs again and again over the whole batch.  A lock that
is free infinitely often is granted (the strong fairness of `LockBooking`,
`PullApply`, `HoldLockClient`): Postgres queues waiters.  Guests, staff, the
reconciler and the clock owe nothing.  Which transaction of a ring is aborted is
not fair: with cancellers, or with two hooks, beside the worker, the worker can
wait for the tenant's row, which one hook or the other always share-locks, while
the hooks wait for its booking and are aborted in turn, and `MoneyLands` fails.
Nothing but Stripe's pauses between redeliveries ends that, and they are not
modelled, so `release` has the worker with one hook, and rings of two hooks are only in
the safety run `race`.

Inbound mail.  Every process re-arms its timer after each tick, whatever became of
it (weak fairness of `WorkerStep`), and the clock passes every `lease_until`
(`LeaseRunsOut`).  The provider and the operator owe nothing: `MailIsStored` ends
with a dropped cursor until the operator restarts.

Outbound mail.  A handler that was started goes on, Graph sends what it queued
(weak fairness), and each member of the staff asks again what became of a reply
(strong fairness of `Ask`: the route is free again and again).  Nobody is assumed
to approve, and flows of Luna are not assumed to go on.

Confirmations.  A handler that was started goes on, and Meta repeats a status
until its webhook is answered, so the callback of a delivered message is weakly
fair.  That a phone gets a message is not assumed, nor that a sender starts.

## Theorems

Money.  Proved for every set of bookings, payments, guests, sessions, events and actors,
from the assumptions of `MoneyStore`: rows of different tables are different
things, every actor is of one kind, foreign keys point to rows, a clerk's rows have
no session and are of kind `full_amount`, bookings begin as `hold`,
`payment_pending` or `confirmed` without money, and the checkouts they begin with
have one scope (the trigger let them in).

* `TypeCorrect` (`BookingMoneyTypes`): `Spec => []TypeOK`.  The invariant adds
  `SubjectsFit`: each kind of actor works on rows of its own kind, without which
  a lock might be on no row at all.
* `CancelledCarriesNothing` (`BookingMoneySafety`): `Spec => []NoMoneyOnCancelled`
  for all seven kinds of actors.  What it lacks to be inductive is
  `AbsentIsBlank`: a cancellation retires the rows it sees, and rows inserted
  later have to begin blank.  `StepWrites`, used by all that follows, says that
  a step writes the ledger in one of eight ways or not at all.
* `ClosedForGood`: `Spec => ClosedStaysClosed`, from `ClosedHasNoBeds`.
* `NoMixedOffers`: `Spec => []NoMixedScope`, inductive as it stands: only the
  attaching UPDATE opens a link (`NoNewOffer` for all others), and its trigger
  looks at the links of the booking in the same step.
* `LocksExclude`: no two transactions hold conflicting
  locks (`Exclusive`), and an add-on payment stays unsettled from the moment its
  hook has looked at it to the moment it writes (`AddonHeld`).  Every step leaves
  the jobs and locks of others alone (`StepOwn`), and no one but the holder
  settles an add-on (`OnlyHolderSettles`).
* `PaidMeansCollected`: `Spec => []PaidIsCollected`, for
  all handlers, early events included.  The invariant follows the money: a session
  being made is known to its one maker (`MakersHold`); Stripe sends only early
  events before it has the money (`EventsFollowMoney`); and what a hook or a
  reconciler is at work on is paid, or its payment will refuse it (`BringPaid`).
  The last is what a hook that let an early event of a paid payment through rests
  on: `WaitIsOver` says that no later link, cancellation or expiry makes a payment
  that stopped waiting for a submitted session wait for it again.
* `NoneForgotten`: a session Stripe was paid for (add-ons apart) is recorded, or its
  row was retired or moved to another session, or the event is still due.  This is
  what `MoneyLands` says without fairness, and so it holds for every number of
  failures, deadlocks and hooks, where the run `release` has one hook.  The invariant is
  `AnswerInv`: Stripe is told 200 only when the row has stopped waiting for the
  session (`AnswerIsDone` goes through every way to a 200, the confirmation that
  comes before it included), and every paid session is announced.  One way to a 200
  is an error: the repair of a duplicate swallows it
  (`staff-query-api.js:15824-15830`), aborted by a deadlock or not, and the event
  is answered (`AnswerAborted`).  That loses nothing, because whoever is at that
  repair found the claim or the paid row that settled the session.
* `ConfirmedStaysLive`: `Spec => []NotifiedIsLive`, for all handlers.  A hook
  comes to the confirmation only with a booking that has a claimed event and a
  status a confirmation may speak for (`NotifyInv`), and no step takes such a
  booking back (`ConfirmableStays`): money only confirms, expiry wants a hold, and
  a cancellation counts the claims.
* `DesksNeverRing`: reconcilers, cancellations, the worker and clerks lock the
  booking first and the tenant before payments (`OrderInv`), so every ring of
  waiting transactions has a webhook or a link service in it: a webhook's share
  locks, or a link service's payment-first order.

`BookingMoneyLedger` is about amounts and about what must not be undone.  Most of
it needs `CarefulLinks`: staff drop no links, and if links are made no payment has a
second session.  The code guarantees neither, and both are needed.  With
`LinkCancellers` the run `link_cancel` breaks `PaidStaysPaid`.  With two
sessions of one payment, a maker that read the draft early attaches the later
session over a payment settled by the earlier one: its UPDATE names a row and asks
nothing of its status.  With one session each (`AttachUnsettled`, from
`SubmittedFirst`: what Stripe settled was submitted first) links are made beside
everything else.

* `PaidForGood`, `ClaimsHaveMoney`, `HandlersKeepLedger`: `PaidStaysPaid`,
  `ClaimIsRecorded` and the refinement of `MoneyLedger`.  The proofs rest on
  `LockInv` for add-ons and on the guards of each write for the rest.
* `NothingOvercharged`, for all handlers and without `CarefulLinks`: no payment
  row shows more than was due for it (`AmountsInv`).
* `PaidMeansPaidInFull` and `ShownIsPaid`, from `BookingsInv`: a booking shows no
  more than its settled payments sum to, and counts as paid only when they reach
  its total.  `StepKinds` sorts the steps into those that settle a payment, those
  that repair and those that touch no amount; `SettlingAdds` says what settling
  does to a sum, and `MoneyAfterIs` what `deriveBookingPaymentState` makes of it.
* `RowsAgree`: `LedgerAgrees`, from `AgreeInv`, the same equation over the sums of
  `SumFacts`.  It needs two facts of the data besides: that no payment is an
  add-on (`NoAddons`; the run `addon_counted` shows add-on money in the booking's
  amount), and that the payments of one guest are of one booking
  (`GuestsOfOneBooking`): a guest's row has one `booking_id`, and whoever inserts a
  payment for a guest takes the guest by id and booking
  (`staff-manual-payment.js:76-81`, `per-guest-checkout.js:178-183`).
  The run `guests` is an instance of all three hypotheses.
* `AddonsAloneShowNothing` and `OnlyReconcilersCap` bound two findings.  A booking
  shows no more than what its own payments brought as long as none of them is
  settled, however many add-ons are (`ShownIsOwn`): an add-on puts nothing into
  the booking by itself, it takes a later payment of the booking to count it, which
  is the step `addon_counted` ends with.  And without reconcilers `RecordedInFull`
  holds.

The amounts are sums over sets, which the community modules define by recursion.
`SumFacts` proves what the theorems use of them (`SumRemove`, `SumNat`, `SumSubset`,
`SumIsMapThenSum`) by induction on cardinality, done with the least element of a
set of naturals, since the library's induction theorems take an operator.

Inbound mail (`EmailDeltaSafety`), for every number of workers, messages, pages,
generations and failures:

* `DeltaTypeCorrect`, `NothingIsSkipped`, `PostedExactlyOnce`, and `FeedIsKept`,
  that the workers implement `MailFeed`.  `NothingSkipped` is not inductive: a
  page is put behind the place its worker remembers, so `FeedInv` says that
  everything up to there is kept too, and that whoever knows the row's version
  remembers the row's own cursor; the version fence then makes pages follow one
  another without a gap.

Outbound mail (`SameDeskSendTypes`, `SameDeskSendSafety`), for every set of
workers, staff, drafts, texts, messages and failures:

* `SendTypeCorrect`.
* `CallsJournaled` and `CommittedSent`, from `CallInv`: between the transition that
  authorises a provider call and the record of its answer an operation has one
  caller, and the phase of the journal bounds the calls made.
* `PausedNotSent`, from `GateInv`: a gate that a flow remembers as closed is
  closed, and each of the two reads rules one of them out.
* `AutoReplyOnce`, from `ClaimInv`: who is past `BeginDispatch` holds the claim of
  its message for good, and no other automatic approval is of that message.
* `RepliesKeepPromise`, that all of it implements `MailOnce`, from `TextInv`: an
  approved row keeps its text, and whoever works on it carries that text.

Confirmations (`ConfirmationSendSafety`), for every set of senders and keys and
every number of losses:

* `ConfirmationTypeCorrect`.
* `ConfirmationOnePerKey`, `ConfirmationSentIsAccepted`,
  `ConfirmationClearedIsDelivered` and `ConfirmationAcceptedIsKept`, from one
  invariant `CallInv`: a row tells what WhatsApp took under its key (`KeyFits`),
  and who calls has put it to pending and is alone in it (`CallerFits`, `Alone`).
  What makes it hold is that every other writer's WHERE excludes a pending row and
  one with an id.
* `ConfirmationClaimIsExclusive` and `ConfirmationHeldIsUnsettled`, from `HoldInv`:
  `Moves` says how each step of a sender makes or ends a holder, and `UnsaidStays`
  that a row sent without an id is never written again.

Only model-checked: liveness (`MoneyLands`, `OverdueIsReleased`, `TransactionsEnd`,
`MailIsStored`, `MailReachesInbox`, `SentIsSettled`, `DeliveryClears`, and
`SentIsRecoverable`, which fails), out of the prover's reach with ENABLED.

## Not modelled

* Of payment links: the deposit and balance checkouts with their provider keys and
  superseded payments, and `per-guest-checkout.js`.
* Of inbound mail: the unused `renewLease` and `beginNextGeneration`, the replay of
  a page-commit operation, tombstones, and the conversation's own fields.
* Of outbound mail: the SMTP dispatch, the emergency policy that reuses drafts,
  subjects, the mailbox pause and the send flags, `markTerminal` (no caller).
* Of confirmations: the simulator's inbox that stands in for WhatsApp in Sunset
  staging, the placeholder row of a failed status no row knows, the supervisor's
  event obligations, the clearing by booking and tenant (the simulator's alone),
  that the booking was recorded as owed when it was made (assumed), previews.
* Whole components: OAuth grants, staff notifications, schedules, pages, the
  website, agents and tooling are cryptography, I/O and wording, or share no state
  with what is modelled.

## Plan

1. `GuestCheckout` on `MoneyStore`: the per-guest, deposit and balance checkouts.
2. The automation queue on top of the inbox of `EmailDelta`, composed with
   `SameDeskSend`: leases, attempts, end states.
3. `OperationLease` for Luna V3: one effect per operation across takeovers.
4. Readiness and admission of one process.
