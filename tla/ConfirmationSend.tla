-------------------------- MODULE ConfirmationSend --------------------------
(* The confirmation of one paid booking: senders started by a payment or a   *)
(* guest's message (luna-guest-confirmation-auto-send.js), the bot's route,  *)
(* the send both end in (luna-booking-confirmation-send.js), the row that    *)
(* guards each idempotency key (luna-guest-reply-send-route.js), and the     *)
(* note that a confirmation is owed until WhatsApp says it was delivered     *)
(* (staff-booking-confirmation-owed.js).  Every statement commits by itself. *)
(* A key is accepted once, so it stands for its provider message too.        *)
EXTENDS Naturals

CONSTANTS
  Autos,                 \* automatic senders
  Bots,                  \* requests of the bot's route
  Keys, BookingKey,      \* idempotency keys, and the one automatic senders use
  NoKey,
  CapturesFailed,        \* the deployment that records failed deliveries
  MaxLosses              \* bound: handlers that die or whose statement fails

Senders == Autos \cup Bots

ASSUME ConfirmationAssumption ==
  /\ Autos \cap Bots = {}
  /\ BookingKey \in Keys /\ NoKey \notin Keys
  /\ CapturesFailed \in BOOLEAN
  /\ MaxLosses \in Nat

VARIABLES
  booking,               \* bookings: confirmation_sent_at, the claim in metadata
  row,                   \* guest_message_sends, by key
  message,               \* WhatsApp's: times accepted, and what became of it
  owed,                  \* booking_confirmation_owed
  deliveries,            \* booking_confirmation_delivery_events
  callback,              \* the handler of a message's delivered status
  job,                   \* where each sender stands
  losses

vars == <<booking, row, message, owed, deliveries, callback, job, losses>>

Statuses == {"absent", "pending", "sent", "blocked", "failed"}

(* What a sender that claimed the booking goes through.                      *)
Working == {"replay", "gate", "row", "reclaim", "call", "persist", "mark",
            "stamp", "look", "clear", "release"}

Steps == Working \cup {"idle", "claim", "durable"}
Answers == {"none", "id", "no id", "refused"}

Idle == [at |-> "idle", key |-> NoKey, recover |-> FALSE, answer |-> "none"]

Init ==
  /\ booking = [sent |-> FALSE, claim |-> "none"]
  /\ row = [k \in Keys |-> [status |-> "absent", id |-> FALSE]]
  /\ message = [k \in Keys |-> [accepted |-> 0, fate |-> "none"]]
  /\ owed = [id |-> NoKey, cleared |-> FALSE]
  /\ deliveries = {}
  /\ callback = [k \in Keys |-> "none"]
  /\ job = [s \in Senders |-> Idle]
  /\ losses = 0

At(s, step) == job[s].at = step
Go(s, step) == job' = [job EXCEPT ![s] = [@ EXCEPT !.at = step, !.answer = "none"]]
End(s) == job' = [job EXCEPT ![s] = Idle]
Key(s) == job[s].key

JobOnly == UNCHANGED <<booking, row, message, owed, deliveries, callback, losses>>
BookingOnly == UNCHANGED <<row, message, owed, deliveries, callback, losses>>
RowOnly == UNCHANGED <<booking, message, owed, deliveries, callback, losses>>
OwedOnly == UNCHANGED <<booking, row, message, deliveries, callback, losses>>

-----------------------------------------------------------------------------
(* The automatic sender.                                                     *)

(* tryAutoSendBookingConfirmation up to its preview, for a paid booking whose*)
(* gates are open.                                                           *)
StartAuto(s) ==
  /\ At(s, "idle") /\ ~booking.sent
  /\ job' = [job EXCEPT ![s] = [Idle EXCEPT !.at = "claim", !.key = BookingKey]]
  /\ JobOnly

(* Mutant: a claim of the same key is granted while it is in flight.         *)
MayClaimAgain == ~booking.sent

MayClaim == ~booking.sent /\ booking.claim # "in_flight"

(* claimBookingConfirmationSend                                              *)
ClaimSend(s) ==
  /\ At(s, "claim")
  /\ IF MayClaim
       THEN booking' = [booking EXCEPT !.claim = "in_flight"] /\ Go(s, "replay")
       ELSE Go(s, "durable") /\ UNCHANGED booking
  /\ BookingOnly

(* findDurableSentConfirmationAudit: a message that is out but was not       *)
(* recorded on the booking is recorded now.                                  *)
FindSent(s) ==
  /\ At(s, "durable")
  /\ IF row[BookingKey].status = "sent" /\ row[BookingKey].id
       THEN job' = [job EXCEPT ![s] = [@ EXCEPT !.at = "replay", !.recover = TRUE]]
       ELSE End(s)
  /\ JobOnly

(* Mutant: the claim is given back only after an error of the send.          *)
GiveUpSilently(s) ==
  IF s \in Autos /\ ~job[s].recover /\ At(s, "call") THEN Go(s, "release") ELSE End(s)

(* Nothing went out: an automatic sender gives its claim back.               *)
GiveUp(s) == IF s \in Autos /\ ~job[s].recover THEN Go(s, "release") ELSE End(s)

(* releaseBookingConfirmationClaim                                           *)
Release(s) ==
  /\ At(s, "release")
  /\ booking' = IF booking.sent THEN booking ELSE [booking EXCEPT !.claim = "released"]
  /\ End(s)
  /\ BookingOnly

(* handleBotBookingSendConfirmation: the caller brings the key, and no claim *)
(* is taken.                                                                 *)
StartBot(s, k) ==
  /\ At(s, "idle") /\ ~booking.sent
  /\ job' = [job EXCEPT ![s] = [Idle EXCEPT !.at = "replay", !.key = k]]
  /\ JobOnly

-----------------------------------------------------------------------------
(* The row of the key.                                                       *)

(* Mutant: a message that failed after WhatsApp took it is sent again.       *)
RetryableFailed(k) == row[k].status \in {"blocked", "failed"}

(* isRetryableConfirmationNonDelivery                                        *)
Retryable(k) == row[k].status \in {"blocked", "failed"} /\ ~row[k].id

(* buildIdempotentReplayResult and what the senders make of it: a row sent   *)
(* with an id is recorded on the booking, one without is left as uncertain.  *)
AnswerFromRow(s) ==
  LET sent == row[Key(s)].status = "sent"
  IN /\ sent /\ row[Key(s)].id => Go(s, "mark")
     /\ sent /\ ~row[Key(s)].id => End(s)
     /\ ~sent => GiveUp(s)

(* maybeReplayGuestMessageSend                                               *)
Replay(s) ==
  /\ At(s, "replay")
  /\ IF row[Key(s)].status = "absent" \/ Retryable(Key(s))
       THEN Go(s, "gate")
       ELSE AnswerFromRow(s)
  /\ JobOnly

(* A preview that is not ready or a recipient not allowed: the send ends     *)
(* before it looks at the row.                                               *)
Refuse(s) == At(s, "replay") /\ GiveUp(s) /\ JobOnly

PutRow(k, status) == row' = [row EXCEPT ![k].status = status]

(* Mutant: the audit of a closed gate takes a row that is being sent.        *)
AuditOverPending(k) == row[k].status # "sent" /\ ~row[k].id

(* The WHERE of recordGateAuditWithoutStealingInFlight.                      *)
MayAudit(k) == row[k].status \notin {"pending", "sent"} /\ ~row[k].id

(* The pause of the bot and the gates of the environment.                    *)
Gate(s) ==
  /\ At(s, "gate")
  /\ \/ Go(s, "row") /\ UNCHANGED row
     \/ /\ IF MayAudit(Key(s)) THEN PutRow(Key(s), "blocked") ELSE UNCHANGED row
        /\ GiveUp(s)
  /\ RowOnly

(* claimGuestMessageSendPending                                              *)
ClaimRow(s) ==
  /\ At(s, "row")
  /\ IF row[Key(s)].status = "absent"
       THEN PutRow(Key(s), "pending") /\ Go(s, "call")
       ELSE /\ IF Retryable(Key(s)) THEN Go(s, "reclaim") ELSE AnswerFromRow(s)
            /\ UNCHANGED row
  /\ RowOnly

(* Mutant: a status that the table's CHECK refuses.                          *)
ReclaimRetrying(s) ==
  /\ At(s, "reclaim")
  /\ IF Retryable(Key(s))
       THEN PutRow(Key(s), "retrying") /\ Go(s, "call")
       ELSE AnswerFromRow(s) /\ UNCHANGED row
  /\ RowOnly

(* reclaimConfirmationNonDelivery                                            *)
Reclaim(s) ==
  /\ At(s, "reclaim")
  /\ IF Retryable(Key(s))
       THEN PutRow(Key(s), "pending") /\ Go(s, "call")
       ELSE AnswerFromRow(s) /\ UNCHANGED row
  /\ RowOnly

-----------------------------------------------------------------------------
(* WhatsApp, and what is written of its answer.                              *)

Accept(k) ==
  message' = [message EXCEPT ![k] = [accepted |-> @.accepted + 1, fate |-> "accepted"]]

Answered(s, a) == job' = [job EXCEPT ![s] = [@ EXCEPT !.at = "persist", !.answer = a]]

(* sendLunaWhatsAppMessage: taken, with or without an id in the answer, or   *)
(* refused; or the call throws, and the message may have been taken.  Like   *)
(* the code, this takes every answer but a 2xx for a refusal: that WhatsApp  *)
(* never answers with an error and still sends is an assumption about it.    *)
CallProvider(s) ==
  /\ At(s, "call")
  /\ \/ Accept(Key(s)) /\ \E a \in {"id", "no id"} : Answered(s, a)
     \/ Answered(s, "refused") /\ UNCHANGED message
     \/ GiveUp(s) /\ (Accept(Key(s)) \/ UNCHANGED message)
  /\ UNCHANGED <<booking, row, owed, deliveries, callback, losses>>

(* Mutant: what WhatsApp took is recorded, with or without an id.            *)
PersistAnyAnswer(s) ==
  LET answer == job[s].answer
  IN /\ At(s, "persist")
     /\ IF answer = "refused"
          THEN PutRow(Key(s), "blocked") /\ GiveUp(s)
          ELSE /\ row' = [row EXCEPT ![Key(s)] = [status |-> "sent", id |-> answer = "id"]]
               /\ Go(s, "mark")
     /\ RowOnly

(* persistProviderOutcome writes the row whatever its status.  Without an id *)
(* the delivery is uncertain and the claim is kept.                          *)
Persist(s) ==
  LET answer == job[s].answer
  IN /\ At(s, "persist")
     /\ IF answer = "refused"
          THEN PutRow(Key(s), "blocked") /\ GiveUp(s)
          ELSE /\ row' = [row EXCEPT ![Key(s)] = [status |-> "sent", id |-> answer = "id"]]
               /\ IF answer = "id" THEN Go(s, "mark") ELSE End(s)
     /\ RowOnly

(* markBookingConfirmationSent: the first to come records it; each goes on   *)
(* to stamp what is owed.                                                    *)
MarkSent(s) ==
  /\ At(s, "mark")
  /\ booking' = [booking EXCEPT !.sent = TRUE]
  /\ Go(s, "stamp")
  /\ BookingOnly

-----------------------------------------------------------------------------
(* What is owed: recordConfirmationAccepted, a statement at a time.          *)

Stamp(s) ==
  /\ At(s, "stamp")
  /\ owed' = IF owed.cleared THEN owed ELSE [owed EXCEPT !.id = Key(s)]
  /\ Go(s, "look")
  /\ OwedOnly

(* Mutant: that WhatsApp took the message is enough.                         *)
LookAtNothing(s) == At(s, "look") /\ Go(s, "clear") /\ JobOnly

(* reconcileConfirmationOwed: hasDeliveryEvent                               *)
Look(s) ==
  /\ At(s, "look")
  /\ IF Key(s) \in deliveries THEN Go(s, "clear") ELSE End(s)
  /\ JobOnly

(* clearByProviderId                                                         *)
ClearOwed(k) ==
  owed' = IF owed.id = k THEN [owed EXCEPT !.cleared = TRUE] ELSE owed

Clear(s) ==
  /\ At(s, "clear")
  /\ ClearOwed(Key(s))
  /\ End(s)
  /\ OwedOnly

(* Mutant: the event of a message no booking knows is not kept.              *)
StoreKnownDelivery(k) ==
  /\ message[k].fate \in {"accepted", "delivered"} /\ callback[k] = "none"
  /\ message' = [message EXCEPT ![k].fate = "delivered"]
  /\ deliveries' = IF owed.id = k THEN deliveries \cup {k} ELSE deliveries
  /\ callback' = [callback EXCEPT ![k] = "clear"]
  /\ UNCHANGED <<booking, row, owed, job, losses>>

(* applyConfirmationDeliveryStatuses, once the guest's phone got the         *)
(* message: the event is kept before the booking is looked for, as it may    *)
(* not know the message yet.                                                 *)
StoreDelivery(k) ==
  /\ message[k].fate \in {"accepted", "delivered"} /\ callback[k] = "none"
  /\ message' = [message EXCEPT ![k].fate = "delivered"]
  /\ deliveries' = deliveries \cup {k}
  /\ callback' = [callback EXCEPT ![k] = "clear"]
  /\ UNCHANGED <<booking, row, owed, job, losses>>

ClearDelivered(k) ==
  /\ callback[k] = "clear"
  /\ ClearOwed(k)
  /\ callback' = [callback EXCEPT ![k] = "done"]
  /\ UNCHANGED <<booking, row, message, deliveries, job, losses>>

(* captureFailedWhatsAppDeliveryStatus, when the phone never gets it: where  *)
(* failed deliveries are recorded (one staging deployment), the row is found *)
(* by the id, if it has one already.                                         *)
ReportFailed(k) ==
  /\ message[k].fate = "accepted"
  /\ message' = [message EXCEPT ![k].fate = "failed"]
  /\ IF CapturesFailed /\ row[k].id THEN PutRow(k, "failed") ELSE UNCHANGED row
  /\ UNCHANGED <<booking, owed, deliveries, callback, job, losses>>

-----------------------------------------------------------------------------
(* Losses: a process dies at any step, or a statement fails; an error inside *)
(* the send ends in send_error, for which the claim is given back.  WhatsApp *)
(* calls again for a status whose handler was lost.                          *)
Die(s) ==
  /\ ~At(s, "idle") /\ losses < MaxLosses
  /\ End(s)
  /\ losses' = losses + 1
  /\ UNCHANGED <<booking, row, message, owed, deliveries, callback>>

Fail(s) ==
  /\ job[s].at \in Working \ {"release"} /\ losses < MaxLosses
  /\ GiveUp(s)
  /\ losses' = losses + 1
  /\ UNCHANGED <<booking, row, message, owed, deliveries, callback>>

LoseCallback(k) ==
  /\ callback[k] = "clear" /\ losses < MaxLosses
  /\ callback' = [callback EXCEPT ![k] = "none"]
  /\ losses' = losses + 1
  /\ UNCHANGED <<booking, row, message, owed, deliveries, job>>

SenderStep(s) ==
  \/ ClaimSend(s) \/ FindSent(s) \/ Replay(s) \/ Refuse(s) \/ Gate(s) \/ ClaimRow(s)
  \/ Reclaim(s) \/ CallProvider(s) \/ Persist(s) \/ MarkSent(s) \/ Stamp(s) \/ Look(s) \/ Clear(s)
  \/ Release(s)

Callback(k) == StoreDelivery(k) \/ ClearDelivered(k)

Next ==
  \/ \E s \in Autos : StartAuto(s)
  \/ \E s \in Bots, k \in Keys : StartBot(s, k)
  \/ \E s \in Senders : SenderStep(s) \/ Die(s) \/ Fail(s)
  \/ \E k \in Keys : Callback(k) \/ ReportFailed(k) \/ LoseCallback(k)

Spec == Init /\ [][Next]_vars

(* A handler goes on once started, and WhatsApp repeats a status it sent     *)
(* until that is acknowledged; when the phone gets a message nobody knows.   *)
FairSpec ==
  /\ Spec
  /\ \A s \in Senders : WF_vars(SenderStep(s))
  /\ \A k \in Keys : WF_vars(message[k].fate = "delivered" /\ Callback(k))

-----------------------------------------------------------------------------
(* The types of the state.                                                   *)
TypeOK ==
  /\ booking \in [sent : BOOLEAN, claim : {"none", "in_flight", "released"}]
  /\ row \in [Keys -> [status : Statuses, id : BOOLEAN]]
  /\ message \in [Keys -> [accepted : Nat, fate : {"none", "accepted", "delivered", "failed"}]]
  /\ owed \in [id : Keys \cup {NoKey}, cleared : BOOLEAN]
  /\ deliveries \subseteq Keys
  /\ callback \in [Keys -> {"none", "clear", "done"}]
  /\ job \in [Senders -> [at : Steps, key : Keys \cup {NoKey}, recover : BOOLEAN,
                          answer : Answers]]
  /\ losses \in 0..MaxLosses

(* However many senders and retries, dead processes and lost answers there   *)
(* are, WhatsApp takes at most one message under a key                       *)
(* (luna-guest-reply-send-route.js).                                         *)
OnePerKey == \A k \in Keys : message[k].accepted <= 1

Holds(s) == job[s].at \in Working /\ ~job[s].recover

(* The claim on the booking has one holder among the automatic senders, and  *)
(* is not free while there is one (claimBookingConfirmationSend).            *)
ClaimIsExclusive ==
  \A s \in Autos : Holds(s) =>
    /\ booking.claim = "in_flight"
    /\ \A r \in Autos \ {s} : ~Holds(r)

(* Unless a handler was lost, a claim is held only by a sender at work, or   *)
(* because WhatsApp took a message without saying which: every other end     *)
(* gives it back, so a blocked confirmation can be tried again.              *)
HeldIsUnsettled ==
  booking.claim = "in_flight" /\ ~booking.sent /\ losses = 0 =>
    \/ \E s \in Autos : Holds(s)
    \/ row[BookingKey] = [status |-> "sent", id |-> FALSE]

(* A booking that says its confirmation was sent has a message that WhatsApp *)
(* took and identified.                                                      *)
SentIsAccepted ==
  booking.sent => \E k \in Keys : row[k].id /\ message[k].accepted > 0

(* A confirmation stops being owed only because the guest's phone got it:    *)
(* "Provider ACCEPT (wamid / sent) never clears by itself."                  *)
ClearedIsDelivered ==
  owed.cleared => owed.id \in Keys /\ message[owed.id].fate = "delivered"

(* The id of a message that was taken is never lost from its row, whichever  *)
(* handlers write the row later.                                             *)
AcceptedIsKept ==
  [][\A k \in Keys : row[k].id => row'[k].id /\ row'[k].status \in {"sent", "failed"}]_vars

(* What was delivered is cleared in the end, whether the delivery or the     *)
(* answer to the call is written first; unless a handler was lost, or the    *)
(* message of another key took its place.                                    *)
DeliveryClears ==
  \A k \in Keys :
    (owed.id = k /\ message[k].fate = "delivered")
      ~> (owed.cleared \/ owed.id # k \/ losses > 0)
=============================================================================
