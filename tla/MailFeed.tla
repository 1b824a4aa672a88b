------------------------------ MODULE MailFeed ------------------------------
(* What the inbound mail feed of one mailbox promises, whatever workers,     *)
(* leases and lost answers do below it: a round reads the mailbox from its   *)
(* activation watermark on, in order, and the place it has reached moves     *)
(* together with the messages that were read.                                *)
EXTENDS Naturals

CONSTANT Last            \* number of the last message the mailbox receives

VARIABLES
  arrived,               \* messages 1..arrived are in the mailbox
  stored,                \* messages kept as inbound events
  round,                 \* ingestion generation, 0 before the first one
  place,                 \* how far the current round has read
  stopped                \* the round lost its place and waits for a restart

feed == <<arrived, stored, round, place, stopped>>

Init == arrived = 0 /\ stored = {} /\ round = 0 /\ place = 0 /\ stopped = FALSE

Arrive == /\ arrived < Last
          /\ arrived' = arrived + 1
          /\ UNCHANGED <<stored, round, place, stopped>>

(* A page is read: exactly the messages between the two places are kept.     *)
Advance == /\ round > 0 /\ ~stopped
           /\ place' \in place..arrived
           /\ stored' = stored \cup (place + 1)..place'
           /\ UNCHANGED <<arrived, round, stopped>>

Stop == /\ round > 0 /\ ~stopped
        /\ stopped' = TRUE
        /\ UNCHANGED <<arrived, stored, round, place>>

Begin == /\ round' = round + 1
         /\ place' = 0
         /\ stopped' = FALSE
         /\ UNCHANGED <<arrived, stored>>

Next == Arrive \/ Advance \/ Stop \/ Begin

Spec == Init /\ [][Next]_feed
=============================================================================
