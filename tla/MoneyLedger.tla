---------------------------- MODULE MoneyLedger -----------------------------
(* What the money spine promises, without handlers, locks or messages: a     *)
(* payment is banked once and for ever, a booking is given up only while     *)
(* nothing is banked for it, and a booking given up is never live again.     *)
(* The lines mapped here are the header of stripe-hold-promote-policy.js and *)
(* the refusals of the cancel and expiry code that state these promises.     *)
CONSTANTS Bookings, Payments, BookingOf

VARIABLES stage,   \* "open", "live", "expired" or "cancelled" for each booking
          banked   \* the payments whose money is recorded

BankedFor(b) == {p \in banked : BookingOf[p] = b}

LedgerInit == /\ stage \in [Bookings -> {"open", "live"}]
              /\ banked = {}

(* Money is recorded, and may bring an open booking to life.  On an expired  *)
(* booking it is recorded and changes nothing; a cancelled one takes none.   *)
Bank(p) ==
  LET b == BookingOf[p]
  IN /\ p \notin banked
     /\ stage[b] # "cancelled"
     /\ banked' = banked \cup {p}
     /\ \/ UNCHANGED stage
        \/ stage[b] = "open" /\ stage' = [stage EXCEPT ![b] = "live"]

(* A later look at banked money may bring an open booking to life.           *)
Revisit(b) ==
  /\ stage[b] = "open" /\ BankedFor(b) # {}
  /\ stage' = [stage EXCEPT ![b] = "live"]
  /\ UNCHANGED banked

GiveUp(b) ==
  /\ BankedFor(b) = {}
  /\ \/ stage[b] = "open" /\ stage' = [stage EXCEPT ![b] = "expired"]
     \/ stage[b] # "cancelled" /\ stage' = [stage EXCEPT ![b] = "cancelled"]
  /\ UNCHANGED banked

LedgerNext == \/ \E p \in Payments : Bank(p)
              \/ \E b \in Bookings : Revisit(b) \/ GiveUp(b)

LedgerSpec == LedgerInit /\ [][LedgerNext]_<<stage, banked>>
=============================================================================
