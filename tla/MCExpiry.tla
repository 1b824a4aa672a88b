------------------------------ MODULE MCExpiry ------------------------------
(* Two bookings with one payment each; the first hold lapses first.          *)
EXTENDS BookingMoney, TLC

CONSTANTS b1, b2, p1, p2, s1, s2, e1, e2

MCBookingOf == (p1 :> b1) @@ (p2 :> b2)
MCGuestOf == [p \in Payments |-> Nothing]
MCKind == [p \in Payments |-> "deposit_only"]
MCDue == [p \in Payments |-> 1]
MCTotal == [b \in Bookings |-> 2]
MCSessionPayment == (s1 :> p1) @@ (s2 :> p2)
MCEventSession == (e1 :> s1) @@ (e2 :> s2)
MCExpiryRank == (b1 :> 0) @@ (b2 :> 1)
=============================================================================
