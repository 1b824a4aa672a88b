------------------------------ MODULE MCGuests ------------------------------
(* One booking that two guests pay in shares, one of them partly in cash.    *)
EXTENDS BookingMoney, TLC

CONSTANTS b1, g1, g2, p1, p2, cash, s1, s2, e1, e2

MCBookingOf == [p \in Payments |-> b1]
MCGuestOf == (p1 :> g1) @@ (p2 :> g2) @@ (cash :> g1)
MCKind == [p \in Payments |-> "full_amount"]
MCDue == (p1 :> 1) @@ (p2 :> 2) @@ (cash :> 1)
MCTotal == [b \in Bookings |-> 4]
MCSessionPayment == (s1 :> p1) @@ (s2 :> p2)
MCEventSession == (e1 :> s1) @@ (e2 :> s2)
MCExpiryRank == [b \in Bookings |-> 0]
=============================================================================
