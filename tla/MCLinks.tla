------------------------------ MODULE MCLinks -------------------------------
(* One booking with a draft for the group, which two sessions may be made    *)
(* for, and a draft for one guest.                                           *)
EXTENDS BookingMoney, TLC

CONSTANTS b1, p1, p2, g1, s1, s2, s3, e1, e2, e3

MCBookingOf == [p \in Payments |-> b1]
MCGuestOf == (p1 :> Nothing) @@ (p2 :> g1)
MCKind == (p1 :> "deposit_only") @@ (p2 :> "full_amount")
MCDue == [p \in Payments |-> 1]
MCTotal == [b \in Bookings |-> 2]
MCSessionPayment == (s1 :> p1) @@ (s2 :> p1) @@ (s3 :> p2)
MCEventSession == (e1 :> s1) @@ (e2 :> s2) @@ (e3 :> s3)
MCExpiryRank == [b \in Bookings |-> 0]
=============================================================================
