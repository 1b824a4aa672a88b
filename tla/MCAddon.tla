------------------------------ MODULE MCAddon -------------------------------
(* One booking with a deposit and an add-on; the add-on's checkout is by a   *)
(* delayed method and has two events.                                        *)
EXTENDS BookingMoney, TLC

CONSTANTS b1, p1, addon, s1, s2, e1, early, e2

MCBookingOf == [p \in Payments |-> b1]
MCGuestOf == [p \in Payments |-> Nothing]
MCKind == (p1 :> "deposit_only") @@ (addon :> "addon_service")
MCDue == [p \in Payments |-> 1]
MCTotal == [b \in Bookings |-> 3]
MCSessionPayment == (s1 :> p1) @@ (s2 :> addon)
MCEventSession == (e1 :> s1) @@ (early :> s2) @@ (e2 :> s2)
MCExpiryRank == [b \in Bookings |-> 0]
=============================================================================
