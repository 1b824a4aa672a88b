--------------------------- MODULE MCBookingMoney ---------------------------
(* One booking with a deposit and a remaining payment, each with its session *)
(* and one event.                                                            *)
EXTENDS BookingMoney, TLC

CONSTANTS b1, p1, p2, s1, s2, e1, e2

MCBookingOf == [p \in Payments |-> b1]
MCGuestOf == [p \in Payments |-> Nothing]
MCKind == (p1 :> "deposit_only") @@ (p2 :> "full_amount")
MCDue == (p1 :> 1) @@ (p2 :> 2)
MCTotal == [b \in Bookings |-> 3]
MCSessionPayment == (s1 :> p1) @@ (s2 :> p2)
MCEventSession == (e1 :> s1) @@ (e2 :> s2)
MCExpiryRank == [b \in Bookings |-> 0]

(* The second link was made for the whole price, before the deposit.         *)
MCWholeDue == (p1 :> 1) @@ (p2 :> 3)

HookSymmetry == Permutations(Hooks)
=============================================================================
