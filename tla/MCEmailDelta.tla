---------------------------- MODULE MCEmailDelta ----------------------------
(* Two API processes read a mailbox of two messages, the first of which has  *)
(* no sender, in pages of up to two.                                         *)
EXTENDS EmailDelta

CONSTANTS w1, w2

MCWorkers == {w1, w2}
MCSenderless == {1}
=============================================================================
