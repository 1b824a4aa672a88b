--------------------------- MODULE MCSameDeskSend ---------------------------
(* Two workers and two members of the staff; Luna acts for one of them.      *)
EXTENDS SameDeskSend

CONSTANTS w1, w2, clerk, owner, t1, t2

MCWorkers == {w1, w2}
MCStaff == {clerk, owner}
MCActor == [s \in {w1, w2, clerk, owner} |-> IF s = clerk THEN clerk ELSE owner]
MCDrafts == 1..2
MCTexts == {t1, t2}
=============================================================================
