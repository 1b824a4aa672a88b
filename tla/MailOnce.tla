------------------------------ MODULE MailOnce ------------------------------
(* What sending replies by mail promises: a draft is written and rewritten   *)
(* until somebody agrees to it; then at most one copy leaves the mailbox,    *)
(* and it says what was agreed.                                              *)
EXTENDS Naturals

CONSTANTS Drafts, Texts, NoText

VARIABLES
  stage,                 \* of each draft: "none", "draft", "approved", "deleted"
  text,                  \* its text in the database, or of the copy once one left
  copies                 \* how many left

mail == <<stage, text, copies>>

Init ==
  /\ stage = [d \in Drafts |-> "none"]
  /\ text = [d \in Drafts |-> NoText]
  /\ copies = [d \in Drafts |-> 0]

Write(d) ==
  /\ stage[d] \in {"none", "draft"}
  /\ stage' = [stage EXCEPT ![d] = "draft"]
  /\ \E t \in Texts : text' = [text EXCEPT ![d] = t]
  /\ UNCHANGED copies

Delete(d) ==
  /\ stage[d] = "draft"
  /\ stage' = [stage EXCEPT ![d] = "deleted"]
  /\ UNCHANGED <<text, copies>>

Agree(d) ==
  /\ stage[d] = "draft"
  /\ stage' = [stage EXCEPT ![d] = "approved"]
  /\ UNCHANGED <<text, copies>>

Leave(d) ==
  /\ stage[d] = "approved" /\ copies[d] = 0
  /\ copies' = [copies EXCEPT ![d] = 1]
  /\ UNCHANGED <<stage, text>>

Next == \E d \in Drafts : Write(d) \/ Delete(d) \/ Agree(d) \/ Leave(d)

Spec == Init /\ [][Next]_mail
=============================================================================
