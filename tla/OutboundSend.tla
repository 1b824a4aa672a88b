---------------------------- MODULE OutboundSend ----------------------------
(* A reply by mail from its approval on: approve and dispatch, recovery      *)
(* (staff-email-inbox-routes.js), the provider calls                         *)
(* (email-authority-bound-outbound-operation.js) and the journal that each   *)
(* of them asks first (email-outbound-send-journal-store.js).  A draft has   *)
(* one operation_id for ever, so it stands for its operation too.  Every     *)
(* transaction locks the approval or the journal row: each is one action.    *)
(* The mailbox is Microsoft Graph's.                                         *)
EXTENDS Naturals, FiniteSets

CONSTANTS
  Workers,               \* processes whose inbound worker may send by itself
  Staff,                 \* handlers of staff requests
  Nobody,
  Actor,                 \* the staff user each of them acts for
  Drafts,                \* tenant_email_reply_approvals, 1, 2, ...
  Last,                  \* inbound messages of the conversation
  Texts, NoText,
  Authored               \* what Luna or a member of the staff writes first

Senders == Workers \cup Staff

ASSUME SendAssumption ==
  /\ Workers \cap Staff = {} /\ Nobody \notin Senders
  /\ Drafts \subseteq Nat \ {0} /\ Last \in Nat
  /\ Authored \in Texts /\ NoText \notin Texts

VARIABLES
  latest,                \* messages 1..latest of the conversation are in the inbox
  approval,              \* tenant_email_reply_approvals
  journal,               \* tenant_email_outbound_send_journal, by draft
  mail,                  \* the provider's draft of each operation, and the calls made
  thread,                \* drafts mirrored into the conversation
  job                    \* where each sender's handler stands

send == <<latest, approval, journal, mail, thread, job>>

Journaled == {"claimed", "create_dispatched", "draft_created", "update_dispatched",
              "draft_updated", "send_dispatched", "reconciled_sent"}
Phases == Journaled \cup {"absent"}

SendSteps == {"approve", "claim", "create", "callCreate", "persist", "update",
              "callUpdate", "mark", "dispatch", "callSend", "reconcile", "mirror"}

Idle == [at |-> "idle", draft |-> 0, text |-> NoText, event |-> 0, closed |-> {}]

SendInit ==
  /\ latest = 0
  /\ approval = [d \in Drafts |-> [state |-> "none", text |-> NoText, event |-> 0,
                                   agreed |-> NoText, by |-> Nobody]]
  /\ journal = [d \in Drafts |-> [phase |-> "absent", actor |-> Nobody]]
  /\ mail = [d \in Drafts |-> [state |-> "none", body |-> NoText,
                               creates |-> 0, updates |-> 0, sends |-> 0]]
  /\ thread = {}
  /\ job = [s \in Senders |-> Idle]

(* phaseCouplingOk: the invocation counts each phase stands for.             *)
CreateCount(phase) == IF phase \in {"absent", "claimed"} THEN 0 ELSE 1
UpdateCount(phase) ==
  IF phase \in {"absent", "claimed", "create_dispatched", "draft_created"} THEN 0 ELSE 1
SendCount(phase) == IF phase \in {"send_dispatched", "reconciled_sent"} THEN 1 ELSE 0

Go(s, step) == job' = [job EXCEPT ![s].at = step]
End(s) == job' = [job EXCEPT ![s] = Idle]
At(s, step) == job[s].at = step
Phase(d) == journal[d].phase

(* persistNewDraftThroughStaffOwner, for the newest inbound message.         *)
InsertDraft(d) ==
  /\ approval[d].state = "none" /\ \A k \in Drafts : k < d => approval[k].state # "none"
  /\ approval' = [approval EXCEPT ![d] = [state |-> "draft", text |-> Authored,
                                          event |-> latest, agreed |-> NoText,
                                          by |-> Nobody]]

(* Mutant: the text of the request is not compared with the row's.           *)
MayApproveAny(s, d) ==
  /\ approval[d].state \in {"draft", "approved"}
  /\ approval[d].event = latest
  /\ approval[d].state = "approved" => Phase(d) = "absent"

MayApprove(s, d) ==
  /\ approval[d].state \in {"draft", "approved"}
  /\ approval[d].text = job[s].text
  /\ approval[d].event = latest
  /\ approval[d].state = "approved" => Phase(d) = "absent"

(* executeApproveAndDispatch up to its COMMIT; what goes out is the row's    *)
(* text.  "agreed" and "by" remember the request that approved it.           *)
Approve(s) ==
  LET d == job[s].draft
  IN /\ At(s, "approve")
     /\ IF MayApprove(s, d)
          THEN /\ approval' = IF approval[d].state = "draft"
                                THEN [approval EXCEPT ![d] = [@ EXCEPT !.state = "approved",
                                                      !.by = s, !.agreed = job[s].text]]
                                ELSE approval
               /\ job' = [job EXCEPT ![s] = [@ EXCEPT !.at = "claim", !.text = approval[d].text]]
          ELSE End(s) /\ UNCHANGED approval
     /\ UNCHANGED <<latest, journal, mail, thread>>

(* Where the operation goes on from the phase a journal call answered with.  *)
Onward(phase) ==
  CASE phase = "draft_created" -> "update"
    [] phase = "draft_updated" -> "dispatch"
    [] phase = "send_dispatched" -> "reconcile"
    [] OTHER -> "idle"

Resume(s, phase) == IF Onward(phase) = "idle" THEN End(s) ELSE Go(s, Onward(phase))

Advance(d, phase) == journal' = [journal EXCEPT ![d].phase = phase]

JournalOnly == UNCHANGED <<latest, approval, mail, thread>>
CallOnly == UNCHANGED <<latest, approval, journal, thread>>

(* claim: the row is inserted, or replayed to the same actor only.           *)
Claim(s) ==
  LET d == job[s].draft
  IN /\ At(s, "claim")
     /\ \/ /\ Phase(d) = "absent"
           /\ journal' = [journal EXCEPT ![d] = [phase |-> "claimed", actor |-> Actor[s]]]
           /\ Go(s, "create")
        \/ /\ Phase(d) # "absent" /\ journal[d].actor = Actor[s]
           /\ CASE Phase(d) = "claimed" -> Go(s, "create")
                [] Phase(d) = "reconciled_sent" -> Go(s, "mirror")
                [] OTHER -> Resume(s, Phase(d))
           /\ UNCHANGED journal
        \/ /\ Phase(d) # "absent" /\ journal[d].actor # Actor[s]
           /\ End(s) /\ UNCHANGED journal
     /\ JournalOnly

(* Mutant: a replay authorises the call again.                               *)
ClaimCreateAgain(s) ==
  LET d == job[s].draft
  IN /\ At(s, "create")
     /\ IF Phase(d) \in {"claimed", "create_dispatched"}
          THEN Advance(d, "create_dispatched") /\ Go(s, "callCreate")
          ELSE Resume(s, Phase(d)) /\ UNCHANGED journal
     /\ JournalOnly

(* Each of the next three authorises its caller on the transition only; a    *)
(* replay answers with the phase the row is in.                              *)
ClaimCreate(s) ==
  LET d == job[s].draft
  IN /\ At(s, "create")
     /\ IF Phase(d) = "claimed"
          THEN Advance(d, "create_dispatched") /\ Go(s, "callCreate")
          ELSE Resume(s, Phase(d)) /\ UNCHANGED journal
     /\ JournalOnly

ClaimUpdate(s) ==
  LET d == job[s].draft
  IN /\ At(s, "update")
     /\ IF Phase(d) = "draft_created"
          THEN Advance(d, "update_dispatched") /\ Go(s, "callUpdate")
          ELSE Resume(s, Phase(d)) /\ UNCHANGED journal
     /\ JournalOnly

ClaimDispatch(s) ==
  LET d == job[s].draft
  IN /\ At(s, "dispatch")
     /\ IF Phase(d) = "draft_updated"
          THEN Advance(d, "send_dispatched") /\ Go(s, "callSend")
          ELSE Resume(s, Phase(d)) /\ UNCHANGED journal
     /\ JournalOnly

(* createReply, updateApprovedDraft and sendDraft of the transport.          *)
CallCreate(s) ==
  LET d == job[s].draft
  IN /\ At(s, "callCreate")
     /\ mail' = [mail EXCEPT ![d] = [@ EXCEPT !.state = "draft",
                                               !.creates = mail[d].creates + 1]]
     /\ Go(s, "persist") /\ CallOnly

CallUpdate(s) ==
  LET d == job[s].draft
  IN /\ At(s, "callUpdate")
     /\ mail' = [mail EXCEPT ![d] = [@ EXCEPT !.body = job[s].text,
                                               !.updates = mail[d].updates + 1]]
     /\ Go(s, "mark") /\ CallOnly

CallSend(s) ==
  LET d == job[s].draft
  IN /\ At(s, "callSend")
     /\ mail' = [mail EXCEPT ![d] = [@ EXCEPT !.state = "queued",
                                               !.sends = mail[d].sends + 1]]
     /\ Go(s, "reconcile") /\ CallOnly

(* persistDraftCreated                                                       *)
PersistDraft(s) ==
  LET d == job[s].draft
  IN /\ At(s, "persist")
     /\ IF Phase(d) = "create_dispatched"
          THEN Advance(d, "draft_created") /\ Go(s, "update")
          ELSE End(s) /\ UNCHANGED journal
     /\ JournalOnly

(* markDraftUpdated                                                          *)
MarkUpdated(s) ==
  LET d == job[s].draft
  IN /\ At(s, "mark")
     /\ IF Phase(d) = "update_dispatched"
          THEN Advance(d, "draft_updated") /\ Go(s, "dispatch")
          ELSE End(s) /\ UNCHANGED journal
     /\ JournalOnly

(* Mutant: a message that still waits in the outbox counts as sent.          *)
ReconcileQueued(s) ==
  LET d == job[s].draft
  IN /\ At(s, "reconcile")
     /\ IF mail[d].state \in {"queued", "sent"}
          THEN Advance(d, "reconciled_sent") /\ Go(s, "mirror")
          ELSE End(s) /\ UNCHANGED journal
     /\ JournalOnly

(* reconcileOnly: the provider is asked what became of the draft; while it   *)
(* is not sent the outcome stays unknown.                                    *)
Reconcile(s) ==
  LET d == job[s].draft
  IN /\ At(s, "reconcile")
     /\ IF mail[d].state = "sent"
          THEN Advance(d, "reconciled_sent") /\ Go(s, "mirror")
          ELSE End(s) /\ UNCHANGED journal
     /\ JournalOnly

(* Mutant: the reply is filed under the message it answers.                  *)
MirrorOfEvent(s) ==
  /\ At(s, "mirror")
  /\ thread' = thread \cup {job[s].event}
  /\ End(s)
  /\ UNCHANGED <<latest, approval, journal, mail>>

(* mirrorCommittedOutboundThread: a unique index keeps one row per draft.    *)
Mirror(s) ==
  /\ At(s, "mirror")
  /\ thread' = thread \cup {job[s].draft}
  /\ End(s)
  /\ UNCHANGED <<latest, approval, journal, mail>>

SendStep(s) ==
  \/ Approve(s) \/ Claim(s) \/ ClaimCreate(s) \/ ClaimUpdate(s) \/ ClaimDispatch(s)
  \/ CallCreate(s) \/ CallUpdate(s) \/ CallSend(s) \/ PersistDraft(s) \/ MarkUpdated(s)
  \/ Reconcile(s) \/ Mirror(s)

Deliver(d) ==
  /\ mail[d].state = "queued"
  /\ mail' = [mail EXCEPT ![d].state = "sent"]
  /\ UNCHANGED <<latest, approval, journal, thread, job>>

(* handleDraft, handleDeleteDraft: SQL_CAS_DRAFT and SQL_DELETE_DRAFT ask    *)
(* for state='draft'.                                                        *)
StaffDraft(d) ==
  /\ latest > 0
  /\ InsertDraft(d)
  /\ UNCHANGED <<latest, journal, mail, thread, job>>

EditDraft(d, text) ==
  /\ approval[d].state = "draft"
  /\ approval' = [approval EXCEPT ![d].text = text]
  /\ UNCHANGED <<latest, journal, mail, thread, job>>

DeleteDraft(d) ==
  /\ approval[d].state = "draft"
  /\ approval' = [approval EXCEPT ![d].state = "deleted"]
  /\ UNCHANGED <<latest, journal, mail, thread, job>>

Request(s, step, d, text) ==
  job' = [job EXCEPT ![s] = [Idle EXCEPT !.at = step, !.draft = d, !.text = text]]

(* handleApproveSend: the text is what the page showed when it was loaded.   *)
ApproveSend(s, d, text) ==
  /\ At(s, "idle") /\ approval[d].state # "none"
  /\ Request(s, "approve", d, text)
  /\ UNCHANGED <<latest, approval, journal, mail, thread>>

(* Mutant: only what is committed already may be looked at.                  *)
MayRecoverNone(d) ==
  /\ approval[d].state = "approved" /\ approval[d].event = latest
  /\ Phase(d) = "reconciled_sent"

MayRecover(d) ==
  /\ approval[d].state = "approved" /\ approval[d].event = latest
  /\ Phase(d) \in {"send_dispatched", "reconciled_sent"}

(* handleRecoverSend                                                         *)
Recover(s, d) ==
  /\ At(s, "idle") /\ MayRecover(d)
  /\ Request(s, IF Phase(d) = "send_dispatched" THEN "claim" ELSE "mirror",
              d, approval[d].text)
  /\ UNCHANGED <<latest, approval, journal, mail, thread>>
=============================================================================
