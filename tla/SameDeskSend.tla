---------------------------- MODULE SameDeskSend ----------------------------
(* Luna's own replies: after a message was put in the inbox the worker may   *)
(* author a draft and send it like a member of the staff would               *)
(* (email-luna-microsoft-auto-create-send.js, same-desk policy), once for    *)
(* each inbound message (email-luna-same-desk-auto-send-claim.js), while     *)
(* staff write, approve and recover replies in the same conversation.        *)
(* A claim's token is fresh each time it is won and a worker has one flow at *)
(* a time, so the holder's name stands for token and epoch.                  *)
EXTENDS OutboundSend

CONSTANTS                \* bounds
  MaxFailures,           \* answers lost, processes that die, leases outlived
  MaxStaffActs           \* drafts, edits, approvals and gates moved by staff

ASSUME BoundAssumption == MaxFailures \in Nat /\ MaxStaffActs \in Nat

VARIABLES
  paused,                \* Global Pause, Luna Off or a channel that is not on auto
  needsHuman,            \* conversations.needs_human
  claim,                 \* tenant_email_same_desk_auto_send_claims, by inbound message
  seen,                  \* messages each worker ran its flow for: once, a bound
  failures, acts         \* bounded events so far

gates == <<paused, needsHuman>>
counts == <<failures, acts>>
vars == <<send, gates, claim, seen, counts>>

FlowSteps == {"context", "take", "save", "link", "repause", "recontext",
              "begin", "giveback"}

Gates == {"pause", "human"}
Closed(p, n) == (IF p THEN {"pause"} ELSE {}) \cup (IF n THEN {"human"} ELSE {})

TypeOK ==
  /\ latest \in 0..Last
  /\ approval \in [Drafts -> [state : {"none", "draft", "approved", "deleted"},
                              text : Texts \cup {NoText}, event : 0..Last,
                              agreed : Texts \cup {NoText}, by : Senders \cup {Nobody}]]
  /\ journal \in [Drafts -> [phase : Phases,
                             actor : {Actor[s] : s \in Senders} \cup {Nobody}]]
  /\ mail \in [Drafts -> [state : {"none", "draft", "queued", "sent"},
                          body : Texts \cup {NoText},
                          creates : Nat, updates : Nat, sends : Nat]]
  /\ thread \subseteq Drafts
  /\ job \in [Senders -> [at : FlowSteps \cup SendSteps \cup {"idle"},
                          draft : Drafts \cup {0}, text : Texts \cup {NoText},
                          event : 0..Last, closed : SUBSET Gates]]
  /\ paused \in BOOLEAN /\ needsHuman \in BOOLEAN
  /\ claim \in [1..Last -> [state : {"none", "leased", "linked", "dispatching", "released"},
                            holder : Workers \cup {Nobody}, live : BOOLEAN]]
  /\ seen \in [Workers -> SUBSET (1..Last)]
  /\ failures \in 0..MaxFailures /\ acts \in 0..MaxStaffActs

Init ==
  /\ SendInit
  /\ paused = FALSE /\ needsHuman = FALSE
  /\ claim = [e \in 1..Last |-> [state |-> "none", holder |-> Nobody, live |-> FALSE]]
  /\ seen = [w \in Workers |-> {}]
  /\ failures = 0 /\ acts = 0

Apart == UNCHANGED <<gates, claim, seen, counts>>
StaffAct == /\ acts < MaxStaffActs
            /\ acts' = acts + 1
            /\ UNCHANGED <<gates, claim, seen, failures>>
FlowOnly == UNCHANGED <<latest, approval, journal, mail, thread, gates, seen, counts>>

(* runProjectedInbound, for 'projected' and 'already_projected' alike, up to *)
(* the mode and the pause.                                                   *)
StartFlow(w) ==
  /\ At(w, "idle")
  /\ \E e \in (1..latest) \ seen[w] : seen' = [seen EXCEPT ![w] = @ \cup {e}]
  /\ IF paused THEN UNCHANGED job ELSE Go(w, "context")
  /\ UNCHANGED <<latest, approval, journal, mail, thread, gates, claim, counts>>

(* SQL_LOAD_AUTO_CONTEXT: the newest message, whichever one started the flow.*)
ReadContext(w) ==
  /\ At(w, "context")
  /\ IF needsHuman THEN End(w)
                   ELSE job' = [job EXCEPT ![w] = [@ EXCEPT !.at = "take", !.event = latest]]
  /\ UNCHANGED claim /\ FlowOnly

(* Mutant: a dispatch whose outcome is unknown may be claimed again.         *)
MayTakeAny(e) ==
  \/ claim[e].state \in {"none", "released"}
  \/ claim[e].state \in {"leased", "linked", "dispatching"} /\ ~claim[e].live

MayTake(e) ==
  \/ claim[e].state \in {"none", "released"}
  \/ claim[e].state \in {"leased", "linked"} /\ ~claim[e].live

(* SQL_INSERT_CLAIM, after the draft was authored.                           *)
TakeClaim(w) ==
  LET e == job[w].event
  IN /\ At(w, "take")
     /\ IF MayTake(e)
          THEN /\ claim' = [claim EXCEPT ![e] = [state |-> "leased", holder |-> w, live |-> TRUE]]
               /\ Go(w, "save")
          ELSE End(w) /\ UNCHANGED claim
     /\ FlowOnly

(* saveDraftThroughStaffOwner: stale_authority when a newer message is there.*)
SaveDraft(w) ==
  /\ At(w, "save")
  /\ IF job[w].event = latest
       THEN \E d \in Drafts :
              /\ InsertDraft(d)
              /\ job' = [job EXCEPT ![w] = [@ EXCEPT !.at = "link", !.draft = d,
                                                         !.text = Authored]]
       ELSE Go(w, "giveback") /\ UNCHANGED approval
  /\ UNCHANGED <<latest, journal, mail, thread, gates, claim, seen, counts>>

(* The COMMIT of the draft was not answered: the claim is given back.        *)
SaveUncertain(w) ==
  /\ At(w, "save") /\ failures < MaxFailures
  /\ failures' = failures + 1
  /\ \/ \E d \in Drafts : InsertDraft(d)
     \/ UNCHANGED approval
  /\ Go(w, "giveback")
  /\ UNCHANGED <<latest, journal, mail, thread, gates, claim, seen, acts>>

(* SQL_LINK_APPROVAL                                                         *)
LinkApproval(w) ==
  LET e == job[w].event
  IN /\ At(w, "link")
     /\ IF claim[e].holder = w /\ claim[e].state = "leased" /\ claim[e].live
          THEN /\ claim' = [claim EXCEPT ![e].state = "linked"]
               /\ job' = [job EXCEPT ![w] = [@ EXCEPT !.at = "repause",
                                              !.closed = Closed(paused, needsHuman)]]
          ELSE Go(w, "giveback") /\ UNCHANGED claim
     /\ FlowOnly

(* Mutant: needs_human is not read again.                                    *)
RereadPauseOnly(w) ==
  /\ At(w, "repause")
  /\ Go(w, IF paused THEN "giveback" ELSE "begin")
  /\ UNCHANGED claim /\ FlowOnly

(* rereadLiveGates: the pause, then the conversation.                        *)
RereadPause(w) ==
  /\ At(w, "repause")
  /\ Go(w, IF paused THEN "giveback" ELSE "recontext")
  /\ UNCHANGED claim /\ FlowOnly

RereadContext(w) ==
  /\ At(w, "recontext")
  /\ Go(w, IF needsHuman THEN "giveback" ELSE "begin")
  /\ UNCHANGED claim /\ FlowOnly

(* SQL_BEGIN_DISPATCH: from here on the claim is never given back.           *)
BeginDispatch(w) ==
  LET e == job[w].event
  IN /\ At(w, "begin")
     /\ IF claim[e].holder = w /\ claim[e].state = "linked" /\ claim[e].live
          THEN /\ claim' = [claim EXCEPT ![e].state = "dispatching"]
               /\ job' = [job EXCEPT ![w] = [@ EXCEPT !.at = "approve", !.closed = {}]]
          ELSE End(w) /\ UNCHANGED claim
     /\ FlowOnly

(* SQL_RELEASE_CLAIM                                                         *)
GiveBack(w) ==
  LET e == job[w].event
  IN /\ At(w, "giveback")
     /\ claim' = IF claim[e].holder = w /\ claim[e].state \in {"leased", "linked"}
                   THEN [claim EXCEPT ![e] = [@ EXCEPT !.state = "released", !.live = FALSE]]
                   ELSE claim
     /\ End(w) /\ FlowOnly

FlowStep(w) ==
  \/ ReadContext(w) \/ TakeClaim(w) \/ SaveDraft(w) \/ LinkApproval(w)
  \/ RereadPause(w) \/ RereadContext(w) \/ BeginDispatch(w) \/ GiveBack(w)

(* A process dies, a call fails, or an answer is lost: the step it belonged  *)
(* to was or was not taken before.                                           *)
Lost(s) ==
  /\ ~At(s, "idle") /\ failures < MaxFailures
  /\ failures' = failures + 1
  /\ End(s)
  /\ UNCHANGED <<latest, approval, journal, mail, thread, gates, claim, seen, acts>>

(* lease_expires_at of a claim passes, of a flow that runs or of a dead one. *)
LeaseEnds(e) ==
  /\ claim[e].live
  /\ IF \E w \in Workers : job[w].event = e /\ claim[e].holder = w
       THEN failures < MaxFailures /\ failures' = failures + 1
       ELSE UNCHANGED failures
  /\ claim' = [claim EXCEPT ![e].live = FALSE]
  /\ UNCHANGED <<send, gates, seen, acts>>

(* The next message of the guest is put in the conversation, which asks for  *)
(* a human: until staff say otherwise every flow is stopped.                 *)
Post ==
  /\ latest < Last
  /\ latest' = latest + 1
  /\ needsHuman' = TRUE
  /\ UNCHANGED <<approval, journal, mail, thread, job, paused, claim, seen, counts>>

(* Staff close and open the gates; a running flow remembers which ones have  *)
(* been closed ever since it linked its draft.                               *)
SetGates(p, n) ==
  /\ <<p, n>> # gates
  /\ acts < MaxStaffActs /\ acts' = acts + 1
  /\ paused' = p /\ needsHuman' = n
  /\ job' = [s \in Senders |-> [job[s] EXCEPT !.closed = @ \cap Closed(p, n)]]
  /\ UNCHANGED <<latest, approval, journal, mail, thread, claim, seen, failures>>

Ask(s, d) == Recover(s, d) /\ Apart

Next ==
  \/ \E w \in Workers : StartFlow(w) \/ FlowStep(w) \/ SaveUncertain(w)
  \/ \E s \in Senders : SendStep(s) /\ Apart
  \/ \E s \in Senders : Lost(s)
  \/ \E s \in Staff, d \in Drafts : Ask(s, d)
  \/ \E s \in Staff, d \in Drafts, t \in Texts : ApproveSend(s, d, t) /\ StaffAct
  \/ \E d \in Drafts : (DeleteDraft(d) \/ StaffDraft(d)) /\ StaffAct
  \/ \E d \in Drafts, t \in Texts : EditDraft(d, t) /\ StaffAct
  \/ \E d \in Drafts : Deliver(d) /\ Apart
  \/ \E e \in 1..Last : LeaseEnds(e)
  \/ \E p, n \in BOOLEAN : SetGates(p, n)
  \/ Post

(* A handler that was started goes on, Graph sends what it queued, and each  *)
(* member of the staff asks again and again what became of a reply.          *)
Fairness ==
  /\ \A s \in Senders : WF_vars(SendStep(s) /\ Apart)
  /\ \A d \in Drafts : WF_vars(Deliver(d) /\ Apart)
  /\ \A s \in Staff, d \in Drafts : SF_vars(Ask(s, d))

Spec == Init /\ [][Next]_vars /\ Fairness
-----------------------------------------------------------------------------
(* What the provider was asked to do is in the journal first: each call of   *)
(* an operation reaches it at most once, whoever dies, replays or recovers.  *)
CallsAreJournaled ==
  \A d \in Drafts :
    /\ mail[d].creates <= CreateCount(Phase(d))
    /\ mail[d].updates <= UpdateCount(Phase(d))
    /\ mail[d].sends <= SendCount(Phase(d))

(* The journal says committed, and the thread shows a reply, only when the   *)
(* provider sent it.                                                         *)
CommittedIsSent ==
  \A d \in Drafts : Phase(d) = "reconciled_sent" \/ d \in thread => mail[d].state = "sent"

(* Two workers, an outlived lease or a flow that died in the middle never    *)
(* give one message of a guest two automatic replies.                        *)
OneAutoReply ==
  \A d, k \in Drafts :
    /\ approval[d].by \in Workers /\ approval[k].by \in Workers
    /\ approval[d].event = approval[k].event
    /\ mail[d].sends > 0 /\ mail[k].sends > 0
    => d = k

(* A gate that was closed when the draft was linked and stayed closed stops  *)
(* the dispatch.                                                             *)
PausedIsNotSent ==
  [][\A w \in Workers : At(w, "begin") /\ job'[w].at = "approve" => job[w].closed = {}]_vars

(* The drafts keep MailOnce's promise: what leaves is what somebody agreed   *)
(* to, once, and nothing agreed is rewritten.                                *)
Promise == INSTANCE MailOnce WITH
  stage <- [d \in Drafts |-> approval[d].state],
  text <- [d \in Drafts |-> IF mail[d].sends > 0 THEN mail[d].body
                            ELSE IF approval[d].state = "approved" THEN approval[d].agreed
                            ELSE approval[d].text],
  copies <- [d \in Drafts |-> mail[d].sends]

KeepsPromise == Promise!Spec

(* What the provider sent is known as sent in the end, as long as the member *)
(* of the staff it went out for keeps asking, or the guest has written again.*)
SentIsSettled ==
  \A d \in Drafts : (mail[d].state = "sent") ~>
                      (Phase(d) = "reconciled_sent" \/ approval[d].event # latest)

(* The same, whatever the guest writes meanwhile: what the recovery route    *)
(* and EMAIL-CARD-PAUSE-TOGGLE.md say of a reply in send_dispatched.         *)
SentIsRecoverable ==
  \A d \in Drafts : (mail[d].state = "sent") ~> (Phase(d) = "reconciled_sent")
=============================================================================
