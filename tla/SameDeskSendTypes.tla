-------------------------- MODULE SameDeskSendTypes --------------------------
(* Type correctness of the replies by mail, for every set of senders, drafts *)
(* and texts and every number of messages.                                   *)
EXTENDS SameDeskSend, TLAPS

(* Every step has the message and the draft it works on.                     *)
JobFits(r) ==
  /\ r.at \in SendSteps \cup {"link", "repause", "recontext", "begin"} => r.draft \in Drafts
  /\ r.at \in FlowSteps \ {"context"} => r.event \in 1..Last
  /\ r.at = "context" => latest \in 1..Last

JobsFit == \A s \in Senders : JobFits(job[s])

TypeInv == TypeOK /\ JobsFit

-----------------------------------------------------------------------------
(* The parts of the type invariant.                                          *)
ApprovalRow == [state : {"none", "draft", "approved", "deleted"}, text : Texts \cup {NoText},
                event : 0..Last, agreed : Texts \cup {NoText}, by : Senders \cup {Nobody}]
JournalRow == [phase : Phases, actor : {Actor[s] : s \in Senders} \cup {Nobody}]
MailRow == [state : {"none", "draft", "queued", "sent"}, body : Texts \cup {NoText},
            creates : Nat, updates : Nat, sends : Nat]
JobRow == [at : FlowSteps \cup SendSteps \cup {"idle"}, draft : Drafts \cup {0},
           text : Texts \cup {NoText}, event : 0..Last, closed : SUBSET Gates]
ClaimRow == [state : {"none", "leased", "linked", "dispatching", "released"},
             holder : Workers \cup {Nobody}, live : BOOLEAN]

Approvals == [Drafts -> ApprovalRow]
Journals == [Drafts -> JournalRow]
Mails == [Drafts -> MailRow]
Jobs == [Senders -> JobRow]
Claims == [1..Last -> ClaimRow]

SendTypes == /\ latest \in 0..Last /\ approval \in Approvals /\ journal \in Journals
             /\ mail \in Mails /\ thread \subseteq Drafts /\ job \in Jobs
FlowTypes == /\ paused \in BOOLEAN /\ needsHuman \in BOOLEAN /\ claim \in Claims
             /\ seen \in [Workers -> SUBSET (1..Last)]
             /\ failures \in 0..MaxFailures /\ acts \in 0..MaxStaffActs

LEMMA TypeParts == TypeOK <=> SendTypes /\ FlowTypes
BY DEF TypeOK, SendTypes, FlowTypes, Approvals, Journals, Mails, Jobs, Claims, ApprovalRow,
       JournalRow, MailRow, JobRow, ClaimRow

LEMMA TypePartsNext == TypeOK' <=> SendTypes' /\ FlowTypes'
BY DEF TypeOK, SendTypes, FlowTypes, Approvals, Journals, Mails, Jobs, Claims, ApprovalRow,
       JournalRow, MailRow, JobRow, ClaimRow

-----------------------------------------------------------------------------
(* One row of a table changes.                                               *)

LEMMA PutApproval ==
  ASSUME approval \in Approvals, NEW d \in Drafts, NEW row \in ApprovalRow,
         approval' = [approval EXCEPT ![d] = row]
  PROVE  approval' \in Approvals
BY DEF Approvals

LEMMA PutJournal ==
  ASSUME journal \in Journals, NEW d \in Drafts, NEW row \in JournalRow,
         journal' = [journal EXCEPT ![d] = row]
  PROVE  journal' \in Journals
BY DEF Journals

LEMMA PutMail ==
  ASSUME mail \in Mails, NEW d \in Drafts, NEW row \in MailRow,
         mail' = [mail EXCEPT ![d] = row]
  PROVE  mail' \in Mails
BY DEF Mails

LEMMA MailRows ==
  ASSUME NEW r \in MailRow, NEW n \in Nat, NEW t \in Texts \cup {NoText}
  PROVE  /\ [r EXCEPT !.state = "draft", !.creates = n] \in MailRow
         /\ [r EXCEPT !.body = t, !.updates = n] \in MailRow
         /\ [r EXCEPT !.state = "queued", !.sends = n] \in MailRow
<1>1. [r EXCEPT !.state = "draft", !.creates = n] \in MailRow
  BY DEF MailRow
<1>2. [r EXCEPT !.body = t, !.updates = n] \in MailRow
  BY DEF MailRow
<1>3. [r EXCEPT !.state = "queued", !.sends = n] \in MailRow
  BY DEF MailRow
<1> QED BY <1>1, <1>2, <1>3

LEMMA PutClaim ==
  ASSUME claim \in Claims, NEW e \in 1..Last, NEW row \in ClaimRow,
         claim' = [claim EXCEPT ![e] = row]
  PROVE  claim' \in Claims
BY DEF Claims

LEMMA PutJob ==
  ASSUME job \in Jobs, JobsFit, NEW s \in Senders, NEW row \in JobRow,
         JobFits(row), job' = [job EXCEPT ![s] = row], latest' = latest
  PROVE  job' \in Jobs /\ JobsFit'
<1>1. job' \in Jobs
  BY DEF Jobs
<1>2. ASSUME NEW k \in Senders
      PROVE  JobFits(job[k])'
  <2>1. job'[k] = IF k = s THEN row ELSE job[k]
    BY DEF Jobs
  <2>2. JobFits(job[k])
    BY DEF JobsFit
  <2> QED BY <2>1, <2>2 DEF JobFits
<1> QED BY <1>1, <1>2 DEF JobsFit

LEMMA EndTyped ==
  ASSUME job \in Jobs, JobsFit, NEW s \in Senders, End(s), latest' = latest
  PROVE  job' \in Jobs /\ JobsFit'
<1>1. Idle \in JobRow
  BY SendAssumption DEF Idle, JobRow
<1>2. JobFits(Idle)
  BY DEF JobFits, Idle, SendSteps, FlowSteps
<1> QED BY <1>1, <1>2, PutJob DEF End

LEMMA GoTyped ==
  ASSUME job \in Jobs, JobsFit, NEW s \in Senders, NEW step \in SendSteps \cup FlowSteps,
         JobFits([job[s] EXCEPT !.at = step]), Go(s, step), latest' = latest
  PROVE  job' \in Jobs /\ JobsFit'
<1>1. job[s] \in JobRow
  BY DEF Jobs
<1>2. [job[s] EXCEPT !.at = step] \in JobRow
  BY <1>1 DEF JobRow
<1>3. job' = [job EXCEPT ![s] = [job[s] EXCEPT !.at = step]]
  BY DEF Go
<1> QED BY <1>2, <1>3, PutJob

LEMMA GoSend ==
  ASSUME job \in Jobs, JobsFit, NEW s \in Senders, NEW step \in SendSteps,
         job[s].draft \in Drafts, Go(s, step), latest' = latest
  PROVE  job' \in Jobs /\ JobsFit'
<1>1. step \notin FlowSteps /\ step # "context"
  BY DEF SendSteps, FlowSteps
<1>2. job[s] \in JobRow
  BY DEF Jobs
<1>3. /\ [job[s] EXCEPT !.at = step].at = step
      /\ [job[s] EXCEPT !.at = step].draft = job[s].draft
  BY <1>2 DEF JobRow
<1>4. JobFits([job[s] EXCEPT !.at = step])
  BY <1>1, <1>3 DEF JobFits
<1> QED BY <1>4, GoTyped

LEMMA ResumeTyped ==
  ASSUME job \in Jobs, JobsFit, NEW s \in Senders, job[s].draft \in Drafts,
         NEW phase, Resume(s, phase), latest' = latest
  PROVE  job' \in Jobs /\ JobsFit'
<1>1. CASE Onward(phase) = "idle"
  BY <1>1, EndTyped DEF Resume
<1>2. CASE Onward(phase) # "idle"
  <2>1. Onward(phase) \in {"update", "dispatch", "reconcile"}
    BY <1>2 DEF Onward
  <2>2. Onward(phase) \in SendSteps
    BY <2>1 DEF SendSteps
  <2> QED BY <1>2, <2>2, GoSend DEF Resume
<1> QED BY <1>1, <1>2

LEMMA AdvanceTyped ==
  ASSUME journal \in Journals, NEW d \in Drafts, NEW phase \in Phases, Advance(d, phase)
  PROVE  journal' \in Journals
<1>1. journal[d] \in JournalRow
  BY DEF Journals
<1>2. [journal[d] EXCEPT !.phase = phase] \in JournalRow
  BY <1>1 DEF JournalRow
<1>3. journal' = [journal EXCEPT ![d] = [journal[d] EXCEPT !.phase = phase]]
  BY DEF Advance
<1> QED BY <1>2, <1>3, PutJournal

-----------------------------------------------------------------------------
(* The operation and the staff's requests.                                   *)

LEMMA SendStepTyped ==
  ASSUME SendTypes, JobsFit, NEW s \in Senders, SendStep(s)
  PROVE  SendTypes' /\ JobsFit'
<1> DEFINE d == job[s].draft
<1>0. /\ latest \in 0..Last /\ approval \in Approvals /\ journal \in Journals
      /\ mail \in Mails /\ thread \subseteq Drafts /\ job \in Jobs /\ job[s] \in JobRow
  BY DEF SendTypes, Jobs
<1>1. SUFFICES /\ latest' = latest /\ approval' \in Approvals /\ journal' \in Journals
               /\ mail' \in Mails /\ thread' \subseteq Drafts /\ job' \in Jobs /\ JobsFit'
  BY <1>0 DEF SendTypes
<1>2. \A step \in SendSteps : At(s, step) => d \in Drafts
  BY DEF JobsFit, JobFits, At
<1>3. \A step \in SendSteps :
        d \in Drafts /\ Go(s, step) /\ latest' = latest => job' \in Jobs /\ JobsFit'
  BY <1>0, GoSend
<1>4. End(s) /\ latest' = latest => job' \in Jobs /\ JobsFit'
  BY <1>0, EndTyped
<1>5. \A phase : d \in Drafts /\ Resume(s, phase) /\ latest' = latest
                   => job' \in Jobs /\ JobsFit'
  BY <1>0, ResumeTyped
<1>6. \A phase \in Phases : d \in Drafts /\ Advance(d, phase) => journal' \in Journals
  BY <1>0, AdvanceTyped
<1>7. {"claimed", "create_dispatched", "draft_created", "update_dispatched",
       "draft_updated", "send_dispatched", "reconciled_sent"} \subseteq Phases
  BY DEF Phases, Journaled
<1>8. {"approve", "claim", "create", "callCreate", "persist", "update", "callUpdate",
       "mark", "dispatch", "callSend", "reconcile", "mirror"} \subseteq SendSteps
  BY DEF SendSteps
<1>9. d \in Drafts => approval[d] \in ApprovalRow /\ mail[d] \in MailRow
  BY <1>0 DEF Approvals, Mails
<1>10. CASE Approve(s)
  <2>1. d \in Drafts
    BY <1>2, <1>8, <1>10 DEF Approve
  <2>2. CASE MayApprove(s, d)
    <3> DEFINE agreed == [approval[d] EXCEPT !.state = "approved", !.by = s,
                                             !.agreed = job[s].text]
               going == [job[s] EXCEPT !.at = "claim", !.text = approval[d].text]
    <3>1. /\ approval' = [approval EXCEPT ![d] = agreed] \/ approval' = approval
          /\ job' = [job EXCEPT ![s] = going]
          /\ UNCHANGED <<latest, journal, mail, thread>>
      BY <1>10, <2>2 DEF Approve
    <3>2. agreed \in ApprovalRow
      BY <1>0, <1>9, <2>1 DEF ApprovalRow, JobRow
    <3>3. approval' \in Approvals
      BY <1>0, <2>1, <3>1, <3>2, PutApproval
    <3>4. going \in JobRow
      BY <1>0, <1>8, <1>9, <2>1 DEF ApprovalRow, JobRow
    <3>5. going.at = "claim" /\ going.draft = d
      BY <1>0 DEF JobRow
    <3>6. JobFits(going)
      BY <2>1, <3>5 DEF JobFits, FlowSteps
    <3> QED BY <1>0, <3>1, <3>3, <3>4, <3>6, PutJob
  <2>3. CASE ~MayApprove(s, d)
    BY <1>0, <1>4, <1>10, <2>3 DEF Approve
  <2> QED BY <2>2, <2>3
<1>11. CASE Claim(s)
  <2>1. d \in Drafts
    BY <1>2, <1>8, <1>11 DEF Claim
  <2>2. latest' = latest /\ approval' = approval /\ mail' = mail /\ thread' = thread
    BY <1>11 DEF Claim, JournalOnly
  <2>3. journal' \in Journals
    <3>1. [phase |-> "claimed", actor |-> Actor[s]] \in JournalRow
      BY <1>7 DEF JournalRow
    <3>2. \/ journal' = journal
          \/ journal' = [journal EXCEPT ![d] = [phase |-> "claimed", actor |-> Actor[s]]]
      BY <1>11 DEF Claim
    <3> QED BY <1>0, <2>1, <3>1, <3>2, PutJournal
  <2>4. \/ End(s) \/ Go(s, "create") \/ Go(s, "mirror") \/ Resume(s, Phase(d))
    BY <1>11 DEF Claim
  <2> QED BY <1>0, <1>3, <1>4, <1>5, <1>8, <2>1, <2>2, <2>3, <2>4
<1>12. CASE ClaimCreate(s)
  <2>1. d \in Drafts
    BY <1>2, <1>8, <1>12 DEF ClaimCreate
  <2> QED BY <1>0, <1>3, <1>4, <1>5, <1>6, <1>7, <1>8, <1>12, <2>1 DEF ClaimCreate, JournalOnly
<1>13. CASE ClaimUpdate(s)
  <2>1. d \in Drafts
    BY <1>2, <1>8, <1>13 DEF ClaimUpdate
  <2> QED BY <1>0, <1>3, <1>4, <1>5, <1>6, <1>7, <1>8, <1>13, <2>1 DEF ClaimUpdate, JournalOnly
<1>14. CASE ClaimDispatch(s)
  <2>1. d \in Drafts
    BY <1>2, <1>8, <1>14 DEF ClaimDispatch
  <2> QED BY <1>0, <1>3, <1>4, <1>5, <1>6, <1>7, <1>8, <1>14, <2>1 DEF ClaimDispatch, JournalOnly
<1>15. CASE PersistDraft(s)
  <2>1. d \in Drafts
    BY <1>2, <1>8, <1>15 DEF PersistDraft
  <2> QED BY <1>0, <1>3, <1>4, <1>5, <1>6, <1>7, <1>8, <1>15, <2>1 DEF PersistDraft, JournalOnly
<1>16. CASE MarkUpdated(s)
  <2>1. d \in Drafts
    BY <1>2, <1>8, <1>16 DEF MarkUpdated
  <2> QED BY <1>0, <1>3, <1>4, <1>5, <1>6, <1>7, <1>8, <1>16, <2>1 DEF MarkUpdated, JournalOnly
<1>17. CASE Reconcile(s)
  <2>1. d \in Drafts
    BY <1>2, <1>8, <1>17 DEF Reconcile
  <2> QED BY <1>0, <1>3, <1>4, <1>5, <1>6, <1>7, <1>8, <1>17, <2>1 DEF Reconcile, JournalOnly
<1>18. CASE CallCreate(s)
  <2>1. d \in Drafts
    BY <1>2, <1>8, <1>18 DEF CallCreate
  <2>2. mail[d].creates \in Nat /\ job[s].text \in Texts \cup {NoText}
    BY <1>0, <1>9, <2>1 DEF MailRow, JobRow
  <2>3. PICK n \in Nat : n = mail[d].creates + 1
    BY <2>2
  <2> DEFINE row == [mail[d] EXCEPT !.state = "draft", !.creates = n]
  <2>4. /\ mail' = [mail EXCEPT ![d] = row] /\ Go(s, "persist")
        /\ UNCHANGED <<latest, approval, journal, thread>>
    BY <1>18, <2>3 DEF CallCreate, CallOnly
  <2>5. row \in MailRow
    BY <1>9, <2>1, <2>2, <2>3 DEF MailRow
  <2>6. mail' \in Mails
    BY <1>0, <2>1, <2>4, <2>5, PutMail
  <2> QED BY <1>0, <1>3, <1>8, <2>1, <2>4, <2>6
<1>19. CASE CallUpdate(s)
  <2>1. d \in Drafts
    BY <1>2, <1>8, <1>19 DEF CallUpdate
  <2>2. mail[d].updates \in Nat /\ job[s].text \in Texts \cup {NoText}
    BY <1>0, <1>9, <2>1 DEF MailRow, JobRow
  <2>3. PICK n \in Nat : n = mail[d].updates + 1
    BY <2>2
  <2> DEFINE row == [mail[d] EXCEPT !.body = job[s].text, !.updates = n]
  <2>4. /\ mail' = [mail EXCEPT ![d] = row] /\ Go(s, "mark")
        /\ UNCHANGED <<latest, approval, journal, thread>>
    BY <1>19, <2>3 DEF CallUpdate, CallOnly
  <2>5. row \in MailRow
    BY <1>9, <2>1, <2>2, <2>3 DEF MailRow
  <2>6. mail' \in Mails
    BY <1>0, <2>1, <2>4, <2>5, PutMail
  <2> QED BY <1>0, <1>3, <1>8, <2>1, <2>4, <2>6
<1>20. CASE CallSend(s)
  <2>1. d \in Drafts
    BY <1>2, <1>8, <1>20 DEF CallSend
  <2>2. mail[d].sends \in Nat /\ job[s].text \in Texts \cup {NoText}
    BY <1>0, <1>9, <2>1 DEF MailRow, JobRow
  <2>3. PICK n \in Nat : n = mail[d].sends + 1
    BY <2>2
  <2> DEFINE row == [mail[d] EXCEPT !.state = "queued", !.sends = n]
  <2>4. /\ mail' = [mail EXCEPT ![d] = row] /\ Go(s, "reconcile")
        /\ UNCHANGED <<latest, approval, journal, thread>>
    BY <1>20, <2>3 DEF CallSend, CallOnly
  <2>5. row \in MailRow
    BY <1>9, <2>1, <2>2, <2>3 DEF MailRow
  <2>6. mail' \in Mails
    BY <1>0, <2>1, <2>4, <2>5, PutMail
  <2> QED BY <1>0, <1>3, <1>8, <2>1, <2>4, <2>6
<1>21. CASE Mirror(s)
  <2>1. d \in Drafts
    BY <1>2, <1>8, <1>21 DEF Mirror
  <2> QED BY <1>0, <1>4, <1>21, <2>1 DEF Mirror
<1> QED
  BY <1>10, <1>11, <1>12, <1>13, <1>14, <1>15, <1>16, <1>17, <1>18, <1>19, <1>20, <1>21
     DEF SendStep

LEMMA InsertTyped ==
  ASSUME SendTypes, NEW d \in Drafts, InsertDraft(d)
  PROVE  approval' \in Approvals
<1> DEFINE row == [state |-> "draft", text |-> Authored, event |-> latest,
                   agreed |-> NoText, by |-> Nobody]
<1>1. row \in ApprovalRow
  BY SendAssumption DEF ApprovalRow, SendTypes
<1>2. approval' = [approval EXCEPT ![d] = row]
  BY DEF InsertDraft
<1> QED BY <1>1, <1>2, PutApproval DEF SendTypes

LEMMA StaffTyped ==
  ASSUME SendTypes, JobsFit, NEW d \in Drafts, NEW t \in Texts,
         \/ Deliver(d) \/ StaffDraft(d) \/ EditDraft(d, t) \/ DeleteDraft(d)
         \/ \E s \in Senders : ApproveSend(s, d, t) \/ Recover(s, d)
  PROVE  SendTypes' /\ JobsFit'
<1>1. /\ latest \in 0..Last /\ approval \in Approvals /\ journal \in Journals
      /\ mail \in Mails /\ thread \subseteq Drafts /\ job \in Jobs
      /\ approval[d] \in ApprovalRow /\ mail[d] \in MailRow
  BY DEF SendTypes, Approvals, Mails
<1>2. job' = job /\ latest' = latest => job' \in Jobs /\ JobsFit'
  BY <1>1 DEF JobsFit, JobFits
<1>3. SUFFICES /\ latest' = latest /\ approval' \in Approvals /\ journal' \in Journals
               /\ mail' \in Mails /\ thread' \subseteq Drafts /\ job' \in Jobs /\ JobsFit'
  BY <1>1 DEF SendTypes
<1>4. CASE Deliver(d)
  <2>1. [mail[d] EXCEPT !.state = "sent"] \in MailRow
    BY <1>1 DEF MailRow
  <2>2. /\ mail' = [mail EXCEPT ![d] = [mail[d] EXCEPT !.state = "sent"]]
        /\ UNCHANGED <<latest, approval, journal, thread, job>>
    BY <1>4 DEF Deliver
  <2> QED BY <1>1, <1>2, <2>1, <2>2, PutMail
<1>5. CASE StaffDraft(d)
  BY <1>1, <1>2, <1>5, InsertTyped DEF StaffDraft
<1>6. CASE EditDraft(d, t)
  <2>1. [approval[d] EXCEPT !.text = t] \in ApprovalRow
    BY <1>1 DEF ApprovalRow
  <2>2. /\ approval' = [approval EXCEPT ![d] = [approval[d] EXCEPT !.text = t]]
        /\ UNCHANGED <<latest, journal, mail, thread, job>>
    BY <1>6 DEF EditDraft
  <2> QED BY <1>1, <1>2, <2>1, <2>2, PutApproval
<1>7. CASE DeleteDraft(d)
  <2>1. [approval[d] EXCEPT !.state = "deleted"] \in ApprovalRow
    BY <1>1 DEF ApprovalRow
  <2>2. /\ approval' = [approval EXCEPT ![d] = [approval[d] EXCEPT !.state = "deleted"]]
        /\ UNCHANGED <<latest, journal, mail, thread, job>>
    BY <1>7 DEF DeleteDraft
  <2> QED BY <1>1, <1>2, <2>1, <2>2, PutApproval
<1>8. ASSUME NEW s \in Senders, NEW step \in SendSteps, NEW text \in Texts \cup {NoText},
             Request(s, step, d, text), latest' = latest
      PROVE  job' \in Jobs /\ JobsFit'
  <2> DEFINE row == [Idle EXCEPT !.at = step, !.draft = d, !.text = text]
  <2>1. Idle \in JobRow
    BY SendAssumption DEF Idle, JobRow
  <2>2. row \in JobRow /\ row.at = step /\ row.draft = d
    BY <2>1 DEF JobRow
  <2>3. step \notin FlowSteps /\ step # "context"
    BY DEF SendSteps, FlowSteps
  <2>4. JobFits(row)
    BY <2>2, <2>3 DEF JobFits
  <2>5. job' = [job EXCEPT ![s] = row]
    BY <1>8 DEF Request
  <2> QED BY <1>1, <1>8, <2>2, <2>4, <2>5, PutJob
<1>9. {"approve", "claim", "mirror"} \subseteq SendSteps
  BY DEF SendSteps
<1>10. CASE \E s \in Senders : ApproveSend(s, d, t)
  <2>0. PICK s \in Senders : ApproveSend(s, d, t)
    BY <1>10
  <2>1. /\ Request(s, "approve", d, t)
        /\ UNCHANGED <<latest, approval, journal, mail, thread>>
    BY <2>0 DEF ApproveSend
  <2>2. job' \in Jobs /\ JobsFit'
    BY <1>8, <1>9, <2>1
  <2> QED BY <1>1, <2>1, <2>2
<1>11. CASE \E s \in Senders : Recover(s, d)
  <2>0. PICK s \in Senders : Recover(s, d)
    BY <1>11
  <2>1. PICK step \in {"claim", "mirror"} : Request(s, step, d, approval[d].text)
    BY <2>0 DEF Recover
  <2>2. UNCHANGED <<latest, approval, journal, mail, thread>>
    BY <2>0 DEF Recover
  <2>3. approval[d].text \in Texts \cup {NoText}
    BY <1>1 DEF ApprovalRow
  <2>4. job' \in Jobs /\ JobsFit'
    BY <1>8, <1>9, <2>1, <2>2, <2>3
  <2> QED BY <1>1, <2>2, <2>4
<1> QED BY <1>4, <1>5, <1>6, <1>7, <1>10, <1>11

-----------------------------------------------------------------------------
(* Luna's flow.                                                              *)

LEMMA GoFlow ==
  ASSUME job \in Jobs, JobsFit, NEW w \in Senders, NEW step \in FlowSteps \ {"context"},
         job[w].event \in 1..Last, job[w].draft \in Drafts \/ step \in {"save", "giveback"},
         Go(w, step), latest' = latest
  PROVE  job' \in Jobs /\ JobsFit'
<1>1. job[w] \in JobRow
  BY DEF Jobs
<1>2. /\ [job[w] EXCEPT !.at = step].at = step
      /\ [job[w] EXCEPT !.at = step].draft = job[w].draft
      /\ [job[w] EXCEPT !.at = step].event = job[w].event
  BY <1>1 DEF JobRow
<1>3. step \notin SendSteps
  BY DEF SendSteps, FlowSteps
<1>4. JobFits([job[w] EXCEPT !.at = step])
  BY <1>2, <1>3 DEF JobFits
<1> QED BY <1>4, GoTyped

LEMMA FlowTyped ==
  ASSUME SendTypes, FlowTypes, JobsFit, NEW w \in Workers,
         StartFlow(w) \/ FlowStep(w) \/ SaveUncertain(w)
  PROVE  SendTypes' /\ FlowTypes' /\ JobsFit'
<1> DEFINE e == job[w].event
<1>1. /\ latest \in 0..Last /\ approval \in Approvals /\ journal \in Journals
      /\ mail \in Mails /\ thread \subseteq Drafts /\ job \in Jobs
      /\ claim \in Claims /\ seen \in [Workers -> SUBSET (1..Last)]
      /\ paused \in BOOLEAN /\ needsHuman \in BOOLEAN
      /\ w \in Senders /\ job[w] \in JobRow
  BY DEF SendTypes, FlowTypes, Jobs, Senders
<1>2. SUFFICES /\ latest' = latest /\ journal' = journal /\ mail' = mail
               /\ thread' = thread /\ paused' = paused /\ needsHuman' = needsHuman
               /\ acts' = acts /\ failures' \in 0..MaxFailures
               /\ seen' \in [Workers -> SUBSET (1..Last)]
               /\ approval' \in Approvals /\ claim' \in Claims /\ job' \in Jobs /\ JobsFit'
  BY <1>1 DEF SendTypes, FlowTypes
<1>3. failures \in 0..MaxFailures
  BY DEF FlowTypes
<1>4. End(w) /\ latest' = latest => job' \in Jobs /\ JobsFit'
  BY <1>1, EndTyped
<1>5. \A step \in FlowSteps \ {"context"} : At(w, step) => e \in 1..Last
  BY <1>1 DEF JobsFit, JobFits, At
<1>6. \A step \in {"link", "repause", "recontext", "begin"} : At(w, step) => job[w].draft \in Drafts
  BY <1>1 DEF JobsFit, JobFits, At
<1>7. /\ {"take", "save", "link", "repause", "recontext", "begin", "giveback"}
            \subseteq FlowSteps \ {"context"}
      /\ "approve" \in SendSteps \ FlowSteps
  BY DEF FlowSteps, SendSteps
<1>8. \A step \in FlowSteps \ {"context"} :
        /\ e \in 1..Last /\ (job[w].draft \in Drafts \/ step \in {"save", "giveback"})
        /\ Go(w, step) /\ latest' = latest
        => job' \in Jobs /\ JobsFit'
  BY <1>1, GoFlow
<1>9. ASSUME NEW c \in 1..Last
      PROVE  claim[c] \in ClaimRow
  BY <1>1 DEF Claims
<1>10. CASE StartFlow(w)
  <2>1. PICK m \in (1..latest) \ seen[w] : seen' = [seen EXCEPT ![w] = @ \cup {m}]
    BY <1>10 DEF StartFlow
  <2>2. latest \in 1..Last /\ m \in 1..Last
    BY <1>1, <2>1, SendAssumption
  <2>3. seen' \in [Workers -> SUBSET (1..Last)]
    BY <1>1, <2>1, <2>2
  <2>4. /\ UNCHANGED job \/ Go(w, "context")
        /\ UNCHANGED <<latest, approval, journal, mail, thread, gates, claim, counts>>
    BY <1>10 DEF StartFlow
  <2>5. CASE UNCHANGED job
    BY <1>1, <1>3, <2>3, <2>4, <2>5 DEF JobsFit, JobFits, gates, counts
  <2>6. CASE Go(w, "context")
    <3>1. [job[w] EXCEPT !.at = "context"].at = "context"
      BY <1>1 DEF JobRow
    <3>2. JobFits([job[w] EXCEPT !.at = "context"])
      BY <2>2, <3>1 DEF JobFits, SendSteps
    <3>3. "context" \in FlowSteps
      BY DEF FlowSteps
    <3>4. job' \in Jobs /\ JobsFit'
      BY <1>1, <2>4, <2>6, <3>2, <3>3, GoTyped
    <3> QED BY <1>1, <1>3, <2>3, <2>4, <3>4 DEF gates, counts
  <2> QED BY <2>4, <2>5, <2>6
<1>11. CASE ReadContext(w)
  <2>1. UNCHANGED <<latest, approval, journal, mail, thread, gates, claim, seen, counts>>
    BY <1>11 DEF ReadContext, FlowOnly
  <2>2. latest \in 1..Last
    BY <1>1, <1>11 DEF ReadContext, At, JobsFit, JobFits
  <2> DEFINE row == [job[w] EXCEPT !.at = "take", !.event = latest]
  <2>3. row \in JobRow /\ row.at = "take" /\ row.event = latest
    BY <1>1, <1>7 DEF JobRow
  <2>4. JobFits(row)
    BY <2>2, <2>3 DEF JobFits, SendSteps
  <2>5. End(w) \/ job' = [job EXCEPT ![w] = row]
    BY <1>11 DEF ReadContext
  <2>6. job' \in Jobs /\ JobsFit'
    BY <1>1, <1>4, <2>1, <2>3, <2>4, <2>5, PutJob
  <2> QED BY <1>1, <1>3, <2>1, <2>6 DEF gates, counts
<1>12. CASE TakeClaim(w)
  <2>1. UNCHANGED <<latest, approval, journal, mail, thread, gates, seen, counts>>
    BY <1>12 DEF TakeClaim, FlowOnly
  <2>2. e \in 1..Last
    BY <1>5, <1>7, <1>12 DEF TakeClaim
  <2>3. [state |-> "leased", holder |-> w, live |-> TRUE] \in ClaimRow
    BY DEF ClaimRow
  <2>4. \/ /\ claim' = [claim EXCEPT ![e] = [state |-> "leased", holder |-> w, live |-> TRUE]]
           /\ Go(w, "save")
        \/ End(w) /\ claim' = claim
    BY <1>12 DEF TakeClaim
  <2>5. claim' \in Claims
    BY <1>1, <2>2, <2>3, <2>4, PutClaim
  <2>6. job' \in Jobs /\ JobsFit'
    BY <1>4, <1>7, <1>8, <2>1, <2>2, <2>4
  <2> QED BY <1>1, <1>3, <2>1, <2>5, <2>6 DEF gates, counts
<1>13. CASE SaveDraft(w)
  <2>1. UNCHANGED <<latest, journal, mail, thread, gates, claim, seen, counts>>
    BY <1>13 DEF SaveDraft
  <2>2. e \in 1..Last
    BY <1>5, <1>7, <1>13 DEF SaveDraft
  <2>3. CASE e = latest
    <3>1. PICK d \in Drafts :
            /\ InsertDraft(d)
            /\ job' = [job EXCEPT ![w] = [job[w] EXCEPT !.at = "link", !.draft = d,
                                                         !.text = Authored]]
      BY <1>13, <2>3 DEF SaveDraft
    <3>2. approval' \in Approvals
      BY <3>1, InsertTyped
    <3> DEFINE row == [job[w] EXCEPT !.at = "link", !.draft = d, !.text = Authored]
    <3>3. row \in JobRow /\ row.at = "link" /\ row.draft = d /\ row.event = e
      BY <1>1, <1>7, SendAssumption DEF JobRow
    <3>4. JobFits(row)
      BY <2>2, <3>3 DEF JobFits, SendSteps
    <3>5. job' \in Jobs /\ JobsFit'
      BY <1>1, <2>1, <3>1, <3>3, <3>4, PutJob
    <3> QED BY <1>1, <1>3, <2>1, <3>2, <3>5 DEF gates, counts
  <2>4. CASE e # latest
    <3>1. Go(w, "giveback") /\ approval' = approval
      BY <1>13, <2>4 DEF SaveDraft
    <3>2. job' \in Jobs /\ JobsFit'
      BY <1>7, <1>8, <2>1, <2>2, <3>1
    <3> QED BY <1>1, <1>3, <2>1, <3>1, <3>2 DEF gates, counts
  <2> QED BY <2>3, <2>4
<1>14. CASE SaveUncertain(w)
  <2>1. /\ UNCHANGED <<latest, journal, mail, thread, gates, claim, seen, acts>>
        /\ Go(w, "giveback")
        /\ failures < MaxFailures /\ failures' = failures + 1
    BY <1>14 DEF SaveUncertain
  <2>2. e \in 1..Last
    BY <1>5, <1>7, <1>14 DEF SaveUncertain
  <2>3. approval' \in Approvals
    BY <1>1, <1>14, InsertTyped DEF SaveUncertain
  <2>4. job' \in Jobs /\ JobsFit'
    BY <1>7, <1>8, <2>1, <2>2
  <2>5. failures' \in 0..MaxFailures
    BY <1>3, <2>1, BoundAssumption
  <2> QED BY <1>1, <2>1, <2>3, <2>4, <2>5 DEF gates
<1>15. CASE LinkApproval(w)
  <2>1. UNCHANGED <<latest, approval, journal, mail, thread, gates, seen, counts>>
    BY <1>15 DEF LinkApproval, FlowOnly
  <2>2. e \in 1..Last /\ job[w].draft \in Drafts
    BY <1>5, <1>6, <1>7, <1>15 DEF LinkApproval
  <2> DEFINE row == [job[w] EXCEPT !.at = "repause", !.closed = Closed(paused, needsHuman)]
             linked == [claim[e] EXCEPT !.state = "linked"]
  <2>3. \/ claim' = [claim EXCEPT ![e] = linked] /\ job' = [job EXCEPT ![w] = row]
        \/ Go(w, "giveback") /\ claim' = claim
    BY <1>15 DEF LinkApproval
  <2>4. linked \in ClaimRow
    BY <1>9, <2>2 DEF ClaimRow
  <2>5. Closed(paused, needsHuman) \in SUBSET Gates
    BY DEF Closed, Gates
  <2>6. /\ row \in JobRow /\ row.at = "repause"
        /\ row.draft = job[w].draft /\ row.event = e
    BY <1>1, <1>7, <2>5 DEF JobRow
  <2>7. JobFits(row)
    BY <2>2, <2>6 DEF JobFits
  <2>8. job' \in Jobs /\ JobsFit'
    BY <1>1, <1>7, <1>8, <2>1, <2>2, <2>3, <2>6, <2>7, PutJob
  <2>9. claim' \in Claims
    BY <1>1, <2>2, <2>3, <2>4, PutClaim
  <2> QED BY <1>1, <1>3, <2>1, <2>8, <2>9 DEF gates, counts
<1>16. CASE RereadPause(w)
  <2>1. /\ UNCHANGED <<latest, approval, journal, mail, thread, gates, claim, seen, counts>>
        /\ Go(w, "giveback") \/ Go(w, "recontext")
    BY <1>16 DEF RereadPause, FlowOnly
  <2>2. e \in 1..Last /\ job[w].draft \in Drafts
    BY <1>5, <1>6, <1>7, <1>16 DEF RereadPause
  <2>3. job' \in Jobs /\ JobsFit'
    BY <1>7, <1>8, <2>1, <2>2
  <2> QED BY <1>1, <1>3, <2>1, <2>3 DEF gates, counts
<1>17. CASE RereadContext(w)
  <2>1. /\ UNCHANGED <<latest, approval, journal, mail, thread, gates, claim, seen, counts>>
        /\ Go(w, "giveback") \/ Go(w, "begin")
    BY <1>17 DEF RereadContext, FlowOnly
  <2>2. e \in 1..Last /\ job[w].draft \in Drafts
    BY <1>5, <1>6, <1>7, <1>17 DEF RereadContext
  <2>3. job' \in Jobs /\ JobsFit'
    BY <1>7, <1>8, <2>1, <2>2
  <2> QED BY <1>1, <1>3, <2>1, <2>3 DEF gates, counts
<1>18. CASE BeginDispatch(w)
  <2>1. UNCHANGED <<latest, approval, journal, mail, thread, gates, seen, counts>>
    BY <1>18 DEF BeginDispatch, FlowOnly
  <2>2. e \in 1..Last /\ job[w].draft \in Drafts
    BY <1>5, <1>6, <1>7, <1>18 DEF BeginDispatch
  <2> DEFINE row == [job[w] EXCEPT !.at = "approve", !.closed = {}]
             begun == [claim[e] EXCEPT !.state = "dispatching"]
  <2>3. \/ claim' = [claim EXCEPT ![e] = begun] /\ job' = [job EXCEPT ![w] = row]
        \/ End(w) /\ claim' = claim
    BY <1>18 DEF BeginDispatch
  <2>4. begun \in ClaimRow
    BY <1>9, <2>2 DEF ClaimRow
  <2>5. {} \in SUBSET Gates
    OBVIOUS
  <2>6. row \in JobRow /\ row.at = "approve" /\ row.draft = job[w].draft
    BY <1>1, <1>7, <2>5 DEF JobRow
  <2>7. JobFits(row)
    BY <1>7, <2>2, <2>6 DEF JobFits
  <2>8. job' \in Jobs /\ JobsFit'
    BY <1>1, <1>4, <2>1, <2>3, <2>6, <2>7, PutJob
  <2>9. claim' \in Claims
    BY <1>1, <2>2, <2>3, <2>4, PutClaim
  <2> QED BY <1>1, <1>3, <2>1, <2>8, <2>9 DEF gates, counts
<1>19. CASE GiveBack(w)
  <2>1. UNCHANGED <<latest, approval, journal, mail, thread, gates, seen, counts>>
    BY <1>19 DEF GiveBack, FlowOnly
  <2>2. e \in 1..Last
    BY <1>5, <1>7, <1>19 DEF GiveBack
  <2> DEFINE released == [claim[e] EXCEPT !.state = "released", !.live = FALSE]
  <2>3. claim' = [claim EXCEPT ![e] = released] \/ claim' = claim
    BY <1>19 DEF GiveBack
  <2>4. released \in ClaimRow
    BY <1>9, <2>2 DEF ClaimRow
  <2>5. claim' \in Claims
    BY <1>1, <2>2, <2>3, <2>4, PutClaim
  <2>6. job' \in Jobs /\ JobsFit'
    BY <1>4, <1>19, <2>1 DEF GiveBack
  <2> QED BY <1>1, <1>3, <2>1, <2>5, <2>6 DEF gates, counts
<1> QED
  BY <1>10, <1>11, <1>12, <1>13, <1>14, <1>15, <1>16, <1>17, <1>18, <1>19 DEF FlowStep

-----------------------------------------------------------------------------
LEMMA AroundTyped ==
  ASSUME SendTypes, FlowTypes, JobsFit,
         \/ \E s \in Senders : Lost(s)
         \/ \E e \in 1..Last : LeaseEnds(e)
         \/ \E p, n \in BOOLEAN : SetGates(p, n)
         \/ Post
  PROVE  SendTypes' /\ FlowTypes' /\ JobsFit'
<1>1. /\ latest \in 0..Last /\ approval \in Approvals /\ journal \in Journals
      /\ mail \in Mails /\ thread \subseteq Drafts /\ job \in Jobs
      /\ claim \in Claims /\ seen \in [Workers -> SUBSET (1..Last)]
      /\ paused \in BOOLEAN /\ needsHuman \in BOOLEAN
      /\ failures \in 0..MaxFailures /\ acts \in 0..MaxStaffActs
  BY DEF SendTypes, FlowTypes
<1>2. CASE \E s \in Senders : Lost(s)
  <2>1. PICK s \in Senders : Lost(s)
    BY <1>2
  <2>2. /\ failures < MaxFailures /\ failures' = failures + 1 /\ End(s)
        /\ UNCHANGED <<latest, approval, journal, mail, thread, gates, claim, seen, acts>>
    BY <2>1 DEF Lost
  <2>3. failures' \in 0..MaxFailures
    BY <1>1, <2>2, BoundAssumption
  <2>4. job' \in Jobs /\ JobsFit'
    BY <1>1, <2>2, EndTyped
  <2> QED BY <1>1, <2>2, <2>3, <2>4 DEF SendTypes, FlowTypes, gates
<1>3. CASE \E e \in 1..Last : LeaseEnds(e)
  <2>1. PICK e \in 1..Last : LeaseEnds(e)
    BY <1>3
  <2>2. /\ failures' = failures \/ (failures < MaxFailures /\ failures' = failures + 1)
        /\ claim' = [claim EXCEPT ![e] = [claim[e] EXCEPT !.live = FALSE]]
        /\ UNCHANGED <<latest, approval, journal, mail, thread, job, gates, seen, acts>>
    BY <2>1 DEF LeaseEnds, send
  <2>3. failures' \in 0..MaxFailures
    BY <1>1, <2>2, BoundAssumption
  <2>4. claim[e] \in ClaimRow
    BY <1>1 DEF Claims
  <2>5. [claim[e] EXCEPT !.live = FALSE] \in ClaimRow
    BY <2>4 DEF ClaimRow
  <2>6. claim' \in Claims
    BY <1>1, <2>2, <2>5, PutClaim
  <2>7. JobsFit'
    BY <2>2 DEF JobsFit, JobFits
  <2> QED BY <1>1, <2>2, <2>3, <2>6, <2>7 DEF SendTypes, FlowTypes, gates
<1>4. CASE \E p, n \in BOOLEAN : SetGates(p, n)
  <2>1. PICK p \in BOOLEAN, n \in BOOLEAN : SetGates(p, n)
    BY <1>4
  <2>2. /\ acts < MaxStaffActs /\ acts' = acts + 1 /\ paused' = p /\ needsHuman' = n
        /\ job' = [s \in Senders |->
                     [job[s] EXCEPT !.closed = job[s].closed \cap Closed(p, n)]]
        /\ UNCHANGED <<latest, approval, journal, mail, thread, claim, seen, failures>>
    BY <2>1 DEF SetGates
  <2>3. acts' \in 0..MaxStaffActs
    BY <1>1, <2>2, BoundAssumption
  <2>4. ASSUME NEW s \in Senders
        PROVE  job'[s] \in JobRow /\ JobFits(job[s])'
    <3>1. job[s] \in JobRow /\ JobFits(job[s])
      BY <1>1 DEF Jobs, JobsFit
    <3>2. job[s].closed \cap Closed(p, n) \in SUBSET Gates
      BY <3>1 DEF JobRow
    <3>3. job'[s] = [job[s] EXCEPT !.closed = job[s].closed \cap Closed(p, n)]
      BY <2>2
    <3>4. /\ job'[s] \in JobRow /\ job'[s].at = job[s].at
          /\ job'[s].draft = job[s].draft /\ job'[s].event = job[s].event
      BY <3>1, <3>2, <3>3 DEF JobRow
    <3> QED BY <2>2, <3>1, <3>4 DEF JobFits
  <2>5. job' = [s \in Senders |-> job'[s]]
    BY <2>2
  <2>6. job' \in Jobs /\ JobsFit'
    BY <2>4, <2>5 DEF Jobs, JobsFit
  <2> QED BY <1>1, <2>2, <2>3, <2>6 DEF SendTypes, FlowTypes
<1>5. CASE Post
  <2>1. /\ latest < Last /\ latest' = latest + 1 /\ needsHuman' = TRUE
        /\ UNCHANGED <<approval, journal, mail, thread, job, paused, claim, seen, counts>>
    BY <1>5 DEF Post
  <2>2. latest' \in 0..Last /\ latest' \in 1..Last
    BY <1>1, <2>1, SendAssumption
  <2>3. JobsFit'
    BY <2>1, <2>2 DEF JobsFit, JobFits
  <2> QED BY <1>1, <2>1, <2>2, <2>3 DEF SendTypes, FlowTypes, counts
<1> QED BY <1>2, <1>3, <1>4, <1>5

LEMMA InitTyped == Init => TypeInv
<1> SUFFICES ASSUME Init
             PROVE  SendTypes /\ FlowTypes /\ JobsFit
  BY TypeParts DEF TypeInv
<1>1. Idle \in JobRow /\ JobFits(Idle)
  BY SendAssumption DEF Idle, JobRow, JobFits, SendSteps, FlowSteps
<1>2. [state |-> "none", text |-> NoText, event |-> 0, agreed |-> NoText, by |-> Nobody]
        \in ApprovalRow
  BY SendAssumption DEF ApprovalRow
<1>3. [phase |-> "absent", actor |-> Nobody] \in JournalRow
  BY DEF JournalRow, Phases
<1>4. [state |-> "none", body |-> NoText, creates |-> 0, updates |-> 0, sends |-> 0] \in MailRow
  BY DEF MailRow
<1>5. [state |-> "none", holder |-> Nobody, live |-> FALSE] \in ClaimRow
  BY DEF ClaimRow
<1>6. SendTypes
  BY <1>1, <1>2, <1>3, <1>4, SendAssumption
     DEF Init, SendInit, SendTypes, Approvals, Journals, Mails, Jobs
<1>7. FlowTypes
  <2>1. claim \in Claims
    BY <1>5 DEF Init, Claims
  <2>2. seen \in [Workers -> SUBSET (1..Last)]
    BY DEF Init
  <2>3. failures \in 0..MaxFailures /\ acts \in 0..MaxStaffActs
    BY BoundAssumption DEF Init
  <2> QED BY <2>1, <2>2, <2>3 DEF Init, FlowTypes
<1>8. JobsFit
  BY <1>1 DEF Init, SendInit, JobsFit
<1> QED BY <1>6, <1>7, <1>8

LEMMA StepTyped == TypeInv /\ [Next]_vars => TypeInv'
<1> SUFFICES ASSUME TypeInv, [Next]_vars
             PROVE  SendTypes' /\ FlowTypes' /\ JobsFit'
  BY TypePartsNext DEF TypeInv
<1>1. SendTypes /\ FlowTypes /\ JobsFit
  BY TypeParts DEF TypeInv
<1>2. Apart => FlowTypes'
  BY <1>1 DEF Apart, FlowTypes, gates, counts
<1>3. StaffAct => FlowTypes'
  BY <1>1, BoundAssumption DEF StaffAct, FlowTypes, gates
<1>4. Workers \subseteq Senders /\ Staff \subseteq Senders
  BY DEF Senders
<1>5. CASE UNCHANGED vars
  BY <1>1, <1>5 DEF vars, send, gates, counts, SendTypes, FlowTypes, JobsFit, JobFits
<1>6. CASE \E w \in Workers : StartFlow(w) \/ FlowStep(w) \/ SaveUncertain(w)
  BY <1>1, <1>6, FlowTyped
<1>7. CASE \E s \in Senders : SendStep(s) /\ Apart
  BY <1>1, <1>2, <1>7, SendStepTyped
<1>8. \A d \in Drafts, t \in Texts :
        \/ Deliver(d) \/ StaffDraft(d) \/ EditDraft(d, t) \/ DeleteDraft(d)
        \/ \E s \in Senders : ApproveSend(s, d, t) \/ Recover(s, d)
        => SendTypes' /\ JobsFit'
  BY <1>1, StaffTyped
<1>9. Authored \in Texts
  BY SendAssumption
<1>10. CASE \E s \in Staff, d \in Drafts : Ask(s, d)
  BY <1>2, <1>4, <1>8, <1>9, <1>10 DEF Ask
<1>11. CASE \E s \in Staff, d \in Drafts, t \in Texts : ApproveSend(s, d, t) /\ StaffAct
  BY <1>3, <1>4, <1>8, <1>11
<1>12. CASE \E d \in Drafts : (DeleteDraft(d) \/ StaffDraft(d)) /\ StaffAct
  BY <1>3, <1>8, <1>9, <1>12
<1>13. CASE \E d \in Drafts, t \in Texts : EditDraft(d, t) /\ StaffAct
  BY <1>3, <1>8, <1>13
<1>14. CASE \E d \in Drafts : Deliver(d) /\ Apart
  BY <1>2, <1>8, <1>9, <1>14
<1>15. CASE \/ \E s \in Senders : Lost(s)
            \/ \E e \in 1..Last : LeaseEnds(e)
            \/ \E p, n \in BOOLEAN : SetGates(p, n)
            \/ Post
  BY <1>1, <1>15, AroundTyped
<1> QED
  BY <1>5, <1>6, <1>7, <1>10, <1>11, <1>12, <1>13, <1>14, <1>15 DEF Next

LEMMA TypesHold == Spec => []TypeInv
BY InitTyped, StepTyped, PTL DEF Spec

(* In every behaviour the tables, the mailbox and the handlers of the        *)
(* replies hold what their columns allow.                                    *)
THEOREM SendTypeCorrect == Spec => []TypeOK
<1>1. TypeInv => TypeOK
  BY DEF TypeInv
<1> QED BY <1>1, TypesHold, PTL
=============================================================================
