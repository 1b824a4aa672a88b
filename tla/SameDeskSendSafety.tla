-------------------------- MODULE SameDeskSendSafety --------------------------
(* What the replies by mail guarantee, for every set of senders, drafts and  *)
(* texts and every number of messages.                                       *)
EXTENDS SameDeskSendTypes

(* From the transition that authorises a call of the provider to the one     *)
(* that records its answer the operation is at.                              *)
Calls == {"callCreate", "persist", "callUpdate", "mark", "callSend"}

CallerFits(s) ==
  LET d == job[s].draft
  IN /\ At(s, "callCreate") => Phase(d) = "create_dispatched" /\ mail[d].creates = 0
     /\ At(s, "persist") => Phase(d) = "create_dispatched"
     /\ At(s, "callUpdate") => Phase(d) = "update_dispatched" /\ mail[d].updates = 0
     /\ At(s, "mark") => Phase(d) = "update_dispatched" /\ mail[d].updates > 0
     /\ At(s, "callSend") => Phase(d) = "send_dispatched" /\ mail[d].sends = 0
     /\ At(s, "mirror") => mail[d].state = "sent"

Alone(s, k) ==
  job[s].draft = job[k].draft /\ job[s].at \in Calls /\ job[k].at \in Calls => s = k

MailFits(d) ==
  /\ mail[d].creates <= CreateCount(Phase(d))
  /\ mail[d].updates <= UpdateCount(Phase(d))
  /\ mail[d].sends <= SendCount(Phase(d))
  /\ mail[d].state \in {"queued", "sent"} => mail[d].sends > 0
  /\ Phase(d) \in {"draft_updated", "send_dispatched", "reconciled_sent"} => mail[d].updates > 0
  /\ Phase(d) = "reconciled_sent" \/ d \in thread => mail[d].state = "sent"

CallInv ==
  /\ \A s \in Senders : CallerFits(s)
  /\ \A s, k \in Senders : Alone(s, k)
  /\ \A d \in Drafts : MailFits(d)

-----------------------------------------------------------------------------
(* What a step does to the jobs.                                             *)
Others(s) == \A k \in Senders : k # s => job'[k] = job[k]

Moves(s, step) ==
  /\ job'[s].at = step /\ job'[s].draft = job[s].draft /\ job'[s].text = job[s].text
  /\ job'[s].event = job[s].event /\ job'[s].closed = job[s].closed
  /\ Others(s)

Ends(s) == job'[s] = Idle /\ Others(s)

LEMMA GoMoves ==
  ASSUME job \in Jobs, NEW s \in Senders, NEW step, Go(s, step)
  PROVE  Moves(s, step)
<1>1. job[s] \in JobRow
  BY DEF Jobs
<1>2. job' = [job EXCEPT ![s] = [job[s] EXCEPT !.at = step]]
  BY DEF Go
<1>3. job'[s] = [job[s] EXCEPT !.at = step]
  BY <1>2 DEF Jobs
<1> QED BY <1>1, <1>2, <1>3 DEF Moves, Others, Jobs, JobRow

LEMMA EndEnds ==
  ASSUME job \in Jobs, NEW s \in Senders, End(s)
  PROVE  Ends(s)
BY DEF End, Ends, Others, Jobs

LEMMA ResumeMoves ==
  ASSUME job \in Jobs, NEW s \in Senders, NEW phase, Resume(s, phase)
  PROVE  \/ Ends(s)
         \/ Moves(s, "update") /\ phase = "draft_created"
         \/ Moves(s, "dispatch") /\ phase = "draft_updated"
         \/ Moves(s, "reconcile") /\ phase = "send_dispatched"
<1>1. CASE Onward(phase) = "idle"
  BY <1>1, EndEnds DEF Resume
<1>2. CASE Onward(phase) # "idle"
  BY <1>2, GoMoves DEF Resume, Onward
<1> QED BY <1>1, <1>2

LEMMA RequestStarts ==
  ASSUME job \in Jobs, NEW s \in Senders, NEW step, NEW d, NEW text,
         Request(s, step, d, text)
  PROVE  /\ job'[s].at = step /\ job'[s].draft = d /\ job'[s].text = text
         /\ job'[s].event = 0 /\ job'[s].closed = {} /\ Others(s)
BY DEF Request, Others, Jobs, Idle

LEMMA AdvanceMoves ==
  ASSUME journal \in Journals, NEW d \in Drafts, NEW phase, Advance(d, phase)
  PROVE  /\ journal'[d].phase = phase /\ journal'[d].actor = journal[d].actor
         /\ \A k \in Drafts : k # d => journal'[k] = journal[k]
<1>1. journal[d] \in JournalRow
  BY DEF Journals
<1> QED BY <1>1 DEF Advance, Journals, JournalRow

-----------------------------------------------------------------------------
(* Steps that neither call the provider nor write the journal.               *)

LEMMA QuietStep ==
  ASSUME CallInv, UNCHANGED <<journal, mail, thread>>,
         \A k \in Senders :
           \/ job'[k].at = job[k].at /\ job'[k].draft = job[k].draft
           \/ job'[k].at \notin Calls \cup {"mirror"}
           \/ job'[k].at = "mirror" /\ mail[job'[k].draft].state = "sent"
  PROVE  CallInv'
<1>1. \A s \in Senders : CallerFits(s)'
  BY DEF CallInv, CallerFits, At, Phase, Calls
<1>2. \A s, k \in Senders : Alone(s, k)'
  BY DEF CallInv, Alone, Calls
<1>3. \A d \in Drafts : MailFits(d)'
  BY DEF CallInv, MailFits, Phase
<1> QED BY <1>1, <1>2, <1>3 DEF CallInv

-----------------------------------------------------------------------------
(* The operation.  A transition that authorises a call, the call and what    *)
(* records its answer change the counts and the phase of one draft only, and *)
(* nobody else is between them.                                              *)

LEMMA PhaseStep ==
  ASSUME SendTypes, JobsFit, CallInv, NEW s \in Senders, NEW phase \in Phases, NEW step,
         job[s].draft \in Drafts, Advance(job[s].draft, phase), Moves(s, step),
         UNCHANGED <<mail, thread>>,
         \/ phase = "create_dispatched" /\ step = "callCreate" /\ Phase(job[s].draft) = "claimed"
         \/ phase = "draft_created" /\ job[s].at = "persist" /\ step = "update"
         \/ phase = "update_dispatched" /\ step = "callUpdate" /\ Phase(job[s].draft) = "draft_created"
         \/ phase = "draft_updated" /\ job[s].at = "mark" /\ step = "dispatch"
         \/ phase = "send_dispatched" /\ step = "callSend" /\ Phase(job[s].draft) = "draft_updated"
         \/ phase = "reconciled_sent" /\ step = "mirror" /\ mail[job[s].draft].state = "sent"
  PROVE  CallInv'
<1> DEFINE d == job[s].draft
<1>1. /\ \A k \in Drafts : mail[k].creates \in Nat /\ mail[k].updates \in Nat
                          /\ mail[k].sends \in Nat
      /\ journal \in Journals
  BY DEF SendTypes, Mails, MailRow
<1>2. /\ journal'[d].phase = phase
      /\ \A k \in Drafts : k # d => journal'[k] = journal[k]
  BY <1>1, AdvanceMoves
<1>3. MailFits(d) /\ CallerFits(s)
  BY DEF CallInv
<1>4. mail[d].sends > 0 => Phase(d) \in {"send_dispatched", "reconciled_sent"}
  BY <1>1, <1>3 DEF MailFits, SendCount
<1>5. ASSUME NEW k \in Drafts
      PROVE  MailFits(k)'
  <2>1. CASE k # d
    BY <1>2, <2>1 DEF CallInv, MailFits, Phase
  <2>2. CASE k = d
    BY <1>1, <1>2, <1>3, <1>4, <2>2
       DEF Phase, MailFits, CallerFits, At, CreateCount, UpdateCount, SendCount
  <2> QED BY <2>1, <2>2
<1>6. ASSUME NEW k \in Senders
      PROVE  CallerFits(k)'
  <2>1. CASE k = s
    BY <1>1, <1>2, <1>3, <1>4, <2>1
       DEF Phase, CallerFits, MailFits, At, Moves, CreateCount, UpdateCount, SendCount
  <2>2. CASE k # s /\ job[k].draft # d
    <3>1. job'[k] = job[k]
      BY <2>2 DEF Moves, Others
    <3>2. job[k].at \in SendSteps => job[k].draft \in Drafts
      BY DEF JobsFit, JobFits
    <3>3. job[k].draft \in Drafts => journal'[job[k].draft] = journal[job[k].draft]
      BY <1>2, <2>2
    <3> QED BY <3>1, <3>2, <3>3 DEF CallInv, CallerFits, At, Phase, SendSteps
  <2>3. CASE k # s /\ job[k].draft = d
    <3>1. job'[k] = job[k] /\ CallerFits(k) /\ Alone(s, k)
      BY <2>3 DEF Moves, Others, CallInv
    <3>2. job[k].at \notin Calls
      BY <1>1, <1>3, <1>4, <2>3, <3>1 DEF CallerFits, MailFits, At, Calls, Alone
    <3> QED BY <2>3, <3>1, <3>2 DEF CallerFits, At, Calls, Phase
  <2> QED BY <2>1, <2>2, <2>3
<1>7. ASSUME NEW j \in Senders, NEW k \in Senders
      PROVE  Alone(j, k)'
  <2>1. ASSUME NEW i \in Senders, i # s, job[i].draft = d, job[i].at \in Calls
        PROVE  step \notin Calls
    <3>1. CallerFits(i) /\ Alone(s, i)
      BY DEF CallInv
    <3> QED BY <1>3, <2>1, <3>1 DEF CallerFits, At, Calls, Alone
  <2>2. Alone(j, k)
    BY DEF CallInv
  <2> QED BY <2>1, <2>2 DEF Alone, Moves, Others
<1> QED BY <1>5, <1>6, <1>7 DEF CallInv

(* The provider is called by whoever the journal authorised, alone.          *)
LEMMA CallStep ==
  ASSUME SendTypes, JobsFit, CallInv, NEW s \in Senders,
         CallCreate(s) \/ CallUpdate(s) \/ CallSend(s)
  PROVE  CallInv'
<1> DEFINE d == job[s].draft
<1>1. /\ \A k \in Drafts : /\ mail[k] \in MailRow /\ mail[k].creates \in Nat
                          /\ mail[k].updates \in Nat /\ mail[k].sends \in Nat
      /\ job \in Jobs /\ mail \in Mails
  BY DEF SendTypes, Mails, MailRow
<1>2. d \in Drafts /\ job[s].at \in Calls
  BY DEF JobsFit, JobFits, CallCreate, CallUpdate, CallSend, At, SendSteps, Calls
<1>3. UNCHANGED <<journal, thread>> /\ \A k \in Drafts : k # d => mail'[k] = mail[k]
  BY <1>1, <1>2 DEF CallCreate, CallUpdate, CallSend, CallOnly, Mails
<1>4. MailFits(d) /\ CallerFits(s)
  BY <1>2 DEF CallInv
<1>5. \/ /\ At(s, "callCreate") /\ Moves(s, "persist") /\ mail'[d].state = "draft"
         /\ mail'[d].creates = mail[d].creates + 1 /\ mail'[d].updates = mail[d].updates
         /\ mail'[d].sends = mail[d].sends
      \/ /\ At(s, "callUpdate") /\ Moves(s, "mark") /\ mail'[d].state = mail[d].state
         /\ mail'[d].creates = mail[d].creates /\ mail'[d].updates = mail[d].updates + 1
         /\ mail'[d].sends = mail[d].sends
      \/ /\ At(s, "callSend") /\ Moves(s, "reconcile") /\ mail'[d].state = "queued"
         /\ mail'[d].creates = mail[d].creates /\ mail'[d].updates = mail[d].updates
         /\ mail'[d].sends = mail[d].sends + 1
  <2>1. CASE CallCreate(s)
    <3>1. /\ At(s, "callCreate") /\ Go(s, "persist")
          /\ mail' = [mail EXCEPT ![d] = [mail[d] EXCEPT !.state = "draft",
                                                        !.creates = mail[d].creates + 1]]
      BY <2>1 DEF CallCreate
    <3> QED BY <1>1, <1>2, <3>1, GoMoves DEF Mails, MailRow
  <2>2. CASE CallUpdate(s)
    <3>1. /\ At(s, "callUpdate") /\ Go(s, "mark")
          /\ mail' = [mail EXCEPT ![d] = [mail[d] EXCEPT !.body = job[s].text,
                                                        !.updates = mail[d].updates + 1]]
      BY <2>2 DEF CallUpdate
    <3> QED BY <1>1, <1>2, <3>1, GoMoves DEF Mails, MailRow
  <2>3. CASE CallSend(s)
    <3>1. /\ At(s, "callSend") /\ Go(s, "reconcile")
          /\ mail' = [mail EXCEPT ![d] = [mail[d] EXCEPT !.state = "queued",
                                                        !.sends = mail[d].sends + 1]]
      BY <2>3 DEF CallSend
    <3> QED BY <1>1, <1>2, <3>1, GoMoves DEF Mails, MailRow
  <2> QED BY <2>1, <2>2, <2>3
<1>6. mail[d].state # "sent"
  BY <1>1, <1>2, <1>4, <1>5 DEF CallerFits, MailFits, At, SendCount
<1>7. ASSUME NEW k \in Drafts
      PROVE  MailFits(k)'
  <2>1. CASE k # d
    BY <1>3, <2>1 DEF CallInv, MailFits, Phase
  <2>2. CASE k = d
    BY <1>1, <1>2, <1>3, <1>4, <1>5, <1>6, <2>2
       DEF Phase, MailFits, CallerFits, CreateCount, UpdateCount, SendCount
  <2> QED BY <2>1, <2>2
<1>8. ASSUME NEW k \in Senders
      PROVE  CallerFits(k)'
  <2>1. CASE k = s
    BY <1>1, <1>2, <1>3, <1>4, <1>5, <2>1 DEF Phase, CallerFits, At, Moves
  <2>2. CASE k # s
    <3>1. job'[k] = job[k] /\ CallerFits(k) /\ Alone(s, k)
      BY <1>5, <2>2 DEF Moves, Others, CallInv
    <3>2. job[k].at \in Calls \cup {"mirror"} => job[k].draft \in Drafts
      BY DEF JobsFit, JobFits, SendSteps, Calls
    <3>3. job[k].at \in Calls => job[k].draft # d
      BY <1>2, <2>2, <3>1 DEF Alone
    <3>4. job[k].at = "mirror" => job[k].draft # d
      BY <1>6, <3>1 DEF CallerFits, At
    <3> QED BY <1>3, <3>1, <3>2, <3>3, <3>4 DEF Phase, CallerFits, At, Calls
  <2> QED BY <2>1, <2>2
<1>9. \A j, k \in Senders : Alone(j, k)'
  BY <1>2, <1>5 DEF CallInv, Alone, Moves, Others, Calls
<1> QED BY <1>7, <1>8, <1>9 DEF CallInv

LEMMA SendStepCalls ==
  ASSUME SendTypes, JobsFit, CallInv, NEW s \in Senders, SendStep(s)
  PROVE  CallInv'
<1> DEFINE d == job[s].draft
<1>1. job \in Jobs /\ journal \in Journals
  BY DEF SendTypes
<1>2. job[s].at \in SendSteps => d \in Drafts
  BY DEF JobsFit, JobFits
<1>3. ASSUME UNCHANGED <<journal, mail, thread>>, Ends(s)
      PROVE  CallInv'
  BY <1>3, QuietStep DEF Ends, Others, Idle, Calls
<1>4. ASSUME NEW step, step \notin Calls, step = "mirror" => mail[d].state = "sent",
             UNCHANGED <<journal, mail, thread>>, Moves(s, step)
      PROVE  CallInv'
  BY <1>4, QuietStep DEF Moves, Others
<1>5. End(s) => Ends(s)
  BY <1>1, EndEnds
<1>6. \A step : Go(s, step) => Moves(s, step)
  BY <1>1, GoMoves
<1>7. \A phase : Resume(s, phase) /\ UNCHANGED <<journal, mail, thread>> => CallInv'
  BY <1>1, <1>3, <1>4, ResumeMoves DEF Calls
<1>8. {"approve", "claim", "create", "callCreate", "persist", "update", "callUpdate",
       "mark", "dispatch", "callSend", "reconcile", "mirror"} \subseteq SendSteps
  BY DEF SendSteps
<1>9. {"claimed", "create_dispatched", "draft_created", "update_dispatched",
       "draft_updated", "send_dispatched", "reconciled_sent"} \subseteq Phases
  BY DEF Phases, Journaled
<1>10. CASE Approve(s)
  <2>1. UNCHANGED <<journal, mail, thread>>
    BY <1>10 DEF Approve
  <2>2. \/ End(s)
        \/ job' = [job EXCEPT ![s] = [job[s] EXCEPT !.at = "claim", !.text = approval[d].text]]
    BY <1>10 DEF Approve
  <2>3. CASE End(s)
    BY <1>3, <1>5, <2>1, <2>3
  <2>4. CASE job' = [job EXCEPT ![s] = [job[s] EXCEPT !.at = "claim", !.text = approval[d].text]]
    <3>1. job[s] \in JobRow
      BY <1>1 DEF Jobs
    <3>2. job'[s].at = "claim" /\ Others(s)
      BY <1>1, <2>4, <3>1 DEF Jobs, JobRow, Others
    <3> QED BY <2>1, <3>2, QuietStep DEF Others, Calls
  <2> QED BY <2>2, <2>3, <2>4
<1>11. CASE Claim(s)
  <2>1. d \in Drafts
    BY <1>2, <1>8, <1>11 DEF Claim, At
  <2>2. UNCHANGED <<mail, thread>>
    BY <1>11 DEF Claim, JournalOnly
  <2>3. CASE Phase(d) = "absent"
    <3>1. /\ journal' = [journal EXCEPT ![d] = [phase |-> "claimed", actor |-> Actor[s]]]
          /\ Go(s, "create")
      BY <1>11, <2>3 DEF Claim
    <3>2. /\ journal'[d].phase = "claimed"
          /\ \A k \in Drafts : k # d => journal'[k] = journal[k]
      BY <1>1, <2>1, <3>1 DEF Journals
    <3>3. Moves(s, "create")
      BY <1>6, <3>1
    <3>4. ASSUME NEW k \in Senders, job[k].draft = d
          PROVE  job[k].at \notin Calls
      BY <2>3, <3>4 DEF CallInv, CallerFits, At, Calls
    <3>5. ASSUME NEW k \in Senders
          PROVE  CallerFits(k)'
      <4>1. job[k].at \in SendSteps => job[k].draft \in Drafts
        BY DEF JobsFit, JobFits
      <4>2. CallerFits(k)
        BY DEF CallInv
      <4> QED BY <2>2, <3>2, <3>3, <3>4, <4>1, <4>2
             DEF CallerFits, At, Phase, Moves, Others, Calls, SendSteps
    <3>6. \A j, k \in Senders : Alone(j, k)'
      BY <3>3 DEF CallInv, Alone, Moves, Others, Calls
    <3>7. ASSUME NEW k \in Drafts
          PROVE  MailFits(k)'
      BY <2>2, <2>3, <3>2 DEF CallInv, MailFits, Phase, CreateCount, UpdateCount, SendCount
    <3> QED BY <3>5, <3>6, <3>7 DEF CallInv
  <2>4. CASE Phase(d) # "absent"
    <3>1. /\ journal' = journal
          /\ \/ Go(s, "create") \/ End(s) \/ Resume(s, Phase(d))
             \/ Go(s, "mirror") /\ Phase(d) = "reconciled_sent"
      BY <1>11, <2>4 DEF Claim
    <3>2. Phase(d) = "reconciled_sent" => mail[d].state = "sent"
      BY <2>1 DEF CallInv, MailFits
    <3> QED BY <1>3, <1>4, <1>5, <1>6, <1>7, <2>2, <3>1, <3>2 DEF Calls
  <2> QED BY <2>3, <2>4
<1>12. CASE ClaimCreate(s)
  <2>1. d \in Drafts /\ UNCHANGED <<mail, thread>>
    BY <1>2, <1>8, <1>12 DEF ClaimCreate, At, JournalOnly
  <2>2. CASE Phase(d) = "claimed"
    <3>1. Advance(d, "create_dispatched") /\ Go(s, "callCreate")
      BY <1>12, <2>2 DEF ClaimCreate
    <3> QED BY <1>6, <1>9, <2>1, <2>2, <3>1, PhaseStep
  <2>3. CASE Phase(d) # "claimed"
    BY <1>7, <1>12, <2>1, <2>3 DEF ClaimCreate
  <2> QED BY <2>2, <2>3
<1>13. CASE ClaimUpdate(s)
  <2>1. d \in Drafts /\ UNCHANGED <<mail, thread>>
    BY <1>2, <1>8, <1>13 DEF ClaimUpdate, At, JournalOnly
  <2>2. CASE Phase(d) = "draft_created"
    <3>1. Advance(d, "update_dispatched") /\ Go(s, "callUpdate")
      BY <1>13, <2>2 DEF ClaimUpdate
    <3> QED BY <1>6, <1>9, <2>1, <2>2, <3>1, PhaseStep
  <2>3. CASE Phase(d) # "draft_created"
    BY <1>7, <1>13, <2>1, <2>3 DEF ClaimUpdate
  <2> QED BY <2>2, <2>3
<1>14. CASE ClaimDispatch(s)
  <2>1. d \in Drafts /\ UNCHANGED <<mail, thread>>
    BY <1>2, <1>8, <1>14 DEF ClaimDispatch, At, JournalOnly
  <2>2. CASE Phase(d) = "draft_updated"
    <3>1. Advance(d, "send_dispatched") /\ Go(s, "callSend")
      BY <1>14, <2>2 DEF ClaimDispatch
    <3> QED BY <1>6, <1>9, <2>1, <2>2, <3>1, PhaseStep
  <2>3. CASE Phase(d) # "draft_updated"
    BY <1>7, <1>14, <2>1, <2>3 DEF ClaimDispatch
  <2> QED BY <2>2, <2>3
<1>15. CASE PersistDraft(s)
  <2>1. d \in Drafts /\ UNCHANGED <<mail, thread>> /\ job[s].at = "persist"
    BY <1>2, <1>8, <1>15 DEF PersistDraft, At, JournalOnly
  <2>2. CASE Phase(d) = "create_dispatched"
    <3>1. Advance(d, "draft_created") /\ Go(s, "update")
      BY <1>15, <2>2 DEF PersistDraft
    <3> QED BY <1>6, <1>9, <2>1, <2>2, <3>1, PhaseStep
  <2>3. CASE ~(Phase(d) = "create_dispatched")
    BY <1>3, <1>5, <1>15, <2>1, <2>3 DEF PersistDraft
  <2> QED BY <2>2, <2>3
<1>16. CASE MarkUpdated(s)
  <2>1. d \in Drafts /\ UNCHANGED <<mail, thread>> /\ job[s].at = "mark"
    BY <1>2, <1>8, <1>16 DEF MarkUpdated, At, JournalOnly
  <2>2. CASE Phase(d) = "update_dispatched"
    <3>1. Advance(d, "draft_updated") /\ Go(s, "dispatch")
      BY <1>16, <2>2 DEF MarkUpdated
    <3> QED BY <1>6, <1>9, <2>1, <2>2, <3>1, PhaseStep
  <2>3. CASE ~(Phase(d) = "update_dispatched")
    BY <1>3, <1>5, <1>16, <2>1, <2>3 DEF MarkUpdated
  <2> QED BY <2>2, <2>3
<1>17. CASE Reconcile(s)
  <2>1. d \in Drafts /\ UNCHANGED <<mail, thread>> /\ job[s].at = "reconcile"
    BY <1>2, <1>8, <1>17 DEF Reconcile, At, JournalOnly
  <2>2. CASE mail[d].state = "sent"
    <3>1. Advance(d, "reconciled_sent") /\ Go(s, "mirror")
      BY <1>17, <2>2 DEF Reconcile
    <3> QED BY <1>6, <1>9, <2>1, <2>2, <3>1, PhaseStep
  <2>3. CASE ~(mail[d].state = "sent")
    BY <1>3, <1>5, <1>17, <2>1, <2>3 DEF Reconcile
  <2> QED BY <2>2, <2>3
<1>18. CASE CallCreate(s) \/ CallUpdate(s) \/ CallSend(s)
  BY <1>18, CallStep
<1>19. CASE Mirror(s)
  <2>1. /\ job[s].at = "mirror" /\ thread' = thread \cup {d} /\ Ends(s)
        /\ UNCHANGED <<journal, mail>>
    BY <1>5, <1>19 DEF Mirror, At
  <2>2. mail[d].state = "sent"
    BY <2>1 DEF CallInv, CallerFits, At
  <2>3. \A k \in Drafts : MailFits(k)'
    BY <2>1, <2>2 DEF CallInv, MailFits, Phase
  <2>4. \A k \in Senders : CallerFits(k)'
    BY <2>1 DEF CallInv, CallerFits, At, Phase, Ends, Others, Idle
  <2>5. \A j, k \in Senders : Alone(j, k)'
    BY <2>1 DEF CallInv, Alone, Ends, Others, Idle, Calls
  <2> QED BY <2>3, <2>4, <2>5 DEF CallInv
<1> QED
  BY <1>10, <1>11, <1>12, <1>13, <1>14, <1>15, <1>16, <1>17, <1>18, <1>19 DEF SendStep

-----------------------------------------------------------------------------
(* Everybody else: nobody gets to a call but through the journal.            *)

OtherStep ==
  \/ \E w \in Workers : StartFlow(w) \/ FlowStep(w) \/ SaveUncertain(w)
  \/ \E s \in Senders : Lost(s)
  \/ \E s \in Staff, d \in Drafts : Ask(s, d)
  \/ \E s \in Staff, d \in Drafts, t \in Texts : ApproveSend(s, d, t) /\ StaffAct
  \/ \E d \in Drafts : (DeleteDraft(d) \/ StaffDraft(d)) /\ StaffAct
  \/ \E d \in Drafts, t \in Texts : EditDraft(d, t) /\ StaffAct
  \/ \E e \in 1..Last : LeaseEnds(e)
  \/ \E p, n \in BOOLEAN : SetGates(p, n)
  \/ Post
  \/ UNCHANGED vars

LEMMA StepKinds ==
  ASSUME [Next]_vars
  PROVE  \/ \E s \in Senders : SendStep(s) /\ Apart
         \/ \E d \in Drafts : Deliver(d) /\ Apart
         \/ OtherStep
BY DEF Next, OtherStep

(* What the flow's own steps do to its job.                                  *)
FlowMoves(w) ==
  \/ Ends(w)
  \/ job' = job
  \/ /\ job'[w].at \in FlowSteps \cup {"approve"} /\ Others(w)

LEMMA FlowJobs ==
  ASSUME job \in Jobs, NEW w \in Workers, StartFlow(w) \/ FlowStep(w) \/ SaveUncertain(w)
  PROVE  FlowMoves(w)
<1>1. w \in Senders /\ job[w] \in JobRow
  BY DEF Senders, Jobs
<1>2. End(w) => FlowMoves(w)
  BY <1>1, EndEnds DEF FlowMoves
<1>3. \A step \in FlowSteps : Go(w, step) => FlowMoves(w)
  BY <1>1, GoMoves DEF FlowMoves, Moves
<1>4. {"context", "take", "save", "link", "repause", "recontext", "begin", "giveback"}
        \subseteq FlowSteps
  BY DEF FlowSteps
<1>5. ASSUME NEW row, row.at \in FlowSteps \cup {"approve"}, job' = [job EXCEPT ![w] = row]
      PROVE  FlowMoves(w)
  BY <1>1, <1>5 DEF FlowMoves, Others, Jobs
<1>6. CASE StartFlow(w)
  BY <1>3, <1>4, <1>6 DEF StartFlow, FlowMoves
<1>7. CASE ReadContext(w)
  <2>1. [job[w] EXCEPT !.at = "take", !.event = latest].at = "take"
    BY <1>1 DEF JobRow
  <2>2. End(w) \/ job' = [job EXCEPT ![w] = [job[w] EXCEPT !.at = "take", !.event = latest]]
    BY <1>7 DEF ReadContext
  <2> QED BY <1>2, <1>4, <1>5, <2>1, <2>2
<1>8. CASE TakeClaim(w)
  BY <1>2, <1>3, <1>4, <1>8 DEF TakeClaim
<1>9. CASE SaveDraft(w)
  <2>1. \/ Go(w, "giveback")
        \/ \E d \in Drafts :
             job' = [job EXCEPT ![w] = [job[w] EXCEPT !.at = "link", !.draft = d,
                                                      !.text = Authored]]
    BY <1>9 DEF SaveDraft
  <2>2. ASSUME NEW d
        PROVE  [job[w] EXCEPT !.at = "link", !.draft = d, !.text = Authored].at = "link"
    BY <1>1 DEF JobRow
  <2> QED BY <1>3, <1>4, <1>5, <2>1, <2>2
<1>10. CASE SaveUncertain(w)
  BY <1>3, <1>4, <1>10 DEF SaveUncertain
<1>11. CASE LinkApproval(w)
  <2> DEFINE row == [job[w] EXCEPT !.at = "repause", !.closed = Closed(paused, needsHuman)]
  <2>1. row.at = "repause"
    BY <1>1 DEF JobRow
  <2>2. Go(w, "giveback") \/ job' = [job EXCEPT ![w] = row]
    BY <1>11 DEF LinkApproval
  <2> QED BY <1>3, <1>4, <1>5, <2>1, <2>2
<1>12. CASE RereadPause(w)
  BY <1>3, <1>4, <1>12 DEF RereadPause
<1>13. CASE RereadContext(w)
  BY <1>3, <1>4, <1>13 DEF RereadContext
<1>14. CASE BeginDispatch(w)
  <2> DEFINE row == [job[w] EXCEPT !.at = "approve", !.closed = {}]
  <2>1. row.at = "approve"
    BY <1>1 DEF JobRow
  <2>2. End(w) \/ job' = [job EXCEPT ![w] = row]
    BY <1>14 DEF BeginDispatch
  <2> QED BY <1>2, <1>5, <2>1, <2>2
<1>15. CASE GiveBack(w)
  BY <1>2, <1>15 DEF GiveBack
<1> QED
  BY <1>6, <1>7, <1>8, <1>9, <1>10, <1>11, <1>12, <1>13, <1>14, <1>15 DEF FlowStep

LEMMA SetGatesJobs ==
  ASSUME job \in Jobs, NEW p, NEW n, SetGates(p, n), NEW k \in Senders
  PROVE  /\ job'[k].at = job[k].at /\ job'[k].draft = job[k].draft
         /\ job'[k].text = job[k].text /\ job'[k].event = job[k].event
         /\ job'[k].closed = job[k].closed \cap Closed(p, n)
<1>1. job[k] \in JobRow
  BY DEF Jobs
<1>2. job'[k] = [job[k] EXCEPT !.closed = job[k].closed \cap Closed(p, n)]
  BY DEF SetGates
<1> QED BY <1>1, <1>2 DEF JobRow

LEMMA OtherStepCalls ==
  ASSUME SendTypes, JobsFit, CallInv, OtherStep
  PROVE  CallInv'
<1>1. job \in Jobs
  BY DEF SendTypes
<1>2. CASE \E w \in Workers : StartFlow(w) \/ FlowStep(w) \/ SaveUncertain(w)
  <2>1. PICK w \in Workers : StartFlow(w) \/ FlowStep(w) \/ SaveUncertain(w)
    BY <1>2
  <2>2. UNCHANGED <<journal, mail, thread>>
    BY <2>1 DEF StartFlow, FlowStep, SaveUncertain, ReadContext, TakeClaim, SaveDraft,
                LinkApproval, RereadPause, RereadContext, BeginDispatch, GiveBack, FlowOnly
  <2>3. FlowMoves(w) /\ w \in Senders
    BY <1>1, <2>1, FlowJobs DEF Senders
  <2>4. \A step \in FlowSteps \cup {"approve", "idle"} : step \notin Calls \cup {"mirror"}
    BY DEF FlowSteps, Calls
  <2>5. Idle.at = "idle"
    BY DEF Idle
  <2> QED BY <2>2, <2>3, <2>4, <2>5, QuietStep DEF FlowMoves, Ends, Others
<1>3. CASE \E s \in Senders : Lost(s)
  <2>1. PICK s \in Senders : Lost(s)
    BY <1>3
  <2>2. UNCHANGED <<journal, mail, thread>> /\ Ends(s)
    BY <1>1, <2>1, EndEnds DEF Lost
  <2> QED BY <2>2, QuietStep DEF Ends, Others, Idle, Calls
<1>4. CASE \E s \in Staff, d \in Drafts : Ask(s, d)
  <2>1. PICK s \in Senders, d \in Drafts : Recover(s, d)
    BY <1>4 DEF Ask, Senders
  <2>2. PICK step \in {"claim", "mirror"} :
          /\ Request(s, step, d, approval[d].text)
          /\ step = "mirror" => Phase(d) = "reconciled_sent"
    BY <2>1 DEF Recover, MayRecover
  <2>3. job'[s].at = step /\ job'[s].draft = d /\ Others(s)
    BY <1>1, <2>2, RequestStarts
  <2>4. UNCHANGED <<journal, mail, thread>>
    BY <2>1 DEF Recover
  <2>5. step = "mirror" => mail[d].state = "sent"
    BY <2>2 DEF CallInv, MailFits
  <2> QED BY <2>2, <2>3, <2>4, <2>5, QuietStep DEF Others, Calls
<1>5. CASE \E s \in Staff, d \in Drafts, t \in Texts : ApproveSend(s, d, t) /\ StaffAct
  <2>1. PICK s \in Senders, d \in Drafts, t \in Texts : ApproveSend(s, d, t)
    BY <1>5 DEF Senders
  <2>2. Request(s, "approve", d, t) /\ UNCHANGED <<journal, mail, thread>>
    BY <2>1 DEF ApproveSend
  <2>3. job'[s].at = "approve" /\ Others(s)
    BY <1>1, <2>2, RequestStarts
  <2> QED BY <2>2, <2>3, QuietStep DEF Others, Calls
<1>6. CASE \/ \E d \in Drafts : (DeleteDraft(d) \/ StaffDraft(d)) /\ StaffAct
           \/ \E d \in Drafts, t \in Texts : EditDraft(d, t) /\ StaffAct
           \/ \E e \in 1..Last : LeaseEnds(e)
           \/ Post
           \/ UNCHANGED vars
  <2>1. UNCHANGED <<journal, mail, thread, job>>
    BY <1>6 DEF DeleteDraft, StaffDraft, EditDraft, LeaseEnds, Post, vars, send
  <2> QED BY <2>1, QuietStep
<1>7. CASE \E p, n \in BOOLEAN : SetGates(p, n)
  <2>1. PICK p \in BOOLEAN, n \in BOOLEAN : SetGates(p, n)
    BY <1>7
  <2>2. UNCHANGED <<journal, mail, thread>>
    BY <2>1 DEF SetGates
  <2> QED BY <1>1, <2>1, <2>2, SetGatesJobs, QuietStep
<1> QED BY <1>2, <1>3, <1>4, <1>5, <1>6, <1>7 DEF OtherStep

LEMMA DeliverCalls ==
  ASSUME SendTypes, JobsFit, CallInv, NEW d \in Drafts, Deliver(d)
  PROVE  CallInv'
<1>1. mail[d] \in MailRow /\ mail \in Mails
  BY DEF SendTypes, Mails
<1>2. /\ mail[d].state = "queued" /\ UNCHANGED <<journal, thread, job>>
      /\ mail' = [mail EXCEPT ![d] = [mail[d] EXCEPT !.state = "sent"]]
  BY DEF Deliver
<1>3. /\ mail'[d].state = "sent" /\ mail'[d].creates = mail[d].creates
      /\ mail'[d].updates = mail[d].updates /\ mail'[d].sends = mail[d].sends
      /\ \A k \in Drafts : k # d => mail'[k] = mail[k]
  BY <1>1, <1>2 DEF Mails, MailRow
<1>4. \A k \in Drafts : MailFits(k)'
  BY <1>2, <1>3 DEF CallInv, MailFits, Phase
<1>5. ASSUME NEW k \in Senders
      PROVE  CallerFits(k)'
  <2>1. job[k].at \in SendSteps => job[k].draft \in Drafts
    BY DEF JobsFit, JobFits
  <2> QED BY <1>2, <1>3, <2>1 DEF CallInv, CallerFits, At, Phase, SendSteps
<1>6. \A j, k \in Senders : Alone(j, k)'
  BY <1>2 DEF CallInv, Alone
<1> QED BY <1>4, <1>5, <1>6 DEF CallInv

LEMMA InitCalls == Init => CallInv
BY DEF Init, SendInit, Idle, CallInv, CallerFits, Alone, MailFits, At, Phase, Calls,
       CreateCount, UpdateCount, SendCount

LEMMA StepCalls == TypeInv /\ CallInv /\ [Next]_vars => CallInv'
<1> SUFFICES ASSUME TypeInv, CallInv, [Next]_vars
             PROVE  CallInv'
  OBVIOUS
<1>1. SendTypes /\ JobsFit
  BY TypeParts DEF TypeInv
<1> QED BY <1>1, StepKinds, SendStepCalls, DeliverCalls, OtherStepCalls

LEMMA CallsHold == Spec => []CallInv
BY TypesHold, InitCalls, StepCalls, PTL DEF Spec

(* However many workers and members of the staff replay, recover and die,    *)
(* the provider has been asked to create, to rewrite and to send the reply   *)
(* no more often than the journal's phase says: once each at most.           *)
THEOREM CallsJournaled == Spec => []CallsAreJournaled
<1>1. CallInv => CallsAreJournaled
  BY DEF CallInv, MailFits, CallsAreJournaled
<1> QED BY <1>1, CallsHold, PTL

(* A reply is recorded as sent, and shown in the thread, only when the       *)
(* provider sent it.                                                         *)
THEOREM CommittedSent == Spec => []CommittedIsSent
<1>1. CallInv => CommittedIsSent
  BY DEF CallInv, MailFits, CommittedIsSent
<1> QED BY <1>1, CallsHold, PTL

-----------------------------------------------------------------------------
(* The gates.  A gate a running flow remembers as closed ever since it       *)
(* linked its draft is closed; past each of the two reads one is ruled out.  *)

GateInv ==
  \A s \in Senders :
    /\ job[s].closed \subseteq Closed(paused, needsHuman)
    /\ At(s, "recontext") => "pause" \notin job[s].closed
    /\ At(s, "begin") => job[s].closed = {}

LEMMA InitGates == Init => GateInv
BY DEF Init, SendInit, Idle, GateInv, At, Closed

LEMMA KeepGates ==
  ASSUME GateInv, NEW s \in Senders,
         Closed(paused, needsHuman) \subseteq Closed(paused, needsHuman)',
         Others(s),
         \/ job'[s].closed = {}
         \/ job'[s].closed = job[s].closed /\ job'[s].at \notin {"recontext", "begin"}
  PROVE  GateInv'
BY DEF GateInv, Others, At

LEMMA SendStepGates ==
  ASSUME job \in Jobs, GateInv, NEW s \in Senders, SendStep(s), Apart
  PROVE  GateInv'
<1>1. Closed(paused, needsHuman) \subseteq Closed(paused, needsHuman)'
  BY DEF Apart, gates, Closed
<1>2. End(s) => GateInv'
  BY <1>1, EndEnds, KeepGates DEF Ends, Idle
<1>3. \A step : step \notin {"recontext", "begin"} /\ Go(s, step) => GateInv'
  BY <1>1, GoMoves, KeepGates DEF Moves
<1>4. \A phase : Resume(s, phase) => GateInv'
  BY <1>2, <1>3, ResumeMoves, <1>1, KeepGates DEF Moves, Ends, Idle
<1>5. CASE Approve(s)
  <2> DEFINE row == [job[s] EXCEPT !.at = "claim", !.text = approval[job[s].draft].text]
  <2>1. End(s) \/ job' = [job EXCEPT ![s] = row]
    BY <1>5 DEF Approve
  <2>2. job[s] \in JobRow
    BY DEF Jobs
  <2>3. row.at = "claim" /\ row.closed = job[s].closed
    BY <2>2 DEF JobRow
  <2>4. job' = [job EXCEPT ![s] = row] => job'[s] = row /\ Others(s)
    BY DEF Jobs, Others
  <2> QED BY <1>1, <1>2, <2>1, <2>3, <2>4, KeepGates
<1>6. CASE ~Approve(s)
  BY <1>2, <1>3, <1>4, <1>6
     DEF SendStep, Claim, ClaimCreate, ClaimUpdate, ClaimDispatch, CallCreate, CallUpdate,
         CallSend, PersistDraft, MarkUpdated, Reconcile, Mirror
<1> QED BY <1>5, <1>6

LEMMA FlowGates ==
  ASSUME job \in Jobs, GateInv, NEW w \in Workers,
         StartFlow(w) \/ FlowStep(w) \/ SaveUncertain(w)
  PROVE  GateInv'
<1>1. /\ w \in Senders /\ job[w] \in JobRow
      /\ paused' = paused /\ needsHuman' = needsHuman
  BY DEF Senders, Jobs, StartFlow, FlowStep, SaveUncertain, ReadContext, TakeClaim, SaveDraft,
         LinkApproval, RereadPause, RereadContext, BeginDispatch, GiveBack, FlowOnly, gates
<1>2. Closed(paused, needsHuman) = Closed(paused, needsHuman)'
  BY <1>1 DEF Closed
<1>3. End(w) => GateInv'
  BY <1>1, <1>2, EndEnds, KeepGates DEF Ends, Idle
<1>4. \A step : step \notin {"recontext", "begin"} /\ Go(w, step) => GateInv'
  BY <1>1, <1>2, GoMoves, KeepGates DEF Moves
<1>5. ASSUME NEW row, job' = [job EXCEPT ![w] = row],
             \/ row.closed = {} /\ row.at = "approve"
             \/ row.closed = job[w].closed /\ row.at \in {"take", "link"}
             \/ row.closed = Closed(paused, needsHuman) /\ row.at = "repause"
      PROVE  GateInv'
  <2>1. job'[w] = row /\ Others(w)
    BY <1>1, <1>5 DEF Jobs, Others
  <2> QED BY <1>1, <1>2, <1>5, <2>1 DEF GateInv, At, Others
<1>6. CASE StartFlow(w)
  BY <1>1, <1>2, <1>4, <1>6 DEF StartFlow, GateInv, At
<1>7. CASE ReadContext(w)
  <2> DEFINE row == [job[w] EXCEPT !.at = "take", !.event = latest]
  <2>1. row.at = "take" /\ row.closed = job[w].closed
    BY <1>1 DEF JobRow
  <2>2. End(w) \/ job' = [job EXCEPT ![w] = row]
    BY <1>7 DEF ReadContext
  <2> QED BY <1>3, <1>5, <2>1, <2>2
<1>8. CASE TakeClaim(w)
  BY <1>3, <1>4, <1>8 DEF TakeClaim
<1>9. CASE SaveDraft(w)
  <2>1. \/ Go(w, "giveback")
        \/ \E d \in Drafts :
             job' = [job EXCEPT ![w] = [job[w] EXCEPT !.at = "link", !.draft = d,
                                                      !.text = Authored]]
    BY <1>9 DEF SaveDraft
  <2>2. ASSUME NEW d, NEW row, row = [job[w] EXCEPT !.at = "link", !.draft = d, !.text = Authored]
        PROVE  row.at = "link" /\ row.closed = job[w].closed
    BY <1>1, <2>2 DEF JobRow
  <2> QED BY <1>4, <1>5, <2>1, <2>2
<1>10. CASE SaveUncertain(w)
  BY <1>4, <1>10 DEF SaveUncertain
<1>11. CASE LinkApproval(w)
  <2> DEFINE row == [job[w] EXCEPT !.at = "repause", !.closed = Closed(paused, needsHuman)]
  <2>1. row.at = "repause" /\ row.closed = Closed(paused, needsHuman)
    BY <1>1 DEF JobRow
  <2>2. Go(w, "giveback") \/ job' = [job EXCEPT ![w] = row]
    BY <1>11 DEF LinkApproval
  <2> QED BY <1>4, <1>5, <2>1, <2>2
<1>12. CASE RereadPause(w)
  <2>1. CASE paused
    BY <1>4, <1>12, <2>1 DEF RereadPause
  <2>2. CASE ~paused
    <3>1. Moves(w, "recontext")
      BY <1>1, <1>12, <2>2, GoMoves DEF RereadPause
    <3>2. "pause" \notin job[w].closed
      BY <1>1, <2>2 DEF GateInv, Closed
    <3> QED BY <1>1, <1>2, <3>1, <3>2 DEF GateInv, Moves, Others, At
  <2> QED BY <2>1, <2>2
<1>13. CASE RereadContext(w)
  <2>1. CASE needsHuman
    BY <1>4, <1>13, <2>1 DEF RereadContext
  <2>2. CASE ~needsHuman
    <3>1. Moves(w, "begin") /\ At(w, "recontext")
      BY <1>1, <1>13, <2>2, GoMoves DEF RereadContext
    <3>2. job[w].closed = {}
      BY <1>1, <2>2, <3>1 DEF GateInv, Closed
    <3> QED BY <1>1, <1>2, <3>1, <3>2 DEF GateInv, Moves, Others, At
  <2> QED BY <2>1, <2>2
<1>14. CASE BeginDispatch(w)
  <2> DEFINE row == [job[w] EXCEPT !.at = "approve", !.closed = {}]
  <2>1. row.at = "approve" /\ row.closed = {}
    BY <1>1 DEF JobRow
  <2>2. End(w) \/ job' = [job EXCEPT ![w] = row]
    BY <1>14 DEF BeginDispatch
  <2> QED BY <1>3, <1>5, <2>1, <2>2
<1>15. CASE GiveBack(w)
  BY <1>3, <1>15 DEF GiveBack
<1> QED
  BY <1>6, <1>7, <1>8, <1>9, <1>10, <1>11, <1>12, <1>13, <1>14, <1>15 DEF FlowStep

LEMMA OtherStepGates ==
  ASSUME job \in Jobs, GateInv, OtherStep
  PROVE  GateInv'
<1>1. CASE \E w \in Workers : StartFlow(w) \/ FlowStep(w) \/ SaveUncertain(w)
  BY <1>1, FlowGates
<1>2. CASE \E s \in Senders : Lost(s)
  <2>1. PICK s \in Senders : Lost(s)
    BY <1>2
  <2>2. Ends(s) /\ paused' = paused /\ needsHuman' = needsHuman
    BY <2>1, EndEnds DEF Lost, gates
  <2> QED BY <2>2 DEF GateInv, Ends, Others, Idle, At, Closed
<1>3. CASE \/ \E s \in Staff, d \in Drafts : Ask(s, d)
           \/ \E s \in Staff, d \in Drafts, t \in Texts : ApproveSend(s, d, t) /\ StaffAct
  <2>1. PICK s \in Senders, step \in {"claim", "mirror", "approve"} :
          \E d, text : Request(s, step, d, text)
    BY <1>3 DEF Ask, Recover, ApproveSend, Senders
  <2>2. job'[s].at = step /\ job'[s].closed = {} /\ Others(s)
    BY <2>1, RequestStarts
  <2>3. paused' = paused /\ needsHuman' = needsHuman
    BY <1>3 DEF Ask, Apart, StaffAct, gates
  <2> QED BY <2>2, <2>3 DEF GateInv, Others, At, Closed
<1>4. CASE \/ \E d \in Drafts : (DeleteDraft(d) \/ StaffDraft(d)) /\ StaffAct
           \/ \E d \in Drafts, t \in Texts : EditDraft(d, t) /\ StaffAct
           \/ \E e \in 1..Last : LeaseEnds(e)
           \/ UNCHANGED vars
  <2>1. UNCHANGED <<job, paused, needsHuman>>
    BY <1>4 DEF DeleteDraft, StaffDraft, EditDraft, StaffAct, LeaseEnds, vars, send, gates
  <2> QED BY <2>1 DEF GateInv, At, Closed
<1>5. CASE \E p, n \in BOOLEAN : SetGates(p, n)
  <2>1. PICK p \in BOOLEAN, n \in BOOLEAN : SetGates(p, n)
    BY <1>5
  <2>2. paused' = p /\ needsHuman' = n
    BY <2>1 DEF SetGates
  <2>3. Closed(paused, needsHuman)' = Closed(p, n)
    BY <2>2 DEF Closed
  <2>4. ASSUME NEW s \in Senders
        PROVE  /\ job'[s].closed \subseteq Closed(p, n)
               /\ At(s, "recontext")' => "pause" \notin job'[s].closed
               /\ At(s, "begin")' => job'[s].closed = {}
    <3>1. job'[s].at = job[s].at /\ job'[s].closed = job[s].closed \cap Closed(p, n)
      BY <2>1, SetGatesJobs
    <3> QED BY <3>1 DEF GateInv, At
  <2> QED BY <2>3, <2>4 DEF GateInv
<1>6. CASE Post
  <2>1. /\ job' = job /\ paused' = paused /\ needsHuman' = TRUE
    BY <1>6 DEF Post
  <2> QED BY <2>1 DEF GateInv, At, Closed
<1> QED BY <1>1, <1>2, <1>3, <1>4, <1>5, <1>6 DEF OtherStep

LEMMA StepGates == TypeInv /\ GateInv /\ [Next]_vars => GateInv'
<1> SUFFICES ASSUME TypeInv, GateInv, [Next]_vars
             PROVE  GateInv'
  OBVIOUS
<1>1. job \in Jobs
  BY TypeParts DEF TypeInv, SendTypes
<1>2. CASE \E d \in Drafts : Deliver(d) /\ Apart
  <2>1. UNCHANGED <<job, paused, needsHuman>>
    BY <1>2 DEF Deliver, Apart, gates
  <2> QED BY <2>1 DEF GateInv, At, Closed
<1> QED BY <1>1, <1>2, StepKinds, SendStepGates, OtherStepGates

LEMMA GatesHold == Spec => []GateInv
BY TypesHold, InitGates, StepGates, PTL DEF Spec

(* A flow is never dispatched while a gate that was closed when it linked    *)
(* its draft has stayed closed: between the two reads and the dispatch both  *)
(* gates have been seen open.                                                *)
THEOREM PausedNotSent == Spec => PausedIsNotSent
<1>1. GateInv => [\A w \in Workers :
                   At(w, "begin") /\ job'[w].at = "approve" => job[w].closed = {}]_vars
  BY DEF GateInv, Senders
<1> QED BY <1>1, GatesHold, PTL DEF PausedIsNotSent

-----------------------------------------------------------------------------
(* One automatic reply.  The dispatch of a message is never taken back, so   *)
(* its holder is the only worker that can ever approve a draft for it, and   *)
(* it approves one.                                                          *)
Linked == {"link", "repause", "recontext", "begin"}

Dispatching(e) == e \in 1..Last /\ claim[e].state = "dispatching"

WorkerFits(w) ==
  LET e == job[w].event
      d == job[w].draft
  IN /\ job[w].at \in SendSteps \cup Linked =>
          approval[d].state # "none" /\ approval[d].event = e
     /\ job[w].at \in SendSteps => Dispatching(e) /\ claim[e].holder = w
     /\ At(w, "approve") => \A k \in Drafts : approval[k].by \in Workers => approval[k].event # e

ReplyFits(d) ==
  approval[d].by \in Workers => approval[d].state # "none" /\ Dispatching(approval[d].event)

OneReply(d, k) ==
  /\ approval[d].by \in Workers /\ approval[k].by \in Workers
  /\ approval[d].event = approval[k].event
  => d = k

ClaimInv ==
  /\ \A w \in Workers : WorkerFits(w)
  /\ \A d \in Drafts : ReplyFits(d)
  /\ \A d, k \in Drafts : OneReply(d, k)

LEMMA InitClaims == Init => ClaimInv
BY SendAssumption DEF Init, SendInit, Idle, ClaimInv, WorkerFits, ReplyFits, OneReply, Linked,
   SendSteps, At, Senders

RowKept(d) ==
  /\ approval[d].state # "none" =>
       approval'[d].state # "none" /\ approval'[d].event = approval[d].event
  /\ approval'[d].by \in Workers => approval[d].by = approval'[d].by

ClaimKept(e) ==
  claim[e].state = "dispatching" =>
    claim'[e].state = "dispatching" /\ claim'[e].holder = claim[e].holder

WorkerKept(w) ==
  \/ job'[w].at \notin SendSteps \cup Linked
  \/ /\ job'[w].draft = job[w].draft /\ job'[w].event = job[w].event
     /\ \/ job'[w].at = job[w].at
        \/ job'[w].at \in Linked /\ job[w].at \in Linked
        \/ job'[w].at \in SendSteps \ {"approve"} /\ job[w].at \in SendSteps

LEMMA KeepClaims ==
  ASSUME ClaimInv, JobsFit,
         \A d \in Drafts : RowKept(d), \A e \in 1..Last : ClaimKept(e),
         \A w \in Workers : WorkerKept(w)
  PROVE  ClaimInv'
<1>1. \A d \in Drafts : approval'[d].by \in Workers =>
        /\ approval[d].by \in Workers /\ approval'[d].state # "none"
        /\ approval'[d].event = approval[d].event
  BY DEF ClaimInv, ReplyFits, RowKept
<1>2. ASSUME NEW w \in Workers
      PROVE  WorkerFits(w)'
  <2>1. job[w].at \in SendSteps \cup Linked => job[w].draft \in Drafts
    BY DEF JobsFit, JobFits, Senders, Linked
  <2>2. WorkerFits(w) /\ WorkerKept(w)
    BY DEF ClaimInv
  <2>3. SendSteps \cap Linked = {} /\ "approve" \in SendSteps
    BY DEF SendSteps, Linked
  <2>4. job'[w].at \in SendSteps \cup Linked =>
          /\ job'[w].draft = job[w].draft /\ job'[w].event = job[w].event
          /\ job[w].at \in SendSteps \cup Linked
          /\ job'[w].at \in SendSteps => job[w].at \in SendSteps
          /\ job'[w].at = "approve" => job[w].at = "approve"
    BY <2>2, <2>3 DEF WorkerKept
  <2> QED BY <1>1, <2>1, <2>2, <2>3, <2>4 DEF WorkerFits, Dispatching, ClaimKept, RowKept, At
<1>3. \A d \in Drafts : ReplyFits(d)'
  BY <1>1 DEF ClaimInv, ReplyFits, Dispatching, ClaimKept
<1>4. \A d, k \in Drafts : OneReply(d, k)'
  BY <1>1 DEF ClaimInv, OneReply
<1> QED BY <1>2, <1>3, <1>4 DEF ClaimInv

LEMMA SendStepClaims ==
  ASSUME SendTypes, JobsFit, ClaimInv, NEW s \in Senders, SendStep(s), Apart
  PROVE  ClaimInv'
<1> DEFINE d == job[s].draft
<1>1. /\ job \in Jobs /\ approval \in Approvals /\ claim' = claim
      /\ job[s].at \in SendSteps => d \in Drafts
  BY DEF SendTypes, Apart, JobsFit, JobFits
<1>2. \A e \in 1..Last : ClaimKept(e)
  BY <1>1 DEF ClaimKept
<1>3. ASSUME approval' = approval, Ends(s)
      PROVE  ClaimInv'
  <2>1. "idle" \notin SendSteps \cup Linked
    BY DEF SendSteps, Linked
  <2>2. \A w \in Workers : WorkerKept(w)
    BY <1>3, <2>1 DEF WorkerKept, Ends, Others, Idle, Senders
  <2> QED BY <1>2, <1>3, <2>2, KeepClaims DEF RowKept
<1>4. ASSUME approval' = approval, NEW step \in SendSteps \ {"approve"}, Moves(s, step),
             job[s].at \in SendSteps
      PROVE  ClaimInv'
  <2>1. \A w \in Workers : WorkerKept(w)
    BY <1>4 DEF WorkerKept, Moves, Others, Senders
  <2> QED BY <1>2, <1>4, <2>1, KeepClaims DEF RowKept
<1>5. End(s) => Ends(s)
  BY <1>1, EndEnds
<1>6. \A step : Go(s, step) => Moves(s, step)
  BY <1>1, GoMoves
<1>7. {"create", "callCreate", "persist", "update", "callUpdate", "mark", "dispatch",
       "callSend", "reconcile", "mirror"} \subseteq SendSteps \ {"approve"}
  BY DEF SendSteps
<1>8. \A phase : Resume(s, phase) /\ approval' = approval /\ job[s].at \in SendSteps => ClaimInv'
  BY <1>1, <1>3, <1>4, <1>7, ResumeMoves
<1>9. CASE ~Approve(s)
  <2>1. approval' = approval
    BY <1>9 DEF SendStep, Claim, ClaimCreate, ClaimUpdate, ClaimDispatch, CallCreate,
           CallUpdate, CallSend, PersistDraft, MarkUpdated, Reconcile, Mirror, JournalOnly,
           CallOnly
  <2>2. job[s].at \in SendSteps
    BY <1>9 DEF SendStep, Claim, ClaimCreate, ClaimUpdate, ClaimDispatch, CallCreate,
           CallUpdate, CallSend, PersistDraft, MarkUpdated, Reconcile, Mirror, At, SendSteps
  <2>3. \/ End(s) \/ (\E step \in SendSteps \ {"approve"} : Go(s, step))
        \/ \E phase : Resume(s, phase)
    BY <1>7, <1>9 DEF SendStep, Claim, ClaimCreate, ClaimUpdate, ClaimDispatch, CallCreate,
           CallUpdate, CallSend, PersistDraft, MarkUpdated, Reconcile, Mirror
  <2> QED BY <1>3, <1>4, <1>5, <1>6, <1>8, <2>1, <2>2, <2>3
<1>10. CASE Approve(s) /\ ~MayApprove(s, d)
  BY <1>3, <1>5, <1>10 DEF Approve
<1>11. CASE Approve(s) /\ MayApprove(s, d)
  <2> DEFINE agreed == [approval[d] EXCEPT !.state = "approved", !.by = s,
                                           !.agreed = job[s].text]
             going == [job[s] EXCEPT !.at = "claim", !.text = approval[d].text]
  <2>1. /\ job[s].at = "approve" /\ job' = [job EXCEPT ![s] = going]
        /\ approval[d].state = "draft" => approval' = [approval EXCEPT ![d] = agreed]
        /\ approval[d].state # "draft" => approval' = approval
    BY <1>11 DEF Approve, At
  <2>2. d \in Drafts
    BY <1>1, <2>1 DEF SendSteps
  <2>3. job[s] \in JobRow /\ approval[d] \in ApprovalRow
    BY <1>1, <2>2 DEF Jobs, Approvals
  <2>4. /\ job'[s].at = "claim" /\ job'[s].draft = d /\ job'[s].event = job[s].event
        /\ Others(s)
    BY <1>1, <2>1, <2>3 DEF Jobs, JobRow, Others
  <2>5. \A w \in Workers : WorkerKept(w)
    BY <2>1, <2>4 DEF WorkerKept, Others, Senders, SendSteps
  <2>6. CASE approval' = approval
    BY <1>2, <2>5, <2>6, KeepClaims DEF RowKept
  <2>7. CASE approval' = [approval EXCEPT ![d] = agreed]
    <3>1. /\ approval'[d].state = "approved" /\ approval'[d].by = s
          /\ approval'[d].event = approval[d].event
          /\ \A k \in Drafts : k # d => approval'[k] = approval[k]
      BY <1>1, <2>2, <2>3, <2>7 DEF Approvals, ApprovalRow
    <3>2. CASE s \notin Workers
      <4>1. \A k \in Drafts : RowKept(k)
        BY <3>1, <3>2 DEF RowKept
      <4> QED BY <1>2, <2>5, <4>1, KeepClaims
    <3>3. CASE s \in Workers
      <4>1. /\ WorkerFits(s) /\ approval[d].event = job[s].event
            /\ Dispatching(job[s].event) /\ claim[job[s].event].holder = s
            /\ \A k \in Drafts : approval[k].by \in Workers => approval[k].event # job[s].event
        BY <2>1, <3>3 DEF ClaimInv, WorkerFits, At, SendSteps
      <4>2. \A k \in Drafts : ReplyFits(k)'
        BY <1>1, <3>1, <4>1 DEF ClaimInv, ReplyFits, Dispatching
      <4>3. \A j, k \in Drafts : OneReply(j, k)'
        BY <3>1, <4>1 DEF ClaimInv, OneReply
      <4>4. ASSUME NEW w \in Workers
            PROVE  WorkerFits(w)'
        <5>1. WorkerFits(w) /\ (job[w].at \in SendSteps \cup Linked => job[w].draft \in Drafts)
          BY DEF ClaimInv, JobsFit, JobFits, Senders, Linked
        <5>2. CASE w = s
          BY <1>1, <2>1, <2>4, <3>1, <4>1, <5>2 DEF WorkerFits, Dispatching, At
        <5>3. CASE w # s
          <6>1. job'[w] = job[w]
            BY <2>4, <5>3 DEF Others, Senders
          <6>2. At(w, "approve") => job[w].event # job[s].event
            BY <4>1, <5>1, <5>3 DEF WorkerFits, At, SendSteps
          <6> QED BY <1>1, <3>1, <4>1, <5>1, <6>1, <6>2 DEF WorkerFits, Dispatching, At
        <5> QED BY <5>2, <5>3
      <4> QED BY <4>2, <4>3, <4>4 DEF ClaimInv
    <3> QED BY <3>2, <3>3
  <2> QED BY <2>1, <2>6, <2>7
<1> QED BY <1>9, <1>10, <1>11

LEMMA InsertRows ==
  ASSUME SendTypes, NEW d \in Drafts, InsertDraft(d)
  PROVE  /\ \A k \in Drafts : RowKept(k)
         /\ approval'[d].state = "draft" /\ approval'[d].event = latest
BY SendAssumption DEF InsertDraft, RowKept, SendTypes, Approvals, Senders

LEMMA FlowClaims ==
  ASSUME SendTypes, FlowTypes, JobsFit, ClaimInv, NEW w \in Workers,
         StartFlow(w) \/ FlowStep(w) \/ SaveUncertain(w)
  PROVE  ClaimInv'
<1> DEFINE e == job[w].event
<1>1. job \in Jobs /\ claim \in Claims /\ w \in Senders /\ job[w] \in JobRow
  BY DEF SendTypes, FlowTypes, Senders, Jobs
<1>2. /\ \A step \in FlowSteps \ {"context"} : At(w, step) => e \in 1..Last
      /\ \A step \in Linked : At(w, step) => job[w].draft \in Drafts
  BY <1>1 DEF JobsFit, JobFits, At, Linked
<1>3. {"take", "save", "link", "repause", "recontext", "begin", "giveback"}
        \subseteq FlowSteps \ {"context"}
  BY DEF FlowSteps
<1>4. approval' = approval => \A d \in Drafts : RowKept(d)
  BY DEF RowKept
<1>5. claim' = claim => \A c \in 1..Last : ClaimKept(c)
  BY DEF ClaimKept
<1>6. ASSUME NEW row, e \in 1..Last, claim[e].state # "dispatching",
             claim' = [claim EXCEPT ![e] = row]
      PROVE  \A c \in 1..Last : ClaimKept(c)
  BY <1>1, <1>6 DEF ClaimKept, Claims
<1>7. ASSUME Others(w), job'[w].at \notin SendSteps \cup Linked
      PROVE  \A v \in Workers : WorkerKept(v)
  BY <1>7 DEF WorkerKept, Others, Senders
<1>8. ASSUME NEW step \in Linked, Moves(w, step), job[w].at \in Linked
      PROVE  \A v \in Workers : WorkerKept(v)
  BY <1>8 DEF WorkerKept, Moves, Others, Senders
<1>9. End(w) => \A v \in Workers : WorkerKept(v)
  BY <1>1, <1>7, EndEnds DEF Ends, Idle, SendSteps, Linked
<1>10. \A step \in {"context", "take", "save", "giveback"} :
         Go(w, step) => \A v \in Workers : WorkerKept(v)
  BY <1>1, <1>7, GoMoves DEF Moves, SendSteps, Linked
<1>11. CASE StartFlow(w)
  <2>1. approval' = approval /\ claim' = claim /\ (job' = job \/ Go(w, "context"))
    BY <1>11 DEF StartFlow
  <2>2. \A v \in Workers : WorkerKept(v)
    BY <1>10, <2>1 DEF WorkerKept
  <2> QED BY <1>4, <1>5, <2>1, <2>2, KeepClaims
<1>12. CASE ReadContext(w)
  <2> DEFINE row == [job[w] EXCEPT !.at = "take", !.event = latest]
  <2>1. /\ approval' = approval /\ claim' = claim
        /\ End(w) \/ job' = [job EXCEPT ![w] = row]
    BY <1>12 DEF ReadContext, FlowOnly
  <2>2. row.at = "take"
    BY <1>1 DEF JobRow
  <2>3. job' = [job EXCEPT ![w] = row] => job'[w].at = "take" /\ Others(w)
    BY <1>1, <2>2 DEF Jobs, Others
  <2>4. \A v \in Workers : WorkerKept(v)
    BY <1>7, <1>9, <2>1, <2>3 DEF SendSteps, Linked
  <2> QED BY <1>4, <1>5, <2>1, <2>4, KeepClaims
<1>13. CASE TakeClaim(w)
  <2>1. approval' = approval /\ (End(w) \/ Go(w, "save"))
    BY <1>13 DEF TakeClaim, FlowOnly
  <2>2. \A c \in 1..Last : ClaimKept(c)
    <3>1. CASE MayTake(e)
      <4>1. claim[e].state # "dispatching"
        BY <3>1 DEF MayTake
      <4> QED BY <1>2, <1>3, <1>6, <1>13, <3>1, <4>1 DEF TakeClaim
    <3>2. CASE ~MayTake(e)
      BY <1>5, <1>13, <3>2 DEF TakeClaim
    <3> QED BY <3>1, <3>2
  <2> QED BY <1>4, <1>9, <1>10, <2>1, <2>2, KeepClaims
<1>14. CASE SaveDraft(w)
  <2>1. claim' = claim
    BY <1>14 DEF SaveDraft
  <2>2. CASE e # latest
    BY <1>4, <1>5, <1>10, <1>14, <2>2, KeepClaims DEF SaveDraft
  <2>3. CASE e = latest
    <3>1. PICK d \in Drafts :
            /\ InsertDraft(d)
            /\ job' = [job EXCEPT ![w] = [job[w] EXCEPT !.at = "link", !.draft = d,
                                                         !.text = Authored]]
      BY <1>14, <2>3 DEF SaveDraft
    <3>2. /\ job'[w].at = "link" /\ job'[w].draft = d /\ job'[w].event = e /\ Others(w)
      BY <1>1, <3>1 DEF Jobs, JobRow, Others
    <3>3. /\ \A k \in Drafts : RowKept(k)
          /\ approval'[d].state = "draft" /\ approval'[d].event = latest
      BY <3>1, InsertRows
    <3>4. ASSUME NEW v \in Workers
          PROVE  WorkerFits(v)'
      <4>1. CASE v = w
        BY <2>3, <3>2, <3>3, <4>1 DEF WorkerFits, At, SendSteps
      <4>2. CASE v # w
        <5>1. job'[v] = job[v] /\ WorkerFits(v)
          BY <3>2, <4>2 DEF Others, Senders, ClaimInv
        <5>2. job[v].at \in SendSteps \cup Linked => job[v].draft \in Drafts
          BY DEF JobsFit, JobFits, Senders, Linked
        <5>3. \A k \in Drafts : approval'[k].by \in Workers =>
                approval[k].by \in Workers /\ approval'[k].event = approval[k].event
          BY <3>3 DEF ClaimInv, ReplyFits, RowKept
        <5> QED BY <2>1, <3>3, <5>1, <5>2, <5>3 DEF WorkerFits, RowKept, Dispatching, At
      <4> QED BY <4>1, <4>2
    <3>5. \A k \in Drafts : approval'[k].by \in Workers =>
            /\ approval[k].by \in Workers /\ approval'[k].event = approval[k].event
            /\ approval'[k].state # "none"
      BY <3>3 DEF ClaimInv, ReplyFits, RowKept
    <3>6. \A k \in Drafts : ReplyFits(k)'
      BY <2>1, <3>5 DEF ClaimInv, ReplyFits, Dispatching
    <3>7. \A j, k \in Drafts : OneReply(j, k)'
      BY <3>5 DEF ClaimInv, OneReply
    <3> QED BY <3>4, <3>6, <3>7 DEF ClaimInv
  <2> QED BY <2>2, <2>3
<1>15. CASE SaveUncertain(w)
  <2>1. /\ Go(w, "giveback") /\ claim' = claim
        /\ approval' = approval \/ \E d \in Drafts : InsertDraft(d)
    BY <1>15 DEF SaveUncertain
  <2>2. \A d \in Drafts : RowKept(d)
    BY <1>4, <2>1, InsertRows
  <2> QED BY <1>5, <1>10, <2>1, <2>2, KeepClaims
<1>16. CASE LinkApproval(w)
  <2> DEFINE row == [job[w] EXCEPT !.at = "repause", !.closed = Closed(paused, needsHuman)]
  <2>1. /\ approval' = approval /\ At(w, "link")
        /\ \/ /\ claim[e].state = "leased" /\ job' = [job EXCEPT ![w] = row]
              /\ claim' = [claim EXCEPT ![e] = [claim[e] EXCEPT !.state = "linked"]]
           \/ claim' = claim /\ Go(w, "giveback")
    BY <1>16 DEF LinkApproval, FlowOnly
  <2>2. \A c \in 1..Last : ClaimKept(c)
    BY <1>2, <1>3, <1>5, <1>6, <2>1
  <2>3. /\ row.at = "repause" /\ row.draft = job[w].draft /\ row.event = e
    BY <1>1 DEF JobRow
  <2>4. job' = [job EXCEPT ![w] = row] => Others(w) /\ job'[w] = row
    BY <1>1 DEF Jobs, Others
  <2>5. \A v \in Workers : WorkerKept(v)
    BY <1>10, <2>1, <2>3, <2>4 DEF WorkerKept, Others, Senders, At, Linked
  <2> QED BY <1>4, <2>1, <2>2, <2>5, KeepClaims
<1>17. CASE RereadPause(w) \/ RereadContext(w)
  <2>1. /\ approval' = approval /\ claim' = claim /\ job[w].at \in Linked
        /\ Go(w, "giveback") \/ Go(w, "recontext") \/ Go(w, "begin")
    BY <1>17 DEF RereadPause, RereadContext, FlowOnly, At, Linked
  <2>2. \A v \in Workers : WorkerKept(v)
    BY <1>1, <1>8, <1>10, <2>1, GoMoves DEF Linked
  <2> QED BY <1>4, <1>5, <2>1, <2>2, KeepClaims
<1>18. CASE BeginDispatch(w)
  <2> DEFINE row == [job[w] EXCEPT !.at = "approve", !.closed = {}]
  <2>1. approval' = approval /\ At(w, "begin") /\ e \in 1..Last /\ job[w].draft \in Drafts
    BY <1>2, <1>3, <1>18 DEF BeginDispatch, FlowOnly, Linked
  <2>2. CASE claim[e].holder = w /\ claim[e].state = "linked" /\ claim[e].live
    <3>1. /\ claim' = [claim EXCEPT ![e] = [claim[e] EXCEPT !.state = "dispatching"]]
          /\ job' = [job EXCEPT ![w] = row]
      BY <1>18, <2>2 DEF BeginDispatch
    <3>2. claim[e] \in ClaimRow
      BY <1>1, <2>1 DEF Claims
    <3>3. /\ claim'[e].state = "dispatching" /\ claim'[e].holder = w
          /\ \A c \in 1..Last : c # e => claim'[c] = claim[c]
      BY <1>1, <2>1, <2>2, <3>1, <3>2 DEF Claims, ClaimRow
    <3>4. job'[w].at = "approve" /\ job'[w].draft = job[w].draft /\ job'[w].event = e /\ Others(w)
      BY <1>1, <3>1 DEF Jobs, JobRow, Others
    <3>5. \A k \in Drafts : approval[k].by \in Workers => approval[k].event # e
      BY <2>2 DEF ClaimInv, ReplyFits, Dispatching
    <3>6. ASSUME NEW v \in Workers
          PROVE  WorkerFits(v)'
      <4>1. WorkerFits(v)
        BY DEF ClaimInv
      <4>2. CASE v = w
        BY <2>1, <3>3, <3>4, <3>5, <4>1, <4>2 DEF WorkerFits, Dispatching, At, Linked
      <4>3. CASE v # w
        <5>1. job'[v] = job[v]
          BY <3>4, <4>3 DEF Others, Senders
        <5> QED BY <2>1, <2>2, <3>3, <4>1, <5>1 DEF WorkerFits, Dispatching, At
      <4> QED BY <4>2, <4>3
    <3>7. \A d \in Drafts : ReplyFits(d)'
      BY <2>1, <2>2, <3>3 DEF ClaimInv, ReplyFits, Dispatching
    <3>8. \A d, k \in Drafts : OneReply(d, k)'
      BY <2>1 DEF ClaimInv, OneReply
    <3> QED BY <3>6, <3>7, <3>8 DEF ClaimInv
  <2>3. CASE ~(claim[e].holder = w /\ claim[e].state = "linked" /\ claim[e].live)
    BY <1>4, <1>5, <1>9, <1>18, <2>1, <2>3, KeepClaims DEF BeginDispatch
  <2> QED BY <2>2, <2>3
<1>19. CASE GiveBack(w)
  <2>1. approval' = approval /\ End(w)
    BY <1>19 DEF GiveBack, FlowOnly
  <2>2. \/ claim' = claim
        \/ /\ claim[e].state # "dispatching"
           /\ claim' = [claim EXCEPT ![e] = [claim[e] EXCEPT !.state = "released",
                                                              !.live = FALSE]]
    BY <1>19 DEF GiveBack
  <2>3. \A c \in 1..Last : ClaimKept(c)
    BY <1>2, <1>3, <1>5, <1>6, <1>19, <2>2 DEF GiveBack
  <2> QED BY <1>4, <1>9, <2>1, <2>3, KeepClaims
<1> QED
  BY <1>11, <1>12, <1>13, <1>14, <1>15, <1>16, <1>17, <1>18, <1>19 DEF FlowStep

LEMMA OtherStepClaims ==
  ASSUME SendTypes, FlowTypes, JobsFit, ClaimInv, OtherStep
  PROVE  ClaimInv'
<1>1. job \in Jobs /\ approval \in Approvals /\ claim \in Claims
  BY DEF SendTypes, FlowTypes
<1>2. approval' = approval => \A d \in Drafts : RowKept(d)
  BY DEF RowKept
<1>3. claim' = claim => \A e \in 1..Last : ClaimKept(e)
  BY DEF ClaimKept
<1>4. job' = job => \A w \in Workers : WorkerKept(w)
  BY DEF WorkerKept
<1>5. CASE \E w \in Workers : StartFlow(w) \/ FlowStep(w) \/ SaveUncertain(w)
  BY <1>5, FlowClaims
<1>6. CASE \E s \in Senders : Lost(s)
  <2>1. PICK s \in Senders : Lost(s)
    BY <1>6
  <2>2. approval' = approval /\ claim' = claim /\ Ends(s)
    BY <1>1, <2>1, EndEnds DEF Lost
  <2>3. \A w \in Workers : WorkerKept(w)
    BY <2>2 DEF WorkerKept, Ends, Others, Idle, Senders, SendSteps, Linked
  <2> QED BY <1>2, <1>3, <2>2, <2>3, KeepClaims
<1>7. CASE \/ \E s \in Staff, d \in Drafts : Ask(s, d)
           \/ \E s \in Staff, d \in Drafts, t \in Texts : ApproveSend(s, d, t) /\ StaffAct
  <2>1. PICK s \in Staff : \E step, d, text : Request(s, step, d, text)
    BY <1>7 DEF Ask, Recover, ApproveSend
  <2>2. s \in Senders /\ s \notin Workers
    BY SendAssumption DEF Senders
  <2>3. Others(s)
    BY <1>1, <2>1, <2>2, RequestStarts
  <2>4. approval' = approval /\ claim' = claim
    BY <1>7 DEF Ask, Recover, ApproveSend, Apart, StaffAct
  <2>5. \A w \in Workers : WorkerKept(w)
    BY <2>2, <2>3 DEF WorkerKept, Others, Senders
  <2> QED BY <1>2, <1>3, <2>4, <2>5, KeepClaims
<1>8. CASE \E d \in Drafts : (DeleteDraft(d) \/ StaffDraft(d)) /\ StaffAct
  <2>1. PICK d \in Drafts : DeleteDraft(d) \/ StaffDraft(d)
    BY <1>8
  <2>2. job' = job /\ claim' = claim
    BY <1>8 DEF DeleteDraft, StaffDraft, StaffAct
  <2>3. CASE StaffDraft(d)
    BY <1>3, <1>4, <2>2, <2>3, InsertRows, KeepClaims DEF StaffDraft
  <2>4. CASE DeleteDraft(d)
    <3>1. approval' = [approval EXCEPT ![d] = [approval[d] EXCEPT !.state = "deleted"]]
      BY <2>4 DEF DeleteDraft
    <3>2. approval[d] \in ApprovalRow
      BY <1>1 DEF Approvals
    <3>3. \A k \in Drafts : RowKept(k)
      BY <1>1, <3>1, <3>2 DEF Approvals, ApprovalRow, RowKept
    <3> QED BY <1>3, <1>4, <2>2, <3>3, KeepClaims
  <2> QED BY <2>1, <2>3, <2>4
<1>9. CASE \E d \in Drafts, t \in Texts : EditDraft(d, t) /\ StaffAct
  <2>1. PICK d \in Drafts, t \in Texts : EditDraft(d, t)
    BY <1>9
  <2>2. /\ job' = job /\ claim' = claim
        /\ approval' = [approval EXCEPT ![d] = [approval[d] EXCEPT !.text = t]]
    BY <1>9, <2>1 DEF EditDraft, StaffAct
  <2>3. approval[d] \in ApprovalRow
    BY <1>1 DEF Approvals
  <2>4. \A k \in Drafts : RowKept(k)
    BY <1>1, <2>2, <2>3 DEF Approvals, ApprovalRow, RowKept
  <2> QED BY <1>3, <1>4, <2>2, <2>4, KeepClaims
<1>10. CASE \E e \in 1..Last : LeaseEnds(e)
  <2>1. PICK e \in 1..Last : LeaseEnds(e)
    BY <1>10
  <2>2. /\ approval' = approval /\ job' = job
        /\ claim' = [claim EXCEPT ![e] = [claim[e] EXCEPT !.live = FALSE]]
    BY <2>1 DEF LeaseEnds, send
  <2>3. claim[e] \in ClaimRow
    BY <1>1 DEF Claims
  <2>4. \A c \in 1..Last : ClaimKept(c)
    BY <1>1, <2>2, <2>3 DEF Claims, ClaimRow, ClaimKept
  <2> QED BY <1>2, <1>4, <2>2, <2>4, KeepClaims
<1>11. CASE \E p, n \in BOOLEAN : SetGates(p, n)
  <2>1. PICK p \in BOOLEAN, n \in BOOLEAN : SetGates(p, n)
    BY <1>11
  <2>2. approval' = approval /\ claim' = claim
    BY <2>1 DEF SetGates
  <2>3. \A w \in Workers : WorkerKept(w)
    BY <1>1, <2>1, SetGatesJobs DEF WorkerKept, Senders
  <2> QED BY <1>2, <1>3, <2>2, <2>3, KeepClaims
<1>12. CASE Post \/ UNCHANGED vars
  <2>1. approval' = approval /\ claim' = claim /\ job' = job
    BY <1>12 DEF Post, vars, send
  <2> QED BY <1>2, <1>3, <1>4, <2>1, KeepClaims
<1> QED
  BY <1>5, <1>6, <1>7, <1>8, <1>9, <1>10, <1>11, <1>12 DEF OtherStep

LEMMA StepClaims == TypeInv /\ ClaimInv /\ [Next]_vars => ClaimInv'
<1> SUFFICES ASSUME TypeInv, ClaimInv, [Next]_vars
             PROVE  ClaimInv'
  OBVIOUS
<1>1. SendTypes /\ FlowTypes /\ JobsFit
  BY TypeParts DEF TypeInv
<1>2. CASE \E d \in Drafts : Deliver(d) /\ Apart
  <2>1. approval' = approval /\ claim' = claim /\ job' = job
    BY <1>2 DEF Deliver, Apart
  <2> QED BY <1>1, <2>1, KeepClaims DEF RowKept, ClaimKept, WorkerKept
<1> QED BY <1>1, <1>2, StepKinds, SendStepClaims, OtherStepClaims

LEMMA ClaimsHold == Spec => []ClaimInv
BY TypesHold, InitClaims, StepClaims, PTL DEF Spec

(* Of all the drafts that workers approved for one message of a guest at     *)
(* most one is ever sent, whichever leases were outlived and whichever       *)
(* flows died.                                                               *)
THEOREM AutoReplyOnce == Spec => []OneAutoReply
<1>1. ClaimInv => OneAutoReply
  BY DEF ClaimInv, OneReply, OneAutoReply
<1> QED BY <1>1, ClaimsHold, PTL

-----------------------------------------------------------------------------
(* The promise.  A row that was approved is never written again, whoever is  *)
(* past the approval carries its text, and so does the provider's draft from *)
(* the update on.                                                            *)

TextFits(d) ==
  /\ approval[d].state = "approved" => approval[d].agreed = approval[d].text
  /\ Phase(d) # "absent" => approval[d].state = "approved"
  /\ mail[d].updates > 0 => mail[d].body = approval[d].text

SenderFits(s) ==
  LET d == job[s].draft
  IN job[s].at \in SendSteps \ {"approve", "mirror"} =>
       approval[d].state = "approved" /\ job[s].text = approval[d].text

TextInv ==
  /\ \A d \in Drafts : TextFits(d)
  /\ \A s \in Senders : SenderFits(s)

LEMMA InitTexts == Init => TextInv
BY DEF Init, SendInit, Idle, TextInv, TextFits, SenderFits, Phase, SendSteps

AgreedKept(d) ==
  /\ approval[d].state = "approved" => approval'[d].state = "approved"
                                       /\ approval'[d].text = approval[d].text
  /\ approval'[d].state = "approved" => approval'[d].agreed = approval'[d].text

SenderKept(s) ==
  \/ job'[s].at \notin SendSteps \ {"approve", "mirror"}
  \/ /\ job'[s].draft = job[s].draft /\ job'[s].text = job[s].text
     /\ job[s].at \in SendSteps \ {"approve", "mirror"}

LEMMA KeepTexts ==
  ASSUME TextInv, JobsFit, \A d \in Drafts : AgreedKept(d),
         \A s \in Senders : SenderKept(s) \/ SenderFits(s)',
         \A d \in Drafts :
           /\ Phase(d)' # "absent" => Phase(d) # "absent" \/ approval[d].state = "approved"
           /\ mail'[d].updates > 0 =>
                \/ mail[d].updates > 0 /\ mail'[d].body = mail[d].body /\ Phase(d) # "absent"
                \/ mail'[d].body = approval[d].text /\ approval[d].state = "approved"
  PROVE  TextInv'
<1>1. ASSUME NEW d \in Drafts
      PROVE  TextFits(d)'
  BY DEF TextInv, TextFits, AgreedKept
<1>2. ASSUME NEW s \in Senders
      PROVE  SenderFits(s)'
  <2>1. job[s].at \in SendSteps => job[s].draft \in Drafts
    BY DEF JobsFit, JobFits
  <2> QED BY <2>1 DEF TextInv, SenderFits, SenderKept, AgreedKept
<1> QED BY <1>1, <1>2 DEF TextInv

LEMMA UpdatedIsJournaled ==
  ASSUME SendTypes, CallInv, NEW d \in Drafts, mail[d].updates > 0
  PROVE  Phase(d) # "absent"
<1>1. mail[d].updates \in Nat
  BY DEF SendTypes, Mails, MailRow
<1> QED BY <1>1 DEF CallInv, MailFits, UpdateCount

LEMMA SendStepTexts ==
  ASSUME SendTypes, JobsFit, CallInv, TextInv, NEW s \in Senders, SendStep(s)
  PROVE  TextInv'
<1> DEFINE d == job[s].draft
           Sending == SendSteps \ {"approve", "mirror"}
<1>1. /\ job \in Jobs /\ approval \in Approvals /\ journal \in Journals /\ mail \in Mails
      /\ job[s].at \in SendSteps => d \in Drafts
  BY DEF SendTypes, JobsFit, JobFits
<1>2. \A k \in Drafts : approval' = approval => AgreedKept(k)
  BY DEF AgreedKept, TextInv, TextFits
<1>3. \A k \in Drafts : mail[k].updates > 0 => Phase(k) # "absent"
  BY UpdatedIsJournaled
<1>4. End(s) => \A k \in Senders : SenderKept(k) \/ SenderFits(k)'
  <2> SUFFICES ASSUME End(s), NEW k \in Senders
               PROVE  SenderKept(k) \/ SenderFits(k)'
    OBVIOUS
  <2>1. Ends(s) /\ SenderFits(k)
    BY <1>1, EndEnds DEF TextInv
  <2>2. "idle" \notin Sending
    BY DEF SendSteps
  <2> QED BY <2>1, <2>2 DEF SenderKept, Ends, Others, Idle
<1>5. ASSUME NEW step \in Sending \cup {"mirror"}, Go(s, step), job[s].at \in Sending,
             NEW k \in Senders
      PROVE  SenderKept(k)
  BY <1>1, <1>5, GoMoves DEF SenderKept, Moves, Others
<1>6. {"claim", "create", "callCreate", "persist", "update", "callUpdate", "mark", "dispatch",
       "callSend", "reconcile"} \subseteq Sending
  BY DEF SendSteps
<1>7. ASSUME NEW phase, Resume(s, phase), job[s].at \in Sending
      PROVE  \A k \in Senders : SenderKept(k) \/ SenderFits(k)'
  <2>1. End(s) \/ Go(s, "update") \/ Go(s, "dispatch") \/ Go(s, "reconcile")
    BY <1>7 DEF Resume, Onward
  <2> QED BY <1>4, <1>5, <1>6, <1>7, <2>1
<1>8. job[s].at \in Sending => /\ d \in Drafts /\ approval[d].state = "approved"
                               /\ job[s].text = approval[d].text
  BY <1>1 DEF TextInv, SenderFits
<1>9. CASE Approve(s)
  <2>1. d \in Drafts
    BY <1>1, <1>9 DEF Approve, At, SendSteps
  <2>2. UNCHANGED <<journal, mail>>
    BY <1>9 DEF Approve
  <2>3. CASE ~MayApprove(s, d)
    BY <1>2, <1>3, <1>4, <1>9, <2>2, <2>3, KeepTexts DEF Approve, Phase
  <2>4. CASE MayApprove(s, d)
    <3> DEFINE agreed == [approval[d] EXCEPT !.state = "approved", !.by = s,
                                             !.agreed = job[s].text]
               going == [job[s] EXCEPT !.at = "claim", !.text = approval[d].text]
    <3>1. /\ job' = [job EXCEPT ![s] = going]
          /\ approval[d].state = "draft" => approval' = [approval EXCEPT ![d] = agreed]
          /\ approval[d].state # "draft" => approval' = approval
          /\ approval[d].state \in {"draft", "approved"} /\ approval[d].text = job[s].text
      BY <1>9, <2>4 DEF Approve, MayApprove
    <3>2. job[s] \in JobRow /\ approval[d] \in ApprovalRow
      BY <1>1, <2>1 DEF Jobs, Approvals
    <3>3. job'[s].text = approval[d].text /\ job'[s].draft = d /\ Others(s)
      BY <1>1, <3>1, <3>2 DEF Jobs, JobRow, Others
    <3>4. /\ approval'[d].state = "approved" /\ approval'[d].text = approval[d].text
          /\ approval'[d].agreed = approval[d].text
          /\ \A k \in Drafts : k # d => approval'[k] = approval[k]
      <4>1. CASE approval[d].state = "draft"
        <5>1. approval' = [approval EXCEPT ![d] = agreed]
          BY <3>1, <4>1
        <5>2. /\ agreed.state = "approved" /\ agreed.text = approval[d].text
              /\ agreed.agreed = job[s].text
          BY <3>2 DEF ApprovalRow
        <5> QED BY <1>1, <2>1, <3>1, <5>1, <5>2 DEF Approvals
      <4>2. CASE approval[d].state # "draft"
        BY <2>1, <3>1, <4>2 DEF TextInv, TextFits
      <4> QED BY <4>1, <4>2
    <3>5. \A k \in Drafts : AgreedKept(k)
      BY <3>4 DEF AgreedKept, TextInv, TextFits
    <3>6. SenderFits(s)'
      BY <3>3, <3>4 DEF SenderFits
    <3>7. ASSUME NEW k \in Senders, k # s
          PROVE  SenderKept(k)
      BY <3>3, <3>7 DEF SenderKept, Others
    <3> QED BY <1>3, <2>2, <3>5, <3>6, <3>7, KeepTexts DEF Phase
  <2> QED BY <2>3, <2>4
<1>10. CASE Mirror(s)
  <2>1. UNCHANGED <<approval, journal, mail>> /\ End(s)
    BY <1>10 DEF Mirror
  <2> QED BY <1>2, <1>3, <1>4, <2>1, KeepTexts DEF Phase
<1>11. CASE CallCreate(s) \/ CallUpdate(s) \/ CallSend(s)
  <2>1. /\ job[s].at \in Sending /\ UNCHANGED <<approval, journal>>
        /\ Go(s, "persist") \/ Go(s, "mark") \/ Go(s, "reconcile")
    BY <1>6, <1>11 DEF CallCreate, CallUpdate, CallSend, CallOnly, At
  <2>2. d \in Drafts /\ mail[d] \in MailRow
    BY <1>1, <1>8, <2>1 DEF Mails
  <2>3. \A k \in Drafts : k # d => mail'[k] = mail[k]
    BY <1>1, <1>11 DEF CallCreate, CallUpdate, CallSend, Mails
  <2>4. \/ mail'[d].body = mail[d].body /\ mail'[d].updates = mail[d].updates
        \/ mail'[d].body = job[s].text
    <3>1. PICK row :
            /\ mail' = [mail EXCEPT ![d] = row]
            /\ \/ row = [mail[d] EXCEPT !.state = "draft", !.creates = mail[d].creates + 1]
               \/ row = [mail[d] EXCEPT !.body = job[s].text, !.updates = mail[d].updates + 1]
               \/ row = [mail[d] EXCEPT !.state = "queued", !.sends = mail[d].sends + 1]
      BY <1>11 DEF CallCreate, CallUpdate, CallSend
    <3>2. \/ row.body = mail[d].body /\ row.updates = mail[d].updates
          \/ row.body = job[s].text
      BY <2>2, <3>1 DEF MailRow
    <3> QED BY <1>1, <2>2, <3>1, <3>2 DEF Mails
  <2>5. \A k \in Senders : SenderKept(k)
    BY <1>5, <1>6, <2>1
  <2> QED BY <1>2, <1>3, <1>8, <2>1, <2>2, <2>3, <2>4, <2>5, KeepTexts DEF Phase
<1>12. CASE \/ Claim(s) \/ ClaimCreate(s) \/ ClaimUpdate(s) \/ ClaimDispatch(s)
            \/ PersistDraft(s) \/ MarkUpdated(s) \/ Reconcile(s)
  <2>1. UNCHANGED <<approval, mail>> /\ job[s].at \in Sending
    BY <1>6, <1>12 DEF Claim, ClaimCreate, ClaimUpdate, ClaimDispatch, PersistDraft,
           MarkUpdated, Reconcile, JournalOnly, At
  <2>2. \A k \in Drafts : k # d => journal'[k] = journal[k]
    BY <1>1, <1>12 DEF Claim, ClaimCreate, ClaimUpdate, ClaimDispatch, PersistDraft,
           MarkUpdated, Reconcile, Advance, Journals
  <2>3. \/ End(s) \/ (\E step \in Sending \cup {"mirror"} : Go(s, step))
        \/ \E phase : Resume(s, phase)
    BY <1>6, <1>12 DEF Claim, ClaimCreate, ClaimUpdate, ClaimDispatch, PersistDraft,
           MarkUpdated, Reconcile
  <2>4. \A k \in Senders : SenderKept(k) \/ SenderFits(k)'
    BY <1>4, <1>5, <1>7, <2>1, <2>3
  <2> QED BY <1>2, <1>3, <1>8, <2>1, <2>2, <2>4, KeepTexts DEF Phase
<1> QED BY <1>9, <1>10, <1>11, <1>12 DEF SendStep

LEMMA InsertTexts ==
  ASSUME SendTypes, TextInv, NEW d \in Drafts, InsertDraft(d)
  PROVE  \A k \in Drafts : AgreedKept(k)
BY DEF SendTypes, Approvals, InsertDraft, AgreedKept, TextInv, TextFits

LEMMA OtherStepTexts ==
  ASSUME SendTypes, JobsFit, CallInv, TextInv, OtherStep
  PROVE  TextInv'
<1> DEFINE Sending == SendSteps \ {"approve", "mirror"}
<1>1. job \in Jobs /\ approval \in Approvals
  BY DEF SendTypes
<1>2. \A k \in Drafts : approval' = approval => AgreedKept(k)
  BY DEF AgreedKept, TextInv, TextFits
<1>3. \A k \in Drafts : mail[k].updates > 0 => Phase(k) # "absent"
  BY UpdatedIsJournaled
<1>4. job' = job => \A k \in Senders : SenderKept(k) \/ SenderFits(k)'
  <2> SUFFICES ASSUME job' = job, NEW k \in Senders
               PROVE  SenderKept(k)
    OBVIOUS
  <2> QED BY DEF SenderKept
<1>5. ASSUME UNCHANGED <<journal, mail>>, \A k \in Drafts : AgreedKept(k),
             \A k \in Senders : SenderKept(k) \/ SenderFits(k)'
      PROVE  TextInv'
  BY <1>3, <1>5, KeepTexts DEF Phase
<1>6. CASE \E w \in Workers : StartFlow(w) \/ FlowStep(w) \/ SaveUncertain(w)
  <2>1. PICK w \in Workers : StartFlow(w) \/ FlowStep(w) \/ SaveUncertain(w)
    BY <1>6
  <2>2. /\ UNCHANGED <<journal, mail>>
        /\ approval' = approval \/ \E d \in Drafts : InsertDraft(d)
    BY <2>1 DEF StartFlow, FlowStep, SaveUncertain, ReadContext, TakeClaim, SaveDraft,
                LinkApproval, RereadPause, RereadContext, BeginDispatch, GiveBack, FlowOnly
  <2>3. FlowMoves(w) /\ w \in Senders
    BY <1>1, <2>1, FlowJobs DEF Senders
  <2>4. \A step \in FlowSteps \cup {"approve", "idle"} : step \notin Sending
    BY DEF FlowSteps, SendSteps
  <2>5. \A k \in Senders : SenderKept(k)
    BY <2>3, <2>4 DEF FlowMoves, Ends, Others, Idle, SenderKept
  <2>6. \A k \in Drafts : AgreedKept(k)
    BY <1>2, <2>2, InsertTexts
  <2> QED BY <1>5, <2>2, <2>5, <2>6
<1>7. CASE \E s \in Senders : Lost(s)
  <2>1. PICK s \in Senders : Lost(s)
    BY <1>7
  <2>2. UNCHANGED <<approval, journal, mail>> /\ Ends(s)
    BY <1>1, <2>1, EndEnds DEF Lost
  <2>3. \A k \in Senders : SenderKept(k)
    BY <2>2 DEF SenderKept, Ends, Others, Idle, SendSteps
  <2> QED BY <1>2, <1>5, <2>2, <2>3
<1>8. CASE \E s \in Staff, d \in Drafts : Ask(s, d)
  <2>1. PICK s \in Senders, d \in Drafts : Recover(s, d)
    BY <1>8 DEF Ask, Senders
  <2>2. PICK step \in {"claim", "mirror"} : Request(s, step, d, approval[d].text)
    BY <2>1 DEF Recover
  <2>3. job'[s].at = step /\ job'[s].draft = d /\ job'[s].text = approval[d].text /\ Others(s)
    BY <1>1, <2>2, RequestStarts
  <2>4. UNCHANGED <<approval, journal, mail>> /\ approval[d].state = "approved"
    BY <2>1 DEF Recover, MayRecover
  <2>5. SenderFits(s)'
    BY <2>3, <2>4 DEF SenderFits
  <2>6. \A k \in Senders : k # s => SenderKept(k)
    BY <2>3 DEF SenderKept, Others
  <2> QED BY <1>2, <1>5, <2>4, <2>5, <2>6
<1>9. CASE \E s \in Staff, d \in Drafts, t \in Texts : ApproveSend(s, d, t) /\ StaffAct
  <2>1. PICK s \in Senders, d \in Drafts, t \in Texts : ApproveSend(s, d, t)
    BY <1>9 DEF Senders
  <2>2. Request(s, "approve", d, t) /\ UNCHANGED <<approval, journal, mail>>
    BY <2>1 DEF ApproveSend
  <2>3. job'[s].at = "approve" /\ Others(s)
    BY <1>1, <2>2, RequestStarts
  <2>4. \A k \in Senders : SenderKept(k)
    BY <2>3 DEF SenderKept, Others
  <2> QED BY <1>2, <1>5, <2>2, <2>4
<1>10. CASE \E d \in Drafts : (DeleteDraft(d) \/ StaffDraft(d)) /\ StaffAct
  <2>1. PICK d \in Drafts : DeleteDraft(d) \/ StaffDraft(d)
    BY <1>10
  <2>2. UNCHANGED <<job, journal, mail>>
    BY <2>1 DEF DeleteDraft, StaffDraft
  <2>3. CASE StaffDraft(d)
    BY <1>4, <1>5, <2>2, <2>3, InsertTexts DEF StaffDraft
  <2>4. CASE DeleteDraft(d)
    <3>1. /\ approval' = [approval EXCEPT ![d] = [approval[d] EXCEPT !.state = "deleted"]]
          /\ approval[d].state = "draft"
      BY <2>4 DEF DeleteDraft
    <3>2. approval[d] \in ApprovalRow
      BY <1>1 DEF Approvals
    <3>3. \A k \in Drafts : AgreedKept(k)
      BY <1>1, <3>1, <3>2 DEF Approvals, ApprovalRow, AgreedKept, TextInv, TextFits
    <3> QED BY <1>4, <1>5, <2>2, <3>3
  <2> QED BY <2>1, <2>3, <2>4
<1>11. CASE \E d \in Drafts, t \in Texts : EditDraft(d, t) /\ StaffAct
  <2>1. PICK d \in Drafts, t \in Texts : EditDraft(d, t)
    BY <1>11
  <2>2. /\ UNCHANGED <<job, journal, mail>> /\ approval[d].state = "draft"
        /\ approval' = [approval EXCEPT ![d] = [approval[d] EXCEPT !.text = t]]
    BY <2>1 DEF EditDraft
  <2>3. approval[d] \in ApprovalRow
    BY <1>1 DEF Approvals
  <2>4. \A k \in Drafts : AgreedKept(k)
    BY <1>1, <2>2, <2>3 DEF Approvals, ApprovalRow, AgreedKept, TextInv, TextFits
  <2> QED BY <1>4, <1>5, <2>2, <2>4
<1>12. CASE \/ \E e \in 1..Last : LeaseEnds(e)
            \/ Post
            \/ UNCHANGED vars
  <2>1. UNCHANGED <<approval, journal, mail, job>>
    BY <1>12 DEF LeaseEnds, Post, vars, send
  <2> QED BY <1>2, <1>4, <1>5, <2>1
<1>13. CASE \E p, n \in BOOLEAN : SetGates(p, n)
  <2>1. PICK p \in BOOLEAN, n \in BOOLEAN : SetGates(p, n)
    BY <1>13
  <2>2. UNCHANGED <<approval, journal, mail>>
    BY <2>1 DEF SetGates
  <2>3. \A k \in Senders : SenderKept(k)
    BY <1>1, <2>1, SetGatesJobs DEF SenderKept
  <2> QED BY <1>2, <1>5, <2>2, <2>3
<1> QED
  BY <1>6, <1>7, <1>8, <1>9, <1>10, <1>11, <1>12, <1>13 DEF OtherStep

LEMMA StepTexts == TypeInv /\ CallInv /\ TextInv /\ [Next]_vars => TextInv'
<1> SUFFICES ASSUME TypeInv, CallInv, TextInv, [Next]_vars
             PROVE  TextInv'
  OBVIOUS
<1>1. SendTypes /\ JobsFit
  BY TypeParts DEF TypeInv
<1>2. CASE \E d \in Drafts : Deliver(d) /\ Apart
  <2>1. PICK d \in Drafts : Deliver(d)
    BY <1>2
  <2>2. /\ UNCHANGED <<approval, journal, job>>
        /\ mail' = [mail EXCEPT ![d] = [mail[d] EXCEPT !.state = "sent"]]
    BY <2>1 DEF Deliver
  <2>3. mail \in Mails /\ mail[d] \in MailRow
    BY <1>1 DEF SendTypes, Mails
  <2>4. \A k \in Drafts : mail'[k].updates = mail[k].updates /\ mail'[k].body = mail[k].body
    BY <2>2, <2>3 DEF Mails, MailRow
  <2>5. \A k \in Drafts : mail[k].updates > 0 => Phase(k) # "absent"
    BY <1>1, UpdatedIsJournaled
  <2> QED BY <2>2, <2>4, <2>5 DEF TextInv, TextFits, SenderFits, Phase
<1> QED BY <1>1, <1>2, StepKinds, SendStepTexts, OtherStepTexts

LEMMA TextsHold == Spec => []TextInv
BY TypesHold, CallsHold, InitTexts, StepTexts, PTL DEF Spec

-----------------------------------------------------------------------------
(* The drafts seen as MailOnce sees them.                                    *)
Stages == [d \in Drafts |-> approval[d].state]
Words == [d \in Drafts |-> IF mail[d].sends > 0 THEN mail[d].body
                           ELSE IF approval[d].state = "approved" THEN approval[d].agreed
                           ELSE approval[d].text]
Copies == [d \in Drafts |-> mail[d].sends]

LEMMA WordsAreRows ==
  ASSUME SendTypes, CallInv, TextInv
  PROVE  Words = [d \in Drafts |-> approval[d].text]
<1> SUFFICES ASSUME NEW d \in Drafts
             PROVE  Words[d] = approval[d].text
  BY DEF Words
<1>1. mail[d].sends \in Nat /\ mail[d].updates \in Nat
  BY DEF SendTypes, Mails, MailRow
<1>2. MailFits(d) /\ TextFits(d)
  BY DEF CallInv, TextInv
<1>3. mail[d].sends > 0 => mail[d].updates > 0
  BY <1>1, <1>2 DEF MailFits, SendCount
<1> QED BY <1>2, <1>3 DEF Words, TextFits

(* The rows that are not written keep what MailOnce sees of them.            *)
RowSeen(d) == approval'[d].state = approval[d].state /\ approval'[d].text = approval[d].text

LEMMA IsWrite ==
  ASSUME NEW d \in Drafts, NEW t \in Texts,
         Words = [k \in Drafts |-> approval[k].text], Words' = [k \in Drafts |-> approval'[k].text],
         approval[d].state \in {"none", "draft"},
         approval'[d].state = "draft", approval'[d].text = t,
         \A k \in Drafts : k # d => RowSeen(k), mail' = mail
  PROVE  Promise!Next
<1>1. Stages' = [Stages EXCEPT ![d] = "draft"] /\ Words' = [Words EXCEPT ![d] = t]
  BY DEF Stages, RowSeen
<1>2. Stages[d] \in {"none", "draft"} /\ Copies' = Copies
  BY DEF Stages, Copies
<1> QED BY <1>1, <1>2 DEF Promise!Next, Promise!Write, Stages, Words, Copies

LEMMA IsStaged ==
  ASSUME NEW d \in Drafts, approval[d].state = "draft",
         Words = [k \in Drafts |-> approval[k].text], Words' = [k \in Drafts |-> approval'[k].text],
         approval'[d].state \in {"approved", "deleted"}, approval'[d].text = approval[d].text,
         \A k \in Drafts : k # d => approval'[k] = approval[k], mail' = mail
  PROVE  Promise!Next
<1>1. Words' = Words /\ Copies' = Copies
  BY DEF Copies
<1>2. Stages[d] = "draft" /\ Stages' = [Stages EXCEPT ![d] = approval'[d].state]
  BY DEF Stages
<1> QED BY <1>1, <1>2
        DEF Promise!Next, Promise!Agree, Promise!Delete, Stages, Words, Copies

LEMMA IsLeave ==
  ASSUME NEW d \in Drafts, approval[d].state = "approved", approval' = approval,
         Words = [k \in Drafts |-> approval[k].text], Words' = [k \in Drafts |-> approval'[k].text],
         mail[d].sends = 0, mail'[d].sends = 1,
         \A k \in Drafts : k # d => mail'[k] = mail[k]
  PROVE  Promise!Next
<1>1. Stages' = Stages /\ Words' = Words /\ Stages[d] = "approved"
  BY DEF Stages
<1>2. Copies[d] = 0 /\ Copies' = [Copies EXCEPT ![d] = 1]
  BY DEF Copies
<1> QED BY <1>1, <1>2 DEF Promise!Next, Promise!Leave, Stages, Words, Copies

LEMMA InsertWrites ==
  ASSUME SendTypes, NEW d \in Drafts, InsertDraft(d), mail' = mail,
         Words = [k \in Drafts |-> approval[k].text], Words' = [k \in Drafts |-> approval'[k].text]
  PROVE  Promise!Next
<1>1. /\ approval[d].state = "none" /\ approval'[d].state = "draft"
      /\ approval'[d].text = Authored /\ \A k \in Drafts : k # d => RowSeen(k)
  BY DEF InsertDraft, SendTypes, Approvals, RowSeen
<1> QED BY <1>1, SendAssumption, IsWrite

LEMMA Unseen ==
  ASSUME Words = [k \in Drafts |-> approval[k].text], Words' = [k \in Drafts |-> approval'[k].text],
         \A k \in Drafts : RowSeen(k), \A k \in Drafts : mail'[k].sends = mail[k].sends
  PROVE  UNCHANGED <<Stages, Words, Copies>>
BY DEF Stages, Copies, RowSeen

LEMMA SendStepPromise ==
  ASSUME SendTypes, JobsFit, CallInv, TextInv, NEW s \in Senders, SendStep(s),
         Words = [k \in Drafts |-> approval[k].text], Words' = [k \in Drafts |-> approval'[k].text]
  PROVE  Promise!Next \/ UNCHANGED <<Stages, Words, Copies>>
<1> DEFINE d == job[s].draft
<1>1. /\ approval \in Approvals /\ mail \in Mails
      /\ job[s].at \in SendSteps => d \in Drafts
  BY DEF SendTypes, JobsFit, JobFits
<1>2. approval' = approval => \A k \in Drafts : RowSeen(k)
  BY DEF RowSeen
<1>3. CASE Approve(s)
  <2>1. d \in Drafts /\ mail' = mail
    BY <1>1, <1>3 DEF Approve, At, SendSteps
  <2>2. CASE approval' = approval
    BY <1>2, <2>1, <2>2, Unseen
  <2>3. CASE approval' # approval
    <3>1. /\ approval[d].state = "draft"
          /\ approval' = [approval EXCEPT ![d] = [approval[d] EXCEPT !.state = "approved", !.by = s,
                                                                    !.agreed = job[s].text]]
      BY <1>3, <2>3 DEF Approve
    <3>2. approval[d] \in ApprovalRow
      BY <1>1, <2>1 DEF Approvals
    <3>3. /\ approval'[d].state = "approved" /\ approval'[d].text = approval[d].text
          /\ \A k \in Drafts : k # d => approval'[k] = approval[k]
      BY <1>1, <2>1, <3>1, <3>2 DEF Approvals, ApprovalRow
    <3> QED BY <2>1, <3>1, <3>3, IsStaged
  <2> QED BY <2>2, <2>3
<1>4. CASE CallSend(s)
  <2>1. d \in Drafts /\ approval' = approval /\ job[s].at = "callSend"
    BY <1>1, <1>4 DEF CallSend, CallOnly, At, SendSteps
  <2>2. mail[d].sends = 0 /\ approval[d].state = "approved"
    BY <2>1 DEF CallInv, CallerFits, TextInv, SenderFits, At, SendSteps
  <2>3. mail' = [mail EXCEPT ![d] = [mail[d] EXCEPT !.state = "queued",
                                                   !.sends = mail[d].sends + 1]]
    BY <1>4 DEF CallSend
  <2>4. mail[d] \in MailRow
    BY <1>1, <2>1 DEF Mails
  <2>5. mail'[d].sends = 1 /\ \A k \in Drafts : k # d => mail'[k] = mail[k]
    BY <1>1, <2>1, <2>2, <2>3, <2>4 DEF Mails, MailRow
  <2> QED BY <2>1, <2>2, <2>5, IsLeave
<1>5. CASE CallCreate(s) \/ CallUpdate(s)
  <2>1. d \in Drafts /\ approval' = approval
    BY <1>1, <1>5 DEF CallCreate, CallUpdate, CallOnly, At, SendSteps
  <2>2. PICK row :
          /\ mail' = [mail EXCEPT ![d] = row]
          /\ \/ row = [mail[d] EXCEPT !.state = "draft", !.creates = mail[d].creates + 1]
             \/ row = [mail[d] EXCEPT !.body = job[s].text, !.updates = mail[d].updates + 1]
    BY <1>5 DEF CallCreate, CallUpdate
  <2>3. mail[d] \in MailRow
    BY <1>1, <2>1 DEF Mails
  <2>4. row.sends = mail[d].sends
    BY <2>2, <2>3 DEF MailRow
  <2>5. \A k \in Drafts : mail'[k].sends = mail[k].sends
    BY <1>1, <2>2, <2>4 DEF Mails
  <2> QED BY <1>2, <2>1, <2>5, Unseen
<1>6. CASE ~Approve(s) /\ ~CallSend(s) /\ ~CallCreate(s) /\ ~CallUpdate(s)
  <2>1. approval' = approval /\ mail' = mail
    BY <1>6 DEF SendStep, Claim, ClaimCreate, ClaimUpdate, ClaimDispatch, PersistDraft,
           MarkUpdated, Reconcile, Mirror, JournalOnly
  <2> QED BY <1>2, <2>1, Unseen
<1> QED BY <1>3, <1>4, <1>5, <1>6

LEMMA OtherStepPromise ==
  ASSUME SendTypes, OtherStep,
         Words = [k \in Drafts |-> approval[k].text], Words' = [k \in Drafts |-> approval'[k].text]
  PROVE  Promise!Next \/ UNCHANGED <<Stages, Words, Copies>>
<1>1. approval \in Approvals
  BY DEF SendTypes
<1>2. CASE approval' = approval /\ mail' = mail
  BY <1>2, Unseen DEF RowSeen
<1>3. CASE \E w \in Workers : StartFlow(w) \/ FlowStep(w) \/ SaveUncertain(w)
  <2>1. /\ approval' = approval \/ \E d \in Drafts : InsertDraft(d)
        /\ mail' = mail
    BY <1>3 DEF StartFlow, FlowStep, SaveUncertain, ReadContext, TakeClaim, SaveDraft,
                LinkApproval, RereadPause, RereadContext, BeginDispatch, GiveBack, FlowOnly
  <2> QED BY <1>2, <2>1, InsertWrites
<1>4. CASE \E d \in Drafts : (DeleteDraft(d) \/ StaffDraft(d)) /\ StaffAct
  <2>1. PICK d \in Drafts : DeleteDraft(d) \/ StaffDraft(d)
    BY <1>4
  <2>2. mail' = mail
    BY <2>1 DEF DeleteDraft, StaffDraft
  <2>3. CASE StaffDraft(d)
    BY <2>2, <2>3, InsertWrites DEF StaffDraft
  <2>4. CASE DeleteDraft(d)
    <3>1. /\ approval' = [approval EXCEPT ![d] = [approval[d] EXCEPT !.state = "deleted"]]
          /\ approval[d].state = "draft"
      BY <2>4 DEF DeleteDraft
    <3>2. approval[d] \in ApprovalRow
      BY <1>1 DEF Approvals
    <3>3. /\ approval'[d].state = "deleted" /\ approval'[d].text = approval[d].text
          /\ \A k \in Drafts : k # d => approval'[k] = approval[k]
      BY <1>1, <3>1, <3>2 DEF Approvals, ApprovalRow
    <3> QED BY <2>1, <2>2, <3>1, <3>3, IsStaged
  <2> QED BY <2>1, <2>3, <2>4
<1>5. CASE \E d \in Drafts, t \in Texts : EditDraft(d, t) /\ StaffAct
  <2>1. PICK d \in Drafts, t \in Texts : EditDraft(d, t)
    BY <1>5
  <2>2. /\ mail' = mail /\ approval[d].state = "draft"
        /\ approval' = [approval EXCEPT ![d] = [approval[d] EXCEPT !.text = t]]
    BY <2>1 DEF EditDraft
  <2>3. approval[d] \in ApprovalRow
    BY <1>1 DEF Approvals
  <2>4. /\ approval'[d].state = "draft" /\ approval'[d].text = t
        /\ \A k \in Drafts : k # d => RowSeen(k)
    BY <1>1, <2>2, <2>3 DEF Approvals, ApprovalRow, RowSeen
  <2> QED BY <2>2, <2>4, IsWrite
<1> QED
  BY <1>2, <1>3, <1>4, <1>5
     DEF OtherStep, Lost, Ask, Recover, ApproveSend, LeaseEnds, SetGates, Post, vars, send

LEMMA StepPromise ==
  TypeInv /\ TypeInv' /\ CallInv /\ CallInv' /\ TextInv /\ TextInv' /\ [Next]_vars
    => [Promise!Next]_<<Stages, Words, Copies>>
<1> SUFFICES ASSUME TypeInv, TypeInv', CallInv, CallInv', TextInv, TextInv', [Next]_vars
             PROVE  Promise!Next \/ UNCHANGED <<Stages, Words, Copies>>
  OBVIOUS
<1>1. SendTypes /\ JobsFit
  BY TypeParts DEF TypeInv
<1>2. SendTypes'
  BY TypePartsNext DEF TypeInv
<1>3. Words = [d \in Drafts |-> approval[d].text]
  BY <1>1, WordsAreRows
<1>4. (SendTypes /\ CallInv /\ TextInv => Words = [d \in Drafts |-> approval[d].text])'
  BY WordsAreRows, PTL
<1>5. Words' = [d \in Drafts |-> approval'[d].text]
  BY <1>2, <1>4
<1>6. CASE \E d \in Drafts : Deliver(d) /\ Apart
  <2>1. PICK d \in Drafts : Deliver(d)
    BY <1>6
  <2>2. /\ approval' = approval
        /\ mail' = [mail EXCEPT ![d] = [mail[d] EXCEPT !.state = "sent"]]
    BY <2>1 DEF Deliver
  <2>3. mail \in Mails /\ mail[d] \in MailRow
    BY <1>1 DEF SendTypes, Mails
  <2>4. \A k \in Drafts : mail'[k].sends = mail[k].sends
    BY <2>2, <2>3 DEF Mails, MailRow
  <2> QED BY <1>3, <1>5, <2>2, <2>4, Unseen DEF RowSeen
<1> QED
  BY <1>1, <1>3, <1>5, <1>6, StepKinds, SendStepPromise, OtherStepPromise

LEMMA StartPromise == Init => Promise!Init
BY DEF Init, SendInit, Promise!Init

(* What leaves the mailbox is what somebody agreed to, word for word, and    *)
(* one copy of it: the handlers, the workers and the recovery implement      *)
(* MailOnce.                                                                 *)
THEOREM RepliesKeepPromise == Spec => KeepsPromise
<1>1. TypeInv /\ TypeInv' /\ CallInv /\ CallInv' /\ TextInv /\ TextInv' /\ [Next]_vars
        => [Promise!Next]_<<Stages, Words, Copies>>
  BY StepPromise
<1> QED BY <1>1, StartPromise, TypesHold, CallsHold, TextsHold, PTL
        DEF Spec, KeepsPromise, Promise!Spec, Promise!mail, Stages, Words, Copies

=============================================================================
