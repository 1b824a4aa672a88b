------------------------ MODULE ConfirmationSendSafety ------------------------
(* What sending a confirmation guarantees, for every number of senders, keys *)
(* and losses.                                                               *)
EXTENDS ConfirmationSend, TLAPS

(* A sender at work has a key, and only automatic ones have a claim to ask   *)
(* for or to give back.                                                      *)
JobFits(s) ==
  /\ job[s].at # "idle" => job[s].key \in Keys
  /\ job[s].at \in {"claim", "durable", "release"} => s \in Autos /\ ~job[s].recover
  /\ job[s].at = "persist" => job[s].answer # "none"

JobsFit == \A s \in Senders : JobFits(s)

TypeInv == TypeOK /\ JobsFit

Job == [at : Steps, key : Keys \cup {NoKey}, recover : BOOLEAN, answer : Answers]

-----------------------------------------------------------------------------
(* Type correctness.                                                         *)

(* A step of s leaves the other jobs alone and its own well formed.          *)
OwnJob(s) ==
  /\ job' \in [Senders -> Job]
  /\ \A r \in Senders : r # s => job'[r] = job[r]
  /\ JobFits(s)'

LEMMA NewJob ==
  ASSUME TypeInv, NEW s \in Senders, NEW j \in Job, job' = [job EXCEPT ![s] = j],
         j.at # "idle" => j.key \in Keys,
         j.at \in {"claim", "durable", "release"} => s \in Autos /\ ~j.recover,
         j.at = "persist" => j.answer # "none"
  PROVE  OwnJob(s)
<1>1. job \in [Senders -> Job]
  BY DEF TypeInv, TypeOK, Job
<1>2. job'[s] = j
  BY <1>1
<1>3. JobFits(s)'
  BY <1>2 DEF JobFits
<1> QED BY <1>1, <1>3 DEF OwnJob

LEMMA AtWork ==
  ASSUME TypeInv, NEW s \in Senders, ~At(s, "idle")
  PROVE  job[s] \in Job /\ job[s].key \in Keys
BY DEF TypeInv, TypeOK, JobsFit, JobFits, Job, At

LEMMA GoFits ==
  ASSUME TypeInv, NEW s \in Senders, NEW step \in Steps, Go(s, step), ~At(s, "idle"),
         step # "persist",
         step \in {"claim", "durable", "release"} => s \in Autos /\ ~job[s].recover
  PROVE  OwnJob(s)
<1> DEFINE j == [job[s] EXCEPT !.at = step, !.answer = "none"]
<1>1. /\ j \in Job /\ j.at = step /\ j.key = job[s].key /\ j.recover = job[s].recover
  BY AtWork DEF Job, Answers
<1>2. j.key \in Keys
  BY <1>1, AtWork
<1>3. job' = [job EXCEPT ![s] = j]
  BY DEF Go
<1> HIDE DEF j
<1> QED BY <1>1, <1>2, <1>3, NewJob

LEMMA EndFits ==
  ASSUME TypeInv, NEW s \in Senders, End(s)
  PROVE  OwnJob(s)
<1>1. Idle \in Job
  BY DEF Idle, Job, Steps, Working, Answers
<1> QED BY <1>1, NewJob DEF End, Idle

LEMMA GiveUpFits ==
  ASSUME TypeInv, NEW s \in Senders, ~At(s, "idle"), GiveUp(s)
  PROVE  OwnJob(s)
<1>1. CASE s \in Autos /\ ~job[s].recover
  BY <1>1, GoFits DEF GiveUp, Steps, Working
<1>2. CASE ~(s \in Autos /\ ~job[s].recover)
  BY <1>2, EndFits DEF GiveUp
<1> QED BY <1>1, <1>2

LEMMA AnswerFits ==
  ASSUME TypeInv, NEW s \in Senders, ~At(s, "idle"), AnswerFromRow(s)
  PROVE  OwnJob(s)
<1>1. CASE row[Key(s)].status = "sent" /\ row[Key(s)].id
  BY <1>1, GoFits DEF AnswerFromRow, Steps, Working
<1>2. CASE row[Key(s)].status = "sent" /\ ~row[Key(s)].id
  BY <1>2, EndFits DEF AnswerFromRow
<1>3. CASE row[Key(s)].status # "sent"
  BY <1>3, GiveUpFits DEF AnswerFromRow
<1> QED BY <1>1, <1>2, <1>3

LEMMA SenderJob ==
  ASSUME TypeInv, NEW s \in Senders, SenderStep(s)
  PROVE  OwnJob(s)
<1>1. CASE ClaimSend(s)
  <2>1. s \in Autos /\ ~job[s].recover /\ ~At(s, "idle")
    BY <1>1 DEF ClaimSend, TypeInv, JobsFit, JobFits, At
  <2> QED BY <1>1, <2>1, GoFits DEF ClaimSend, Steps, Working
<1>2. CASE FindSent(s)
  <2>1. CASE End(s)  BY <2>1, EndFits
  <2>2. CASE ~End(s)
    <3> DEFINE j == [job[s] EXCEPT !.at = "replay", !.recover = TRUE]
    <3>1. j \in Job /\ j.at = "replay" /\ j.key \in Keys
      BY <1>2, AtWork DEF FindSent, At, Job, Steps, Working
    <3>2. job' = [job EXCEPT ![s] = j]
      BY <1>2, <2>2 DEF FindSent
    <3> HIDE DEF j
    <3> QED BY <3>1, <3>2, NewJob
  <2> QED BY <2>1, <2>2
<1>3. CASE Replay(s)
  BY <1>3, GoFits, AnswerFits DEF Replay, At, Steps, Working
<1>3a. CASE Refuse(s)
  BY <1>3a, GiveUpFits DEF Refuse, At
<1>4. CASE Gate(s)
  BY <1>4, GoFits, GiveUpFits DEF Gate, At, Steps, Working
<1>5. CASE ClaimRow(s)
  BY <1>5, GoFits, AnswerFits DEF ClaimRow, At, Steps, Working
<1>6. CASE Reclaim(s)
  BY <1>6, GoFits, AnswerFits DEF Reclaim, At, Steps, Working
<1>7. CASE CallProvider(s)
  <2>1. CASE GiveUp(s)
    BY <1>7, <2>1, GiveUpFits DEF CallProvider, At
  <2>2. CASE ~GiveUp(s)
    <3>1. PICK a \in {"id", "no id", "refused"} : Answered(s, a)
      BY <1>7, <2>2 DEF CallProvider
    <3> DEFINE j == [job[s] EXCEPT !.at = "persist", !.answer = a]
    <3>2. j \in Job /\ j.at = "persist" /\ j.key \in Keys /\ j.answer # "none"
      BY <1>7, AtWork DEF CallProvider, At, Job, Steps, Working, Answers
    <3>3. job' = [job EXCEPT ![s] = j]
      BY <3>1 DEF Answered
    <3> HIDE DEF j
    <3> QED BY <3>2, <3>3, NewJob
  <2> QED BY <2>1, <2>2
<1>8. CASE Persist(s)
  BY <1>8, GoFits, EndFits, GiveUpFits DEF Persist, At, Steps, Working
<1>9. CASE MarkSent(s) \/ Stamp(s)
  BY <1>9, GoFits DEF MarkSent, Stamp, At, Steps, Working
<1>10. CASE Look(s)
  BY <1>10, GoFits, EndFits DEF Look, At, Steps, Working
<1>11. CASE Clear(s) \/ Release(s)
  BY <1>11, EndFits DEF Clear, Release
<1> QED
  BY <1>1, <1>2, <1>3, <1>3a, <1>4, <1>5, <1>6, <1>7, <1>8, <1>9, <1>10, <1>11
  DEF SenderStep

LEMMA StartAutoFits ==
  ASSUME TypeInv, NEW s \in Autos, StartAuto(s)
  PROVE  OwnJob(s)
<1> DEFINE j == [Idle EXCEPT !.at = "claim", !.key = BookingKey]
<1>1. j \in Job /\ j.at = "claim" /\ j.key \in Keys /\ ~j.recover
  BY ConfirmationAssumption DEF Idle, Job, Steps, Working, Answers
<1>2. s \in Senders /\ job' = [job EXCEPT ![s] = j]
  BY DEF StartAuto, Senders
<1> HIDE DEF j
<1> QED BY <1>1, <1>2, NewJob

LEMMA StartBotFits ==
  ASSUME TypeInv, NEW s \in Bots, NEW k \in Keys, StartBot(s, k)
  PROVE  OwnJob(s)
<1> DEFINE j == [Idle EXCEPT !.at = "replay", !.key = k]
<1>1. j \in Job /\ j.at = "replay" /\ j.key \in Keys
  BY DEF Idle, Job, Steps, Working, Answers
<1>2. s \in Senders /\ job' = [job EXCEPT ![s] = j]
  BY DEF StartBot, Senders
<1> HIDE DEF j
<1> QED BY <1>1, <1>2, NewJob

LEMMA LossFits ==
  ASSUME TypeInv, NEW s \in Senders, Die(s) \/ Fail(s)
  PROVE  OwnJob(s)
BY EndFits, GiveUpFits DEF Die, Fail, At, Working

LEMMA StepJob ==
  ASSUME TypeInv, [Next]_vars
  PROVE  JobsFit' /\ job' \in [Senders -> Job]
<1>1. ASSUME NEW s \in Senders, OwnJob(s)  PROVE JobsFit' /\ job' \in [Senders -> Job]
  BY <1>1 DEF OwnJob, TypeInv, JobsFit, JobFits
<1>2. ASSUME UNCHANGED job  PROVE JobsFit' /\ job' \in [Senders -> Job]
  BY <1>2 DEF TypeInv, TypeOK, JobsFit, JobFits, Job
<1>3. ASSUME NEW k \in Keys, Callback(k) \/ ReportFailed(k) \/ LoseCallback(k)
      PROVE  UNCHANGED job
  BY <1>3 DEF Callback, StoreDelivery, ClearDelivered, ReportFailed, LoseCallback
<1>4. CASE Next
  <2>1. CASE \E s \in Autos : StartAuto(s)
    BY <2>1, <1>1, StartAutoFits DEF Senders
  <2>2. CASE \E s \in Bots, k \in Keys : StartBot(s, k)
    BY <2>2, <1>1, StartBotFits DEF Senders
  <2>3. CASE \E s \in Senders : SenderStep(s) \/ Die(s) \/ Fail(s)
    BY <2>3, <1>1, LossFits, SenderJob
  <2>4. CASE \E k \in Keys : Callback(k) \/ ReportFailed(k) \/ LoseCallback(k)
    BY <2>4, <1>2, <1>3
  <2> QED BY <1>4, <2>1, <2>2, <2>3, <2>4 DEF Next
<1>5. CASE UNCHANGED vars
  BY <1>2, <1>5 DEF vars
<1> QED BY <1>4, <1>5

(* The tables.  What each step writes of them.                               *)
Tables ==
  /\ booking \in [sent : BOOLEAN, claim : {"none", "in_flight", "released"}]
  /\ row \in [Keys -> [status : Statuses, id : BOOLEAN]]
  /\ message \in [Keys -> [accepted : Nat, fate : {"none", "accepted", "delivered", "failed"}]]
  /\ owed \in [id : Keys \cup {NoKey}, cleared : BOOLEAN]
  /\ deliveries \subseteq Keys
  /\ callback \in [Keys -> {"none", "clear", "done"}]
  /\ losses \in 0..MaxLosses

LEMMA PutRowTyped ==
  ASSUME TypeInv, NEW k \in Keys, NEW status \in Statuses, PutRow(k, status)
  PROVE  row' \in [Keys -> [status : Statuses, id : BOOLEAN]]
BY DEF TypeInv, TypeOK, PutRow

LEMMA SenderTables ==
  ASSUME TypeInv, NEW s \in Senders, SenderStep(s)
  PROVE  Tables'
<1>1. Key(s) \in Keys
  BY DEF TypeInv, JobsFit, JobFits, SenderStep, Key, ClaimSend, FindSent, Replay, Refuse, Gate,
         ClaimRow,
         Reclaim, CallProvider, Persist, MarkSent, Stamp, Look, Clear, Release, At
<1> USE <1>1 DEF TypeInv, TypeOK, Tables
<1>2. CASE ClaimSend(s)
  BY <1>2 DEF ClaimSend, BookingOnly
<1>3. CASE FindSent(s) \/ Replay(s) \/ Refuse(s) \/ Look(s)
  BY <1>3 DEF FindSent, Replay, Refuse, Look, JobOnly
<1>4. CASE Gate(s)
  BY <1>4, PutRowTyped DEF Gate, RowOnly, Statuses
<1>5. CASE ClaimRow(s)
  <2>1. UNCHANGED row \/ PutRow(Key(s), "pending")
    BY <1>5 DEF ClaimRow
  <2> QED BY <1>5, <2>1, PutRowTyped DEF ClaimRow, RowOnly, Statuses
<1>6. CASE Reclaim(s)
  <2>1. UNCHANGED row \/ PutRow(Key(s), "pending")
    BY <1>6 DEF Reclaim
  <2> QED BY <1>6, <2>1, PutRowTyped DEF Reclaim, RowOnly, Statuses
<1>7. CASE CallProvider(s)
  <2>1. UNCHANGED message \/ Accept(Key(s))
    BY <1>7 DEF CallProvider
  <2>2. message' \in [Keys -> [accepted : Nat, fate : {"none", "accepted", "delivered", "failed"}]]
    BY <2>1 DEF Accept
  <2> QED BY <1>7, <2>2 DEF CallProvider
<1>8. CASE Persist(s)
  <2>1. CASE PutRow(Key(s), "blocked")
    BY <1>8, <2>1, PutRowTyped DEF Persist, RowOnly, Statuses
  <2>2. CASE row' = [row EXCEPT ![Key(s)] = [status |-> "sent", id |-> job[s].answer = "id"]]
    BY <1>8, <2>2 DEF Persist, RowOnly, Statuses
  <2> QED BY <1>8, <2>1, <2>2 DEF Persist
<1>9. CASE MarkSent(s)
  BY <1>9 DEF MarkSent, BookingOnly
<1>10. CASE Stamp(s)
  BY <1>10 DEF Stamp, OwedOnly
<1>11. CASE Clear(s)
  BY <1>11 DEF Clear, ClearOwed, OwedOnly
<1>12. CASE Release(s)
  BY <1>12 DEF Release, BookingOnly
<1> QED
  BY <1>2, <1>3, <1>4, <1>5, <1>6, <1>7, <1>8, <1>9, <1>10, <1>11, <1>12 DEF SenderStep

LEMMA StepTables ==
  ASSUME TypeInv, [Next]_vars
  PROVE  Tables'
<1> USE DEF TypeInv, TypeOK, Tables
<1>1. ASSUME NEW s \in Autos, StartAuto(s)  PROVE Tables'
  BY <1>1 DEF StartAuto, JobOnly
<1>2. ASSUME NEW s \in Bots, NEW k \in Keys, StartBot(s, k)  PROVE Tables'
  BY <1>2 DEF StartBot, JobOnly
<1>3. ASSUME NEW s \in Senders, Die(s) \/ Fail(s)  PROVE Tables'
  BY <1>3, ConfirmationAssumption DEF Die, Fail
<1>4. ASSUME NEW k \in Keys, StoreDelivery(k)  PROVE Tables'
  BY <1>4 DEF StoreDelivery
<1>5. ASSUME NEW k \in Keys, ClearDelivered(k)  PROVE Tables'
  BY <1>5 DEF ClearDelivered, ClearOwed
<1>6. ASSUME NEW k \in Keys, ReportFailed(k)  PROVE Tables'
  <2>1. UNCHANGED row \/ PutRow(k, "failed")
    BY <1>6 DEF ReportFailed
  <2>2. row' \in [Keys -> [status : Statuses, id : BOOLEAN]]
    BY <2>1, PutRowTyped DEF Statuses
  <2>3. message' \in [Keys -> [accepted : Nat, fate : {"none", "accepted", "delivered", "failed"}]]
    BY <1>6 DEF ReportFailed
  <2>4. UNCHANGED <<booking, owed, deliveries, callback, losses>>
    BY <1>6 DEF ReportFailed
  <2> QED BY <2>2, <2>3, <2>4
<1>7. ASSUME NEW k \in Keys, LoseCallback(k)  PROVE Tables'
  BY <1>7, ConfirmationAssumption DEF LoseCallback
<1>8. CASE UNCHANGED vars
  BY <1>8 DEF vars
<1> QED
  BY <1>1, <1>2, <1>3, <1>4, <1>5, <1>6, <1>7, <1>8, SenderTables DEF Next, Callback

LEMMA TypesHold == Spec => []TypeInv
<1>1. Init => TypeInv
  BY ConfirmationAssumption
  DEF Init, TypeInv, TypeOK, JobsFit, JobFits, Idle, Answers, Steps, Working, Statuses
<1>2. TypeInv /\ [Next]_vars => TypeInv'
  BY StepJob, StepTables DEF TypeInv, TypeOK, Tables, Job
<1> QED BY <1>1, <1>2, PTL DEF Spec

(* Every booking, row, message and sender of a confirmation keeps its type,  *)
(* for every number of senders, keys and losses.                             *)
THEOREM ConfirmationTypeCorrect == Spec => []TypeOK
<1>1. TypeInv => TypeOK
  BY DEF TypeInv
<1> QED BY <1>1, TypesHold, PTL

-----------------------------------------------------------------------------
(* One message under a key.                                                  *)

Calling(s) == job[s].at \in {"call", "persist"}

(* A row tells what WhatsApp took: nothing while it is absent or blocked, one*)
(* message if it has an id.                                                  *)
KeyFits(k) ==
  /\ row[k].id => row[k].status \in {"sent", "failed"} /\ message[k].accepted > 0
  /\ row[k].status = "failed" => row[k].id
  /\ row[k].status \in {"absent", "blocked"} => message[k].accepted = 0
  /\ message[k].accepted <= 1
  /\ message[k].fate # "none" => message[k].accepted > 0
  /\ k \in deliveries \/ callback[k] = "clear" => message[k].fate = "delivered"

(* Who calls WhatsApp has put the row to pending, and nobody else calls for  *)
(* that key.                                                                 *)
CallerFits(s) ==
  /\ Calling(s) => row[Key(s)].status = "pending"
  /\ At(s, "call") => message[Key(s)].accepted = 0
  /\ At(s, "persist") => (job[s].answer = "refused" <=> message[Key(s)].accepted = 0)
  /\ At(s, "mark") => row[Key(s)].id
  /\ At(s, "clear") => Key(s) \in deliveries

Alone(s, r) == Calling(s) /\ Calling(r) /\ Key(s) = Key(r) => s = r

KeysFit == \A k \in Keys : KeyFits(k)
CallersFit == \A s \in Senders : CallerFits(s) /\ \A r \in Senders : Alone(s, r)

CallInv == KeysFit /\ CallersFit /\ SentIsAccepted /\ ClearedIsDelivered

(* What becomes of the job of a sender.                                      *)
LEMMA GoAt ==
  ASSUME TypeInv, NEW s \in Senders, NEW step, Go(s, step)
  PROVE  /\ job'[s].at = step /\ job'[s].key = job[s].key
         /\ job'[s].recover = job[s].recover
BY DEF TypeInv, TypeOK, Go

LEMMA EndAt ==
  ASSUME TypeInv, NEW s \in Senders, End(s)
  PROVE  job'[s].at = "idle"
BY DEF TypeInv, TypeOK, End, Idle

LEMMA GiveUpAt ==
  ASSUME TypeInv, NEW s \in Senders, GiveUp(s)
  PROVE  /\ job'[s].at \in {"release", "idle"}
         /\ job'[s].at = "release" => ~job[s].recover
BY GoAt, EndAt DEF GiveUp

LEMMA AnswerAt ==
  ASSUME TypeInv, NEW s \in Senders, AnswerFromRow(s)
  PROVE  /\ job'[s].at \in {"mark", "release", "idle"}
         /\ job'[s].at = "mark" => row[Key(s)].id /\ job'[s].key = job[s].key
                                   /\ job'[s].recover = job[s].recover
         /\ job'[s].at = "release" => ~job[s].recover
<1>1. CASE row[Key(s)].status = "sent" /\ row[Key(s)].id
  BY <1>1, GoAt DEF AnswerFromRow
<1>2. CASE row[Key(s)].status = "sent" /\ ~row[Key(s)].id
  BY <1>2, EndAt DEF AnswerFromRow
<1>3. CASE row[Key(s)].status # "sent"
  BY <1>3, GiveUpAt DEF AnswerFromRow
<1> QED BY <1>1, <1>2, <1>3

LEMMA AtKey ==
  ASSUME TypeInv, NEW s \in Senders, ~At(s, "idle")
  PROVE  Key(s) \in Keys
BY DEF TypeInv, JobsFit, JobFits, Key, At

(* A step of s that leaves rows and messages alone.                          *)
LEMMA QuietStep ==
  ASSUME TypeInv, CallInv, NEW s \in Senders, OwnJob(s),
         UNCHANGED <<row, message, deliveries, callback>>,
         ~Calling(s)', CallerFits(s)'
  PROVE  KeysFit' /\ CallersFit'
<1>1. KeysFit'
  BY DEF CallInv, KeysFit, KeyFits
<1>2. ASSUME NEW r \in Senders  PROVE CallerFits(r)'
  BY DEF CallInv, CallersFit, CallerFits, OwnJob, Calling, Key, At
<1>3. ASSUME NEW r \in Senders, NEW q \in Senders  PROVE Alone(r, q)'
  BY DEF CallInv, CallersFit, Alone, OwnJob, Calling, Key
<1> QED BY <1>1, <1>2, <1>3 DEF CallersFit

(* A step of s that writes the row of its own key, which nobody else is      *)
(* calling for or marking.                                                   *)
LEMMA WritingStep ==
  ASSUME TypeInv, CallInv, NEW s \in Senders, NEW n \in Keys, Key(s) = n, OwnJob(s),
         UNCHANGED <<deliveries, callback>>,
         \A k \in Keys \ {n} : row'[k] = row[k] /\ message'[k] = message[k],
         \A r \in Senders \ {s} : Calling(r) => Key(r) # n,
         ~row[n].id,
         Calling(s)' => job'[s].key = job[s].key,
         KeyFits(n)', CallerFits(s)'
  PROVE  KeysFit' /\ CallersFit'
<1>1. ASSUME NEW k \in Keys  PROVE KeyFits(k)'
  <2>1. CASE k = n
    BY <2>1
  <2>2. CASE k # n
    BY <2>2 DEF CallInv, KeysFit, KeyFits
  <2> QED BY <2>1, <2>2
<1>2. ASSUME NEW r \in Senders  PROVE CallerFits(r)'
  <2>1. CASE r = s
    BY <2>1
  <2>2. CASE r # s
    <3>1. job'[r] = job[r] /\ CallerFits(r)
      BY <2>2 DEF OwnJob, CallInv, CallersFit
    <3>2. ~At(r, "idle") => Key(r) \in Keys
      BY AtKey
    <3>3. Calling(r) \/ At(r, "mark") => Key(r) # n
      BY <2>2, <3>1 DEF CallerFits
    <3>4. ~At(r, "idle") /\ Key(r) # n =>
            row'[Key(r)] = row[Key(r)] /\ message'[Key(r)] = message[Key(r)]
      BY <3>2
    <3>5. Key(r)' = Key(r) /\ Calling(r)' = Calling(r)
      BY <3>1 DEF Key, Calling
    <3>6. Calling(r)' => row'[Key(r)'].status = "pending"
      BY <3>1, <3>3, <3>4, <3>5 DEF CallerFits, Calling, At
    <3>7. At(r, "call")' => message'[Key(r)'].accepted = 0
      BY <3>1, <3>3, <3>4, <3>5 DEF CallerFits, Calling, At
    <3>8. At(r, "persist")' => (job'[r].answer = "refused" <=> message'[Key(r)'].accepted = 0)
      BY <3>1, <3>3, <3>4, <3>5 DEF CallerFits, Calling, At
    <3>9. At(r, "mark")' => row'[Key(r)'].id
      BY <3>1, <3>3, <3>4, <3>5 DEF CallerFits, Calling, At
    <3>10. At(r, "clear")' => Key(r)' \in deliveries'
      BY <3>1, <3>5 DEF CallerFits, At
    <3> QED BY <3>6, <3>7, <3>8, <3>9, <3>10 DEF CallerFits
  <2> QED BY <2>1, <2>2
<1>3. ASSUME NEW r \in Senders, NEW q \in Senders  PROVE Alone(r, q)'
  BY DEF CallInv, CallersFit, Alone, OwnJob, Calling, Key
<1> QED BY <1>1, <1>2, <1>3 DEF KeysFit, CallersFit

(* Its own step, for a sender.                                               *)
LEMMA SenderCalls ==
  ASSUME TypeInv, CallInv, NEW s \in Senders, NEW n \in Keys, Key(s) = n, SenderStep(s)
  PROVE  KeysFit' /\ CallersFit'
<1>1. OwnJob(s)
  BY SenderJob
<1>3. n \in Keys /\ KeyFits(n) /\ CallerFits(s)
  BY DEF CallInv, KeysFit, CallersFit
<1>4. Key(s) = n
  OBVIOUS
<1> DEFINE Still == UNCHANGED <<row, message, deliveries, callback>>
<1>5. ASSUME Still, job'[s].at \notin {"call", "persist", "mark", "clear"}
      PROVE  KeysFit' /\ CallersFit'
  <2>1. ~Calling(s)' /\ CallerFits(s)'
    BY <1>5 DEF Calling, CallerFits, At
  <2> QED BY <1>1, <1>5, <2>1, QuietStep
<1>6. ASSUME Still, AnswerFromRow(s)  PROVE KeysFit' /\ CallersFit'
  <2>1. ~Calling(s)' /\ CallerFits(s)'
    BY <1>6, AnswerAt DEF Calling, CallerFits, At, Key
  <2> QED BY <1>1, <1>6, <2>1, QuietStep
<1>7. CASE ClaimSend(s) \/ FindSent(s) \/ MarkSent(s) \/ Stamp(s) \/ Clear(s) \/ Release(s)
  <2>1. Still
    BY <1>7 DEF ClaimSend, FindSent, MarkSent, Stamp, Clear, Release, JobOnly, BookingOnly, OwedOnly
  <2>2. job'[s].at \in {"replay", "durable", "stamp", "look", "idle"}
    <3>1. CASE ClaimSend(s) \/ MarkSent(s) \/ Stamp(s)
      BY <3>1, GoAt DEF ClaimSend, MarkSent, Stamp
    <3>2. CASE FindSent(s)
      <4>1. CASE End(s)
        BY <4>1, EndAt
      <4>2. CASE ~End(s)
        <5>1. job' = [job EXCEPT ![s] = [@ EXCEPT !.at = "replay", !.recover = TRUE]]
          BY <3>2, <4>2 DEF FindSent
        <5> QED BY <5>1 DEF TypeInv, TypeOK
      <4> QED BY <4>1, <4>2
    <3>3. CASE Clear(s) \/ Release(s)
      BY <3>3, EndAt DEF Clear, Release
    <3> QED BY <1>7, <3>1, <3>2, <3>3
  <2> QED BY <1>5, <2>1, <2>2
<1>8a. CASE Refuse(s)
  <2>1. Still /\ job'[s].at \in {"release", "idle"}
    BY <1>8a, GiveUpAt DEF Refuse, JobOnly
  <2> QED BY <1>5, <2>1
<1>8. CASE Replay(s)
  <2>1. Still
    BY <1>8 DEF Replay, JobOnly
  <2>2. CASE Go(s, "gate")
    BY <1>5, <2>1, <2>2, GoAt
  <2> QED BY <1>6, <1>8, <2>1, <2>2 DEF Replay
<1>9. CASE Look(s)
  <2>1. Still
    BY <1>9 DEF Look, JobOnly
  <2>2. CASE Key(s) \in deliveries /\ Go(s, "clear")
    <3>1. ~Calling(s)' /\ CallerFits(s)'
      BY <2>1, <2>2, GoAt DEF Calling, CallerFits, At, Key
    <3> QED BY <1>1, <2>1, <3>1, QuietStep
  <2>3. CASE End(s)
    BY <1>5, <2>1, <2>3, EndAt
  <2> QED BY <1>9, <2>2, <2>3 DEF Look
<1>10. ASSUME NEW status, PutRow(n, status)
       PROVE  /\ row'[n].status = status /\ row'[n].id = row[n].id
              /\ \A k \in Keys \ {n} : row'[k] = row[k]
  BY <1>3, <1>10 DEF PutRow, TypeInv, TypeOK
<1>11. ASSUME row[n].status # "pending"
       PROVE  \A r \in Senders \ {s} : Calling(r) => Key(r) # n
  BY <1>11 DEF CallInv, CallersFit, CallerFits
<1>12. ASSUME Calling(s)
       PROVE  \A r \in Senders \ {s} : Calling(r) => Key(r) # n
  BY <1>4, <1>12 DEF CallInv, CallersFit, Alone
<1>13. CASE Gate(s)
  <2>1. CASE Go(s, "row") /\ UNCHANGED row
    BY <1>5, <1>13, <2>1, GoAt DEF Gate, RowOnly
  <2>2. CASE GiveUp(s) /\ UNCHANGED row
    BY <1>5, <1>13, <2>2, GiveUpAt DEF Gate, RowOnly
  <2>3. CASE GiveUp(s) /\ MayAudit(n) /\ PutRow(n, "blocked")
    <3>1. row[n].status # "pending" /\ ~row[n].id
      BY <2>3 DEF MayAudit
    <3>2. message[n].accepted = 0
      BY <1>3, <2>3 DEF MayAudit, KeyFits, TypeInv, TypeOK, Statuses
    <3>3. UNCHANGED <<message, deliveries, callback>>
      BY <1>13 DEF Gate, RowOnly
    <3>4. KeyFits(n)'
      BY <1>3, <1>10, <2>3, <3>1, <3>2, <3>3 DEF KeyFits
    <3>5. ~Calling(s)' /\ CallerFits(s)'
      BY <2>3, GiveUpAt DEF Calling, CallerFits, At
    <3> QED BY <1>1, <1>3, <1>4, <1>10, <1>11, <2>3, <3>1, <3>3, <3>4, <3>5, WritingStep
  <2> QED BY <1>4, <1>13, <2>1, <2>2, <2>3 DEF Gate
<1>14. ASSUME row[n].status \notin {"pending", "sent"}, ~row[n].id, PutRow(n, "pending"),
              Go(s, "call"), RowOnly
       PROVE  KeysFit' /\ CallersFit'
  <2>1. message[n].accepted = 0
    BY <1>3, <1>14 DEF KeyFits, TypeInv, TypeOK, Statuses
  <2>2. UNCHANGED <<message, deliveries, callback>>
    BY <1>14 DEF RowOnly
  <2>3. KeyFits(n)'
    BY <1>3, <1>10, <1>14, <2>1, <2>2 DEF KeyFits
  <2>4. job'[s].at = "call" /\ job'[s].key = n
    BY <1>4, <1>14, GoAt DEF Key
  <2>5. CallerFits(s)'
    BY <1>10, <1>14, <2>1, <2>2, <2>4 DEF CallerFits, Calling, At, Key
  <2> QED BY <1>1, <1>3, <1>4, <1>10, <1>11, <1>14, <2>2, <2>3, <2>4, <2>5, WritingStep DEF Key
<1>15. CASE ClaimRow(s)
  <2>1. CASE row[n].status = "absent"
    <3>1. ~row[n].id
      BY <1>3, <2>1 DEF KeyFits
    <3> QED BY <1>4, <1>14, <1>15, <2>1, <3>1 DEF ClaimRow
  <2>2. CASE row[n].status # "absent" /\ Go(s, "reclaim")
    BY <1>4, <1>5, <1>15, <2>2, GoAt DEF ClaimRow, RowOnly
  <2>3. CASE row[n].status # "absent" /\ AnswerFromRow(s)
    BY <1>4, <1>6, <1>15, <2>3 DEF ClaimRow, RowOnly
  <2> QED BY <1>4, <1>15, <2>1, <2>2, <2>3 DEF ClaimRow
<1>16. CASE Reclaim(s)
  <2>1. CASE Retryable(n)
    <3>1. row[n].status \notin {"pending", "sent"} /\ ~row[n].id
      BY <2>1 DEF Retryable
    <3> QED BY <1>4, <1>14, <1>16, <2>1, <3>1 DEF Reclaim
  <2>2. CASE ~Retryable(n)
    BY <1>4, <1>6, <1>16, <2>2 DEF Reclaim, RowOnly
  <2> QED BY <2>1, <2>2
<1>17. CASE CallProvider(s)
  <2>1. Calling(s) /\ row[n].status = "pending" /\ message[n].accepted = 0 /\ ~row[n].id
    BY <1>3, <1>4, <1>17 DEF CallProvider, Calling, At, CallerFits, KeyFits
  <2>2. UNCHANGED <<row, deliveries, callback>>
    BY <1>17 DEF CallProvider
  <2>3. UNCHANGED message \/ Accept(n)
    BY <1>4, <1>17 DEF CallProvider
  <2>4. Accept(n) => /\ message'[n].accepted = 1 /\ message'[n].accepted # 0
                     /\ message'[n].fate = "accepted"
                     /\ \A k \in Keys \ {n} : message'[k] = message[k]
    BY <1>3, <2>1 DEF Accept, TypeInv, TypeOK
  <2>5. KeyFits(n)'
    <3>1. CASE UNCHANGED message
      BY <1>3, <2>2, <3>1 DEF KeyFits
    <3>2. CASE Accept(n)
      <4>1. n \notin deliveries /\ callback[n] # "clear"
        BY <1>3, <2>1 DEF KeyFits
      <4> QED BY <2>1, <2>2, <2>4, <3>2, <4>1 DEF KeyFits
    <3> QED BY <2>3, <3>1, <3>2
  <2>6. CallerFits(s)' /\ (Calling(s)' => job'[s].key = job[s].key)
    <3>1. CASE GiveUp(s)
      BY <3>1, GiveUpAt DEF CallerFits, Calling, At
    <3>2. ASSUME NEW a \in {"id", "no id", "refused"}, Answered(s, a)
          PROVE  job'[s].at = "persist" /\ job'[s].answer = a /\ job'[s].key = n
      <4> DEFINE j == [job[s] EXCEPT !.at = "persist", !.answer = a]
      <4>1. job[s] \in Job /\ job \in [Senders -> Job]
        BY DEF TypeInv, TypeOK, Job
      <4>2. j.at = "persist" /\ j.answer = a /\ j.key = n
        BY <1>4, <4>1 DEF Job, Key
      <4>3. job' = [job EXCEPT ![s] = j]
        BY <3>2 DEF Answered
      <4> HIDE DEF j
      <4> QED BY <4>1, <4>2, <4>3
    <3>3. ASSUME NEW a \in {"id", "no id"}, Accept(n), Answered(s, a)
          PROVE  CallerFits(s)' /\ job'[s].key = job[s].key
      <4>1. job'[s].at = "persist" /\ job'[s].answer = a /\ job'[s].key = n
        BY <3>2, <3>3
      <4>2. row'[n].status = "pending" /\ message'[n].accepted # 0
        <5>1. row'[n] = row[n]
          BY <2>2
        <5>2. message'[n].accepted # 0
          BY <2>4, <3>3
        <5>3. row'[n].status = "pending"
          BY <2>1, <5>1, Zenon
        <5> QED BY <5>2, <5>3
      <4>3. a # "refused"
        BY <3>3
      <4>4. Key(s)' = n
        BY <4>1 DEF Key
      <4>5. CallerFits(s)'
        <5>1. row'[Key(s)'].status = "pending" /\ message'[Key(s)'].accepted # 0
          BY <4>2, <4>4
        <5>2. Calling(s)' => row'[Key(s)'].status = "pending"
          BY <5>1
        <5>3. ~At(s, "call")' /\ ~At(s, "mark")' /\ ~At(s, "clear")'
          BY <4>1 DEF At
        <5>4. job'[s].answer # "refused" /\ message'[Key(s)'].accepted # 0
          BY <4>1, <4>3, <5>1
        <5> QED BY <5>2, <5>3, <5>4 DEF CallerFits
      <4> QED BY <1>4, <4>1, <4>5 DEF Key
    <3>4. ASSUME Answered(s, "refused"), UNCHANGED message
          PROVE  CallerFits(s)' /\ job'[s].key = job[s].key
      BY <1>4, <2>1, <2>2, <3>2, <3>4 DEF CallerFits, Calling, At, Key
    <3> QED BY <1>4, <1>17, <3>1, <3>3, <3>4 DEF CallProvider
  <2>7. \A k \in Keys \ {n} : row'[k] = row[k] /\ message'[k] = message[k]
    BY <2>2, <2>3, <2>4
  <2> QED BY <1>1, <1>3, <1>4, <1>12, <2>1, <2>2, <2>5, <2>6, <2>7, WritingStep
<1>18. CASE Persist(s)
  <2>1. /\ Calling(s) /\ row[n].status = "pending" /\ ~row[n].id
        /\ job[s].answer = "refused" <=> message[n].accepted = 0
    BY <1>3, <1>4, <1>18 DEF Persist, Calling, At, CallerFits, KeyFits
  <2>2. UNCHANGED <<message, deliveries, callback>>
    BY <1>18 DEF Persist, RowOnly
  <2>3. CASE job[s].answer = "refused"
    <3>1. PutRow(n, "blocked") /\ GiveUp(s)
      BY <1>4, <1>18, <2>3 DEF Persist
    <3>2. KeyFits(n)'
      BY <1>3, <1>10, <2>1, <2>2, <2>3, <3>1 DEF KeyFits
    <3>3. ~Calling(s)' /\ CallerFits(s)'
      BY <3>1, GiveUpAt DEF CallerFits, Calling, At
    <3> QED BY <1>1, <1>3, <1>4, <1>10, <1>12, <2>1, <2>2, <3>1, <3>2, <3>3, WritingStep
  <2>4. CASE job[s].answer # "refused"
    <3>1. row' = [row EXCEPT ![n] = [status |-> "sent", id |-> job[s].answer = "id"]]
      BY <1>4, <1>18, <2>4 DEF Persist
    <3>2. /\ row'[n] = [status |-> "sent", id |-> job[s].answer = "id"]
          /\ \A k \in Keys \ {n} : row'[k] = row[k]
      BY <1>3, <3>1 DEF TypeInv, TypeOK
    <3>3. message[n].accepted > 0
      BY <1>3, <2>1, <2>4 DEF TypeInv, TypeOK
    <3>4. KeyFits(n)'
      BY <1>3, <2>2, <3>2, <3>3 DEF KeyFits
    <3>5. ~Calling(s)' /\ CallerFits(s)'
      <4>1. CASE job[s].answer = "id" /\ Go(s, "mark")
        <5>1. row'[n].id
          <6>1. row'[n].id = (job[s].answer = "id")
            BY <3>2
          <6> QED BY <4>1, <6>1, Zenon
        <5>2. job'[s].at = "mark" /\ job'[s].key = n
          BY <1>4, <4>1, GoAt DEF Key
        <5> QED BY <5>1, <5>2 DEF CallerFits, Calling, At, Key
      <4>2. CASE End(s)
        BY <4>2, EndAt DEF CallerFits, Calling, At
      <4> QED BY <1>18, <2>4, <4>1, <4>2 DEF Persist
    <3> QED BY <1>1, <1>3, <1>4, <1>12, <2>1, <2>2, <3>2, <3>4, <3>5, WritingStep
  <2> QED BY <2>3, <2>4
<1> QED
  BY <1>7, <1>8, <1>8a, <1>9, <1>13, <1>15, <1>16, <1>17, <1>18 DEF SenderStep

(* A step of no sender that finds no key and no caller worse off.            *)
LEMMA CalmStep ==
  ASSUME TypeInv, CallInv, UNCHANGED job, deliveries \subseteq deliveries',
         \A k \in Keys : KeyFits(k)',
         \A k \in Keys : /\ message'[k].accepted = message[k].accepted
                         /\ row'[k].id = row[k].id
                         /\ row[k].status = "pending" => row'[k].status = "pending"
  PROVE  KeysFit' /\ CallersFit'
<1>1. ASSUME NEW s \in Senders  PROVE CallerFits(s)'
  <2>1. CallerFits(s) /\ job'[s] = job[s]
    BY DEF CallInv, CallersFit
  <2>2. CASE At(s, "idle")
    BY <2>1, <2>2 DEF CallerFits, Calling, At
  <2>3. CASE ~At(s, "idle")
    <3>1. PICK n \in Keys : n = Key(s)
      BY <2>3, AtKey
    <3>2. Key(s)' = n
      BY <2>1, <3>1 DEF Key
    <3>3. /\ message'[n].accepted = message[n].accepted
          /\ row'[n].id = row[n].id
          /\ row[n].status = "pending" => row'[n].status = "pending"
      BY <3>1
    <3> QED BY <2>1, <3>1, <3>2, <3>3 DEF CallerFits, Calling, At
  <2> QED BY <2>2, <2>3
<1>2. ASSUME NEW s \in Senders, NEW r \in Senders  PROVE Alone(s, r)'
  BY DEF CallInv, CallersFit, Alone, Calling, Key
<1> QED BY <1>1, <1>2 DEF KeysFit, CallersFit

LEMMA StepCalls ==
  ASSUME TypeInv, CallInv, [Next]_vars
  PROVE  KeysFit' /\ CallersFit'
<1>1. ASSUME NEW s \in Autos, StartAuto(s)  PROVE KeysFit' /\ CallersFit'
  <2>1. s \in Senders /\ OwnJob(s) /\ job'[s].at = "claim"
    BY <1>1, StartAutoFits DEF Senders, StartAuto, TypeInv, TypeOK, Idle
  <2> QED BY <1>1, <2>1, QuietStep DEF StartAuto, JobOnly, Calling, CallerFits, At
<1>2. ASSUME NEW s \in Bots, NEW k \in Keys, StartBot(s, k)  PROVE KeysFit' /\ CallersFit'
  <2>1. s \in Senders /\ OwnJob(s) /\ job'[s].at = "replay"
    BY <1>2, StartBotFits DEF Senders, StartBot, TypeInv, TypeOK, Idle
  <2> QED BY <1>2, <2>1, QuietStep DEF StartBot, JobOnly, Calling, CallerFits, At
<1>3. ASSUME NEW s \in Senders, SenderStep(s)  PROVE KeysFit' /\ CallersFit'
  <2>1. ~At(s, "idle")
    BY <1>3 DEF SenderStep, ClaimSend, FindSent, Replay, Refuse, Gate, ClaimRow, Reclaim,
                CallProvider,
                Persist, MarkSent, Stamp, Look, Clear, Release, At
  <2>2. PICK n \in Keys : Key(s) = n
    BY <2>1, AtKey
  <2> QED BY <1>3, <2>2, SenderCalls
<1>4. ASSUME NEW s \in Senders, Die(s) \/ Fail(s)  PROVE KeysFit' /\ CallersFit'
  <2>1. OwnJob(s)
    BY <1>4, LossFits
  <2>2. job'[s].at \in {"idle", "release"}
    BY <1>4, EndAt, GiveUpAt DEF Die, Fail
  <2> QED BY <1>4, <2>1, <2>2, QuietStep DEF Die, Fail, Calling, CallerFits, At
<1>5. ASSUME NEW k \in Keys, StoreDelivery(k)  PROVE KeysFit' /\ CallersFit'
  <2>1. /\ message'[k] = [message[k] EXCEPT !.fate = "delivered"]
        /\ \A n \in Keys \ {k} : message'[n] = message[n] /\ callback'[n] = callback[n]
        /\ deliveries' = deliveries \cup {k} /\ UNCHANGED <<row, job>>
    BY <1>5 DEF StoreDelivery, TypeInv, TypeOK
  <2>2. message'[k].accepted = message[k].accepted /\ message'[k].fate = "delivered"
    BY <2>1 DEF TypeInv, TypeOK
  <2>3. KeyFits(k)'
    <3>1. KeyFits(k) /\ message[k].fate # "none"
      BY <1>5 DEF CallInv, KeysFit, StoreDelivery
    <3> QED BY <2>1, <2>2, <3>1 DEF KeyFits
  <2>4. ASSUME NEW n \in Keys \ {k}  PROVE KeyFits(n)'
    BY <2>1 DEF CallInv, KeysFit, KeyFits
  <2>5. \A n \in Keys : message'[n].accepted = message[n].accepted
    BY <2>1, <2>2
  <2> QED BY <2>1, <2>3, <2>4, <2>5, CalmStep
<1>6. ASSUME NEW k \in Keys, ClearDelivered(k) \/ LoseCallback(k)  PROVE KeysFit' /\ CallersFit'
  <2>1. UNCHANGED <<row, message, deliveries, job>> /\ \A n \in Keys : callback'[n] = "clear" => callback[n] = "clear"
    BY <1>6 DEF ClearDelivered, LoseCallback, TypeInv, TypeOK
  <2>2. ASSUME NEW n \in Keys  PROVE KeyFits(n)'
    BY <2>1 DEF CallInv, KeysFit, KeyFits
  <2> QED BY <2>1, <2>2, CalmStep
<1>7. ASSUME NEW k \in Keys, ReportFailed(k)  PROVE KeysFit' /\ CallersFit'
  <2>1. /\ message'[k] = [message[k] EXCEPT !.fate = "failed"]
        /\ \A n \in Keys \ {k} : message'[n] = message[n] /\ row'[n] = row[n]
        /\ UNCHANGED <<deliveries, callback, job>>
    BY <1>7 DEF ReportFailed, PutRow, TypeInv, TypeOK
  <2>2. message'[k].accepted = message[k].accepted /\ message'[k].fate = "failed"
    BY <2>1 DEF TypeInv, TypeOK
  <2>3. KeyFits(k) /\ message[k].fate = "accepted"
    BY <1>7 DEF CallInv, KeysFit, ReportFailed
  <2>4. /\ row'[k].id = row[k].id
        /\ \/ row[k].id /\ row'[k].status = "failed"
           \/ row'[k] = row[k]
    <3>1. CASE UNCHANGED row
      BY <3>1
    <3>2. CASE row[k].id /\ PutRow(k, "failed")
      BY <3>2 DEF PutRow, TypeInv, TypeOK
    <3> QED BY <1>7, <3>1, <3>2 DEF ReportFailed
  <2>5. KeyFits(k)'
    BY <2>1, <2>2, <2>3, <2>4 DEF KeyFits
  <2>6. ASSUME NEW n \in Keys \ {k}  PROVE KeyFits(n)'
    BY <2>1 DEF CallInv, KeysFit, KeyFits
  <2>7. \A n \in Keys : /\ message'[n].accepted = message[n].accepted
                        /\ row'[n].id = row[n].id
                        /\ row[n].status = "pending" => row'[n].status = "pending"
    BY <2>1, <2>2, <2>3, <2>4 DEF KeyFits
  <2> QED BY <2>1, <2>5, <2>6, <2>7, CalmStep
<1>8. CASE UNCHANGED vars
  BY <1>8, CalmStep DEF vars, CallInv, KeysFit, KeyFits
<1> QED
  BY <1>1, <1>2, <1>3, <1>4, <1>5, <1>6, <1>7, <1>8 DEF Next, Callback

(* What has an id keeps it, and what was taken stays taken.                  *)
LEMMA StepKeeps ==
  ASSUME TypeInv, CallInv, [Next]_vars, NEW k \in Keys
  PROVE  /\ row[k].id => row'[k].id
         /\ message'[k].accepted >= message[k].accepted
         /\ message[k].fate = "delivered" => message'[k].fate = "delivered"
<1> USE DEF TypeInv, TypeOK
<1>1. ASSUME NEW n \in Keys, NEW status, PutRow(n, status)  PROVE row'[k].id = row[k].id
  BY <1>1 DEF PutRow
<1> DEFINE Kept == /\ row[k].id => row'[k].id
                   /\ message'[k].accepted >= message[k].accepted
                   /\ message[k].fate = "delivered" => message'[k].fate = "delivered"
<1>2. ASSUME UNCHANGED <<row, message>>  PROVE Kept
  BY <1>2
<1>3. ASSUME NEW s \in Senders, NEW n \in Keys, Key(s) = n, SenderStep(s)  PROVE Kept
  <2>1. KeyFits(n) /\ CallerFits(s)
    BY DEF CallInv, KeysFit, CallersFit
  <2>2. CASE \/ ClaimSend(s) \/ FindSent(s) \/ Replay(s) \/ Refuse(s) \/ MarkSent(s) \/ Stamp(s)
             \/ Look(s) \/ Clear(s) \/ Release(s)
    BY <1>2, <2>2 DEF ClaimSend, FindSent, Replay, Refuse, MarkSent, Stamp, Look, Clear, Release,
                      JobOnly, BookingOnly, OwedOnly
  <2>3. CASE Gate(s) \/ ClaimRow(s) \/ Reclaim(s)
    <3>1. UNCHANGED message /\ (UNCHANGED row \/ \E status : PutRow(n, status))
      <4>1. \/ PutRow(n, "blocked") \/ PutRow(n, "pending") \/ UNCHANGED row
        BY <1>3, <2>3 DEF Gate, ClaimRow, Reclaim
      <4> QED BY <2>3, <4>1 DEF Gate, ClaimRow, Reclaim, RowOnly
    <3>2. row'[k].id = row[k].id
      BY <1>1, <3>1
    <3> QED BY <3>1, <3>2
  <2>4. CASE CallProvider(s)
    <3>1. message[n].accepted = 0 /\ message[n].fate # "delivered" /\ UNCHANGED row
      <4>1. At(s, "call") /\ UNCHANGED row
        BY <2>4 DEF CallProvider
      <4>2. message[n].accepted = 0
        BY <1>3, <2>1, <4>1 DEF CallerFits
      <4> QED BY <2>1, <4>1, <4>2 DEF KeyFits
    <3>2. UNCHANGED message \/ Accept(n)
      BY <1>3, <2>4 DEF CallProvider
    <3>3. CASE Accept(n)
      <4>1. CASE k = n
        <5>1. message'[k] = [accepted |-> message[n].accepted + 1, fate |-> "accepted"]
          BY <3>3, <4>1 DEF Accept
        <5> QED BY <3>1, <4>1, <5>1
      <4>2. CASE k # n
        BY <3>1, <3>3, <4>2 DEF Accept
      <4> QED BY <4>1, <4>2
    <3> QED BY <1>2, <3>1, <3>2, <3>3
  <2>5. CASE Persist(s)
    <3>1. ~row[n].id /\ UNCHANGED message
      BY <1>3, <2>1, <2>5 DEF Persist, RowOnly, At, CallerFits, Calling, KeyFits
    <3>2. \/ PutRow(n, "blocked")
          \/ row' = [row EXCEPT ![n] = [status |-> "sent", id |-> job[s].answer = "id"]]
      BY <1>3, <2>5 DEF Persist
    <3>3. row[k].id => row'[k].id
      <4>1. CASE k = n
        BY <3>1, <4>1
      <4>2. CASE k # n
        BY <3>2, <4>2 DEF PutRow
      <4> QED BY <4>1, <4>2
    <3> QED BY <3>1, <3>3
  <2> QED BY <1>3, <2>2, <2>3, <2>4, <2>5 DEF SenderStep
<1>4. ASSUME NEW s \in Senders, SenderStep(s)  PROVE Kept
  <2>1. ~At(s, "idle")
    BY <1>4 DEF SenderStep, ClaimSend, FindSent, Replay, Refuse, Gate, ClaimRow, Reclaim,
                CallProvider,
                Persist, MarkSent, Stamp, Look, Clear, Release, At
  <2> QED BY <1>3, <1>4, <2>1, AtKey
<1>5. ASSUME NEW s \in Senders, Die(s) \/ Fail(s) PROVE Kept
  BY <1>2, <1>5 DEF Die, Fail
<1>6. ASSUME NEW n \in Keys, StoreDelivery(n)  PROVE Kept
  BY <1>6 DEF StoreDelivery
<1>7. ASSUME NEW n \in Keys, ClearDelivered(n) \/ LoseCallback(n)  PROVE Kept
  BY <1>2, <1>7 DEF ClearDelivered, LoseCallback
<1>8. ASSUME NEW n \in Keys, ReportFailed(n)  PROVE Kept
  <2>1. row'[k].id = row[k].id
    BY <1>1, <1>8 DEF ReportFailed
  <2>2. message' = [message EXCEPT ![n].fate = "failed"] /\ message[n].fate = "accepted"
    BY <1>8 DEF ReportFailed
  <2> QED BY <2>1, <2>2
<1>9. CASE (\E s \in Autos : StartAuto(s)) \/ (\E s \in Bots, n \in Keys : StartBot(s, n))
  BY <1>2, <1>9 DEF StartAuto, StartBot, JobOnly
<1>10. CASE UNCHANGED vars
  BY <1>2, <1>10 DEF vars
<1> QED
  BY <1>4, <1>5, <1>6, <1>7, <1>8, <1>9, <1>10 DEF Next, Callback

LEMMA SentHolds ==
  ASSUME TypeInv, CallInv, [Next]_vars
  PROVE  SentIsAccepted'
<1>1. CASE \E s \in Senders : MarkSent(s)
  <2>1. PICK s \in Senders : MarkSent(s)
    BY <1>1
  <2>2. PICK n \in Keys : Key(s) = n
    BY <2>1, AtKey DEF MarkSent, At
  <2>3. row[n].id /\ KeyFits(n)
    BY <2>1, <2>2 DEF MarkSent, CallInv, CallersFit, CallerFits, KeysFit
  <2>4. row'[n].id /\ message'[n].accepted > 0
    BY <2>1, <2>3 DEF MarkSent, BookingOnly, KeyFits
  <2> QED BY <2>4 DEF SentIsAccepted
<1>2. CASE ~\E s \in Senders : MarkSent(s)
  <2>1. booking'.sent => booking.sent
    BY <1>2 DEF Next, StartAuto, StartBot, SenderStep, Die, Fail, Callback, ReportFailed,
                LoseCallback, StoreDelivery, ClearDelivered, ClaimSend, FindSent, Replay, Refuse,
                Gate,
                ClaimRow, Reclaim, CallProvider, Persist, Stamp, Look, Clear, Release, JobOnly,
                BookingOnly, RowOnly, OwedOnly, vars, TypeInv, TypeOK
  <2>2. CASE booking.sent
    <3>1. PICK n \in Keys : row[n].id /\ message[n].accepted > 0
      BY <2>2 DEF CallInv, SentIsAccepted
    <3>2. message[n].accepted \in Nat /\ message'[n].accepted \in Nat
      BY StepTables DEF TypeInv, TypeOK, Tables
    <3>3. row'[n].id /\ message'[n].accepted > 0
      BY <3>1, <3>2, StepKeeps
    <3> QED BY <3>3 DEF SentIsAccepted
  <2> QED BY <2>1, <2>2 DEF SentIsAccepted
<1> QED BY <1>1, <1>2

LEMMA ClearedHolds ==
  ASSUME TypeInv, CallInv, [Next]_vars
  PROVE  ClearedIsDelivered'
<1> DEFINE Clearing(n) == ClearOwed(n) /\ message[n].fate = "delivered"
<1>1. \/ UNCHANGED owed
      \/ owed.cleared = FALSE /\ owed'.cleared = FALSE
      \/ owed.cleared /\ owed' = owed
      \/ \E n \in Keys : Clearing(n)
  <2>1. ASSUME NEW s \in Senders, Stamp(s)
        PROVE  \/ owed.cleared = FALSE /\ owed'.cleared = FALSE
               \/ owed.cleared /\ owed' = owed
    BY <2>1 DEF Stamp, TypeInv, TypeOK
  <2>2. ASSUME NEW s \in Senders, Clear(s)  PROVE \E n \in Keys : Clearing(n)
    <3>1. PICK n \in Keys : Key(s) = n
      BY <2>2, AtKey DEF Clear, At
    <3>2. n \in deliveries /\ KeyFits(n)
      BY <2>2, <3>1 DEF Clear, CallInv, CallersFit, CallerFits, KeysFit
    <3> QED BY <2>2, <3>1, <3>2 DEF Clear, KeyFits
  <2>3. ASSUME NEW k \in Keys, ClearDelivered(k)  PROVE \E n \in Keys : Clearing(n)
    BY <2>3 DEF ClearDelivered, CallInv, KeysFit, KeyFits
  <2>4. CASE /\ ~\E s \in Senders : Stamp(s) \/ Clear(s)
             /\ ~\E k \in Keys : ClearDelivered(k)
    BY <2>4 DEF Next, StartAuto, StartBot, SenderStep, Die, Fail, Callback, ReportFailed,
                LoseCallback, StoreDelivery, ClaimSend, FindSent, Replay, Refuse, Gate,
                ClaimRow, Reclaim, CallProvider, Persist, MarkSent, Look, Release, JobOnly,
                BookingOnly, RowOnly, vars
  <2> QED BY <2>1, <2>2, <2>3, <2>4
<1>2. ASSUME NEW n \in Keys, Clearing(n), ~UNCHANGED owed
      PROVE  owed' = [owed EXCEPT !.cleared = TRUE] /\ owed.id = n
  BY <1>2 DEF ClearOwed
<1>3. CASE UNCHANGED owed \/ (owed.cleared /\ owed' = owed)
  BY <1>3, StepKeeps DEF CallInv, ClearedIsDelivered
<1>4. CASE owed'.cleared = FALSE
  BY <1>4 DEF ClearedIsDelivered
<1>5. CASE ~UNCHANGED owed /\ \E n \in Keys : Clearing(n)
  <2>1. PICK n \in Keys : Clearing(n)
    BY <1>5
  <2>2. owed'.id = n
    BY <1>2, <1>5, <2>1 DEF TypeInv, TypeOK
  <2>3. message'[n].fate = "delivered"
    BY <2>1, StepKeeps
  <2> QED BY <2>2, <2>3 DEF ClearedIsDelivered
<1> QED BY <1>1, <1>3, <1>4, <1>5

LEMMA CallsHold == Spec => [](TypeInv /\ CallInv)
<1>1. Init => CallInv
  <2>1. ASSUME Init  PROVE KeysFit
    BY <2>1 DEF Init, KeysFit, KeyFits
  <2>2. ASSUME Init  PROVE CallersFit
    BY <2>2 DEF Init, Idle, CallersFit, CallerFits, Alone, Calling, At
  <2>3. ASSUME Init  PROVE SentIsAccepted /\ ClearedIsDelivered
    BY <2>3 DEF Init, SentIsAccepted, ClearedIsDelivered
  <2> QED BY <2>1, <2>2, <2>3 DEF CallInv
<1>2. TypeInv /\ CallInv /\ [Next]_vars => CallInv'
  BY StepCalls, SentHolds, ClearedHolds DEF CallInv
<1> QED BY <1>1, <1>2, TypesHold, PTL DEF Spec

(* WhatsApp takes at most one message under a key: whoever calls it has put  *)
(* the row to pending, a row goes back only if nothing was taken, and one    *)
(* whose message was taken is never claimed again.                           *)
THEOREM ConfirmationOnePerKey == Spec => []OnePerKey
<1>1. TypeInv /\ CallInv => OnePerKey
  BY DEF CallInv, KeysFit, KeyFits, OnePerKey
<1> QED BY <1>1, CallsHold, PTL

(* A booking recorded as confirmed has a message that WhatsApp took and      *)
(* identified, whoever recorded it.                                          *)
THEOREM ConfirmationSentIsAccepted == Spec => []SentIsAccepted
<1>1. TypeInv /\ CallInv => SentIsAccepted
  BY DEF CallInv
<1> QED BY <1>1, CallsHold, PTL

(* A confirmation that is no longer owed was delivered to the guest's phone, *)
(* in whatever order the answer to the call and the delivery are written.    *)
THEOREM ConfirmationClearedIsDelivered == Spec => []ClearedIsDelivered
<1>1. TypeInv /\ CallInv => ClearedIsDelivered
  BY DEF CallInv
<1> QED BY <1>1, CallsHold, PTL

(* The id of a message that was taken stays in its row.                      *)
THEOREM ConfirmationAcceptedIsKept == Spec => AcceptedIsKept
<1> DEFINE Keeps == \A k \in Keys : row[k].id => row'[k].id /\ row'[k].status \in {"sent", "failed"}
<1>1. ASSUME TypeInv, CallInv, [Next]_vars  PROVE Keeps
  <2>1. ASSUME NEW k \in Keys, row[k].id
        PROVE  row'[k].id /\ row'[k].status \in {"sent", "failed"}
    <3>1. row'[k].id
      BY <1>1, <2>1, StepKeeps
    <3>2. KeyFits(k)'
      BY <1>1, StepCalls DEF KeysFit
    <3> QED BY <3>1, <3>2 DEF KeyFits
  <2> QED BY <2>1
<1>2. TypeInv /\ CallInv /\ [Next]_vars => [Keeps]_vars
  BY <1>1
<1> QED BY <1>2, CallsHold, PTL DEF Spec, AcceptedIsKept

-----------------------------------------------------------------------------
(* The claim on the booking.                                                 *)

(* An automatic sender works under the booking's key, and what is owed is    *)
(* stamped after the booking says sent.                                      *)
HolderFits(s) ==
  /\ s \in Autos /\ ~At(s, "idle") => job[s].key = BookingKey
  /\ job[s].at \in {"stamp", "look", "clear"} => booking.sent

HoldInv == (\A s \in Senders : HolderFits(s)) /\ ClaimIsExclusive /\ HeldIsUnsettled

Unsaid == [status |-> "sent", id |-> FALSE]

(* How a sender's step moves it: its key stays, only a granted claim makes it*)
(* a holder, and it stops being one by giving the claim back, when all is    *)
(* recorded, or because the row will not say which message it was.           *)
Moves(s, n) ==
  /\ job'[s].at # "idle" => job'[s].key = job[s].key
  /\ Holds(s)' => Holds(s) \/ (ClaimSend(s) /\ MayClaim)
  /\ job'[s].at \in {"stamp", "look", "clear"} =>
       MarkSent(s) \/ job[s].at \in {"stamp", "look"}
  /\ s \in Autos /\ Holds(s) =>
       Holds(s)' \/ Release(s) \/ job[s].at \in {"look", "clear"} \/ row'[n] = Unsaid

LEMMA GiveUpMoves ==
  ASSUME TypeInv, NEW s \in Senders, NEW n, GiveUp(s), job[s].at \in Working
  PROVE  Moves(s, n)
<1>1. CASE s \in Autos /\ ~job[s].recover
  BY <1>1, GoAt DEF GiveUp, Moves, Holds, Working
<1>2. CASE ~(s \in Autos /\ ~job[s].recover)
  BY <1>2, EndAt DEF GiveUp, Moves, Holds, Working
<1> QED BY <1>1, <1>2

LEMMA AnswerMoves ==
  ASSUME TypeInv, NEW s \in Senders, NEW n \in Keys, Key(s) = n, AnswerFromRow(s), UNCHANGED row,
         job[s].at \in Working
  PROVE  Moves(s, n)
<1>1. CASE row[n].status = "sent" /\ row[n].id
  BY <1>1, GoAt DEF AnswerFromRow, Moves, Holds, Working
<1>2. CASE row[n].status = "sent" /\ ~row[n].id
  <2>1. row'[n] = Unsaid
    BY <1>2 DEF Unsaid, TypeInv, TypeOK
  <2> QED BY <1>2, <2>1, EndAt DEF AnswerFromRow, Moves, Holds, Working
<1>3. CASE row[n].status # "sent"
  BY <1>3, GiveUpMoves DEF AnswerFromRow
<1> QED BY <1>1, <1>2, <1>3

LEMMA SenderMoves ==
  ASSUME TypeInv, NEW s \in Senders, NEW n \in Keys, Key(s) = n, SenderStep(s)
  PROVE  Moves(s, n)
<1>1. CASE ClaimSend(s)
  BY <1>1, GoAt DEF ClaimSend, Moves, Holds, At, Working
<1>2. CASE FindSent(s)
  <2>1. CASE End(s)
    BY <1>2, <2>1, EndAt DEF FindSent, Moves, Holds, At, Working
  <2>2. CASE ~End(s)
    <3> DEFINE j == [job[s] EXCEPT !.at = "replay", !.recover = TRUE]
    <3>1. j.at = "replay" /\ j.recover /\ j.key = job[s].key
      BY DEF TypeInv, TypeOK
    <3>2. job' = [job EXCEPT ![s] = j]
      BY <1>2, <2>2 DEF FindSent
    <3> HIDE DEF j
    <3>3. job'[s] = j
      BY <3>2 DEF TypeInv, TypeOK
    <3> QED BY <1>2, <3>1, <3>3 DEF FindSent, Moves, Holds, At, Working
  <2> QED BY <2>1, <2>2
<1>3. ASSUME AnswerFromRow(s), UNCHANGED row, job[s].at \in Working  PROVE Moves(s, n)
  BY <1>3, AnswerMoves
<1>4. ASSUME NEW step \in {"gate", "row", "reclaim", "call"}, Go(s, step), job[s].at \in Working
      PROVE  Moves(s, n)
  BY <1>4, GoAt DEF Moves, Holds, Working
<1>5. CASE Replay(s)
  BY <1>3, <1>4, <1>5 DEF Replay, At, Working, JobOnly
<1>5a. CASE Refuse(s)
  BY <1>5a, GiveUpMoves DEF Refuse, At, Working
<1>6. CASE Gate(s)
  BY <1>4, <1>6, GiveUpMoves DEF Gate, At, Working
<1>7. CASE ClaimRow(s)
  BY <1>3, <1>4, <1>7 DEF ClaimRow, At, Working
<1>8. CASE Reclaim(s)
  BY <1>3, <1>4, <1>8 DEF Reclaim, At, Working
<1>9. CASE CallProvider(s)
  <2>1. job[s].at \in Working
    BY <1>9 DEF CallProvider, At, Working
  <2>2. CASE GiveUp(s)
    BY <2>1, <2>2, GiveUpMoves
  <2>3. CASE ~GiveUp(s)
    <3>1. PICK a \in {"id", "no id", "refused"} : Answered(s, a)
      BY <1>9, <2>3 DEF CallProvider
    <3> DEFINE j == [job[s] EXCEPT !.at = "persist", !.answer = a]
    <3>2. j.at = "persist" /\ j.recover = job[s].recover /\ j.key = job[s].key
      <4>1. job[s] \in Job
        BY <2>1, AtWork DEF At, Working
      <4> QED BY <4>1 DEF Job
    <3>3. job' = [job EXCEPT ![s] = j]
      BY <3>1 DEF Answered
    <3> HIDE DEF j
    <3>4. job'[s] = j
      BY <3>3 DEF TypeInv, TypeOK
    <3> QED BY <2>1, <3>2, <3>4 DEF Moves, Holds, Working
  <2> QED BY <2>2, <2>3
<1>10. CASE Persist(s)
  <2>1. job[s].at = "persist"
    BY <1>10 DEF Persist, At
  <2>2. CASE job[s].answer = "refused"
    BY <1>10, <2>1, <2>2, GiveUpMoves DEF Persist, Working
  <2>3. CASE job[s].answer = "id"
    BY <1>10, <2>1, <2>3, GoAt DEF Persist, Moves, Holds, Working
  <2>4. CASE job[s].answer \notin {"refused", "id"}
    <3>1. row' = [row EXCEPT ![n] = [status |-> "sent", id |-> job[s].answer = "id"]] /\ End(s)
      BY <1>10, <2>4 DEF Persist
    <3>2. row'[n] = [status |-> "sent", id |-> job[s].answer = "id"]
      BY <3>1 DEF TypeInv, TypeOK
    <3>3. row'[n] = Unsaid
      <4>1. (job[s].answer = "id") = FALSE
        BY <2>4
      <4> QED BY <3>2, <4>1, Zenon DEF Unsaid
    <3> QED BY <2>1, <3>1, <3>3, EndAt DEF Moves, Holds, Working
  <2> QED BY <2>2, <2>3, <2>4
<1>11. CASE MarkSent(s)
  BY <1>11, GoAt DEF MarkSent, Moves, Holds, At, Working
<1>12. CASE Stamp(s)
  BY <1>12, GoAt DEF Stamp, Moves, Holds, At, Working
<1>13. CASE Look(s)
  BY <1>13, GoAt, EndAt DEF Look, Moves, Holds, At, Working
<1>14. CASE Clear(s) \/ Release(s)
  BY <1>14, EndAt DEF Clear, Release, Moves, Holds, At, Working
<1> QED
  BY <1>1, <1>2, <1>5, <1>5a, <1>6, <1>7, <1>8, <1>9, <1>10, <1>11, <1>12, <1>13, <1>14
  DEF SenderStep

(* What a sender does to the booking: it takes the claim, gives it back, or  *)
(* leaves it; and never unsends it.                                          *)
LEMMA SenderBooking ==
  ASSUME TypeInv, NEW s \in Senders, SenderStep(s)
  PROVE  /\ booking.sent => booking'.sent
         /\ \/ booking'.claim = booking.claim /\ ~(ClaimSend(s) /\ MayClaim)
            \/ ClaimSend(s) /\ MayClaim /\ booking'.claim = "in_flight"
            \/ Release(s)
<1>1. CASE ClaimSend(s)
  BY <1>1 DEF ClaimSend, TypeInv, TypeOK
<1>2. CASE Release(s)
  BY <1>2 DEF Release
<1>3. CASE MarkSent(s)
  BY <1>3 DEF MarkSent, ClaimSend, At, TypeInv, TypeOK
<1>4. CASE ~ClaimSend(s) /\ ~Release(s) /\ ~MarkSent(s)
  <2>1. UNCHANGED booking
    BY <1>4 DEF SenderStep, FindSent, Replay, Refuse, Gate, ClaimRow, Reclaim, CallProvider,
                Persist,
                Stamp, Look, Clear, JobOnly, RowOnly, OwedOnly
  <2> QED BY <1>4, <2>1
<1> QED BY <1>1, <1>2, <1>3, <1>4

(* A row whose message WhatsApp did not name stays as it is.                 *)
LEMMA UnsaidStays ==
  ASSUME TypeInv, CallInv, [Next]_vars, NEW k \in Keys, row[k] = Unsaid
  PROVE  row'[k] = Unsaid
<1>1. row[k].status = "sent" /\ ~row[k].id
  BY DEF Unsaid
<1>2. ASSUME NEW n \in Keys, n # k, NEW r, row' = [row EXCEPT ![n] = r]  PROVE row'[k] = row[k]
  BY <1>2
<1>3. ASSUME NEW s \in Senders, NEW n \in Keys, Key(s) = n, SenderStep(s)  PROVE row'[k] = row[k]
  <2>1. CASE UNCHANGED row
    BY <2>1
  <2>2. CASE n # k /\ \E r : row' = [row EXCEPT ![n] = r]
    BY <1>2, <2>2
  <2>3. CallerFits(s)
    BY DEF CallInv, CallersFit
  <2>4. CASE Gate(s)
    BY <1>1, <1>3, <2>1, <2>2, <2>4 DEF Gate, PutRow, MayAudit
  <2>5. CASE ClaimRow(s)
    BY <1>1, <1>3, <2>1, <2>2, <2>5 DEF ClaimRow, PutRow
  <2>6. CASE Reclaim(s)
    BY <1>1, <1>3, <2>1, <2>2, <2>6 DEF Reclaim, PutRow, Retryable
  <2>7. CASE Persist(s)
    <3>1. n # k
      BY <1>1, <1>3, <2>3, <2>7 DEF Persist, CallerFits, Calling, At
    <3> QED BY <1>3, <2>2, <2>7, <3>1 DEF Persist, PutRow
  <2> QED
    BY <1>3, <2>1, <2>4, <2>5, <2>6, <2>7
    DEF SenderStep, ClaimSend, FindSent, Replay, Refuse, CallProvider, MarkSent, Stamp, Look, Clear,
        Release, JobOnly, BookingOnly, OwedOnly
<1>4. ASSUME NEW s \in Senders, SenderStep(s)  PROVE row'[k] = row[k]
  <2>1. ~At(s, "idle")
    BY <1>4 DEF SenderStep, ClaimSend, FindSent, Replay, Refuse, Gate, ClaimRow, Reclaim,
                CallProvider,
                Persist, MarkSent, Stamp, Look, Clear, Release, At
  <2> QED BY <1>3, <1>4, <2>1, AtKey
<1>5. ASSUME NEW n \in Keys, ReportFailed(n)  PROVE row'[k] = row[k]
  BY <1>1, <1>2, <1>5 DEF ReportFailed, PutRow
<1> QED
  BY <1>4, <1>5 DEF Next, StartAuto, StartBot, Die, Fail, Callback, LoseCallback, StoreDelivery,
                    ClearDelivered, JobOnly, vars

(* A step that leaves the claim as it is, of a sender that does not take it. *)
LEMMA PlainHold ==
  ASSUME TypeInv, CallInv, HoldInv, [Next]_vars, NEW s \in Senders,
         booking'.claim = booking.claim, booking.sent => booking'.sent,
         losses' = 0 => losses = 0,
         \A r \in Senders : r # s => job'[r] = job[r],
         HolderFits(s)',
         s \in Autos /\ Holds(s)' => Holds(s),
         s \in Autos /\ Holds(s) /\ losses' = 0 =>
           Holds(s)' \/ booking.sent \/ row'[BookingKey] = Unsaid
  PROVE  HoldInv'
<1>1. ASSUME NEW r \in Senders  PROVE HolderFits(r)'
  BY DEF HoldInv, HolderFits, At
<1>2. \A r \in Senders : r # s => Holds(r)' = Holds(r)
  BY DEF Holds
<1>3. ClaimIsExclusive'
  <2>1. \A r \in Autos : Holds(r)' => Holds(r)
    BY <1>2 DEF Senders
  <2> QED BY <2>1 DEF HoldInv, ClaimIsExclusive
<1>4. HeldIsUnsettled'
  <2> SUFFICES ASSUME booking'.claim = "in_flight", ~booking'.sent, losses' = 0
               PROVE  (\E r \in Autos : Holds(r)') \/ row'[BookingKey] = Unsaid
    BY DEF HeldIsUnsettled, Unsaid
  <2>1. (\E r \in Autos : Holds(r)) \/ row[BookingKey] = Unsaid
    BY DEF HoldInv, HeldIsUnsettled, Unsaid
  <2>2. CASE row[BookingKey] = Unsaid
    BY <2>2, UnsaidStays, ConfirmationAssumption
  <2>3. ASSUME NEW r \in Autos, Holds(r)
        PROVE  (\E q \in Autos : Holds(q)') \/ row'[BookingKey] = Unsaid
    <3>1. CASE r = s
      BY <2>3, <3>1
    <3>2. CASE r # s
      BY <1>2, <2>3, <3>2 DEF Senders
    <3> QED BY <3>1, <3>2
  <2> QED BY <2>1, <2>2, <2>3
<1> QED BY <1>1, <1>3, <1>4 DEF HoldInv

LEMMA SenderHold ==
  ASSUME TypeInv, CallInv, HoldInv, [Next]_vars, NEW s \in Senders, SenderStep(s)
  PROVE  HoldInv'
<1>1. ~At(s, "idle") /\ UNCHANGED losses
  BY DEF SenderStep, ClaimSend, FindSent, Replay, Refuse, Gate, ClaimRow, Reclaim, CallProvider,
         Persist,
         MarkSent, Stamp, Look, Clear, Release, At, JobOnly, BookingOnly, RowOnly, OwedOnly
<1>2. PICK n \in Keys : Key(s) = n
  BY <1>1, AtKey
<1>3. Moves(s, n) /\ OwnJob(s)
  BY <1>2, SenderMoves, SenderJob
<1>4. HolderFits(s) /\ (s \in Autos => n = BookingKey)
  BY <1>1, <1>2 DEF HoldInv, HolderFits, Key
<1>5. booking.sent => booking'.sent
  BY SenderBooking
<1>6. HolderFits(s)'
  <2>1. MarkSent(s) => booking'.sent
    BY DEF MarkSent, TypeInv, TypeOK
  <2> QED BY <1>1, <1>3, <1>4, <1>5, <2>1 DEF HolderFits, Moves, At
<1>7. \A r \in Senders : r # s => job'[r] = job[r] /\ HolderFits(r)' /\ Holds(r)' = Holds(r)
  BY <1>3, <1>5 DEF HoldInv, HolderFits, OwnJob, Holds, At
<1>8. CASE booking'.claim = booking.claim /\ ~(ClaimSend(s) /\ MayClaim) /\ ~Release(s)
  <2>1. s \in Autos /\ Holds(s)' => Holds(s)
    BY <1>3, <1>8 DEF Moves
  <2>2. s \in Autos /\ Holds(s) => Holds(s)' \/ booking.sent \/ row'[BookingKey] = Unsaid
    BY <1>3, <1>4, <1>8 DEF Moves, HolderFits
  <2> QED BY <1>1, <1>5, <1>6, <1>7, <1>8, <2>1, <2>2, PlainHold
<1>9. CASE ClaimSend(s) /\ MayClaim /\ booking'.claim = "in_flight"
  <2>1. \A r \in Autos : ~Holds(r)
    BY <1>9 DEF MayClaim, HoldInv, ClaimIsExclusive
  <2>2. s \in Autos /\ ~job[s].recover /\ Go(s, "replay")
    BY <1>9 DEF ClaimSend, TypeInv, JobsFit, JobFits, At
  <2>3. Holds(s)'
    BY <2>2, GoAt DEF Holds, Working
  <2>4. ClaimIsExclusive'
    BY <1>7, <1>9, <2>1 DEF ClaimIsExclusive, Senders
  <2>5. HeldIsUnsettled'
    BY <2>2, <2>3 DEF HeldIsUnsettled
  <2> QED BY <1>6, <1>7, <2>4, <2>5 DEF HoldInv
<1>10. CASE Release(s)
  <2>1. s \in Autos /\ Holds(s) /\ End(s)
    BY <1>10 DEF Release, TypeInv, JobsFit, JobFits, At, Holds, Working
  <2>2. ~Holds(s)'
    BY <2>1, EndAt DEF Holds, Working
  <2>3. ClaimIsExclusive'
    BY <1>7, <2>1, <2>2 DEF HoldInv, ClaimIsExclusive, Senders
  <2>4. booking'.sent \/ booking'.claim # "in_flight"
    BY <1>10 DEF Release, TypeInv, TypeOK
  <2>5. HeldIsUnsettled'
    BY <2>4 DEF HeldIsUnsettled
  <2> QED BY <1>6, <1>7, <2>3, <2>5 DEF HoldInv
<1> QED BY <1>8, <1>9, <1>10, SenderBooking

LEMMA StepHold ==
  ASSUME TypeInv, CallInv, HoldInv, [Next]_vars
  PROVE  HoldInv'
<1>1. ASSUME NEW s \in Autos, StartAuto(s)  PROVE HoldInv'
  <2>1. /\ s \in Senders /\ OwnJob(s)
        /\ job'[s].at = "claim" /\ job'[s].key = BookingKey /\ job[s].at = "idle"
    BY <1>1, StartAutoFits DEF Senders, StartAuto, At, TypeInv, TypeOK, Idle
  <2> QED BY <1>1, <2>1, PlainHold DEF StartAuto, JobOnly, OwnJob, HolderFits, Holds, At, Working
<1>2. ASSUME NEW s \in Bots, NEW k \in Keys, StartBot(s, k)  PROVE HoldInv'
  <2>1. /\ s \in Senders /\ OwnJob(s) /\ s \notin Autos
        /\ job'[s].at = "replay"
    BY <1>2, StartBotFits, ConfirmationAssumption DEF Senders, StartBot, TypeInv, TypeOK, Idle
  <2> QED BY <1>2, <2>1, PlainHold DEF StartBot, JobOnly, OwnJob, HolderFits
<1>3. ASSUME NEW s \in Senders, SenderStep(s)  PROVE HoldInv'
  BY <1>3, SenderHold
<1>4. ASSUME NEW s \in Senders, Die(s) \/ Fail(s)  PROVE HoldInv'
  <2>1. OwnJob(s) /\ UNCHANGED booking /\ losses' # 0
    BY <1>4, LossFits DEF Die, Fail, TypeInv, TypeOK
  <2>2. HolderFits(s) /\ ~At(s, "idle")
    BY <1>4 DEF HoldInv, Die, Fail, At, Working
  <2>3. /\ job'[s].at # "idle" => job'[s].key = job[s].key
        /\ job'[s].at \in {"idle", "release"}
        /\ job'[s].at = "release" => job[s].at \in Working /\ ~job[s].recover
    <3>1. CASE End(s)
      BY <3>1, EndAt
    <3>2. CASE Fail(s) /\ ~End(s)
      <4>1. Go(s, "release") /\ ~job[s].recover /\ job[s].at \in Working
        BY <3>2 DEF Fail, GiveUp
      <4> QED BY <4>1, GoAt
    <3> QED BY <1>4, <3>1, <3>2 DEF Die
  <2>4. HolderFits(s)' /\ (Holds(s)' => Holds(s))
    BY <2>1, <2>2, <2>3 DEF HolderFits, Holds, At, Working
  <2> QED BY <2>1, <2>4, PlainHold DEF OwnJob
<1>5. ASSUME UNCHANGED <<booking, job>>, losses' = 0 => losses = 0  PROVE HoldInv'
  <2>1. ClaimIsExclusive' /\ \A s \in Senders : HolderFits(s)'
    BY <1>5 DEF HoldInv, HolderFits, ClaimIsExclusive, Holds, At
  <2>2. row[BookingKey] = Unsaid => row'[BookingKey] = Unsaid
    BY UnsaidStays, ConfirmationAssumption
  <2>3. HeldIsUnsettled'
    BY <1>5, <2>2 DEF HoldInv, HeldIsUnsettled, Holds, Unsaid
  <2> QED BY <2>1, <2>3 DEF HoldInv
<1>6. ASSUME NEW k \in Keys, Callback(k) \/ ReportFailed(k) \/ LoseCallback(k)
      PROVE  HoldInv'
  <2>1. UNCHANGED <<booking, job>> /\ (losses' = losses \/ losses' = losses + 1)
    BY <1>6 DEF Callback, StoreDelivery, ClearDelivered, ReportFailed, LoseCallback
  <2> QED BY <1>5, <2>1 DEF TypeInv, TypeOK
<1>7. CASE UNCHANGED vars
  BY <1>5, <1>7 DEF vars
<1> QED BY <1>1, <1>2, <1>3, <1>4, <1>6, <1>7 DEF Next

LEMMA HoldsHold == Spec => [](TypeInv /\ CallInv /\ HoldInv)
<1>1. Init => HoldInv
  <2>1. ASSUME Init, NEW s \in Senders  PROVE HolderFits(s) /\ ~Holds(s)
    BY <2>1 DEF Init, Idle, HolderFits, Holds, Working, At
  <2>2. ASSUME Init  PROVE ClaimIsExclusive /\ HeldIsUnsettled
    BY <2>1, <2>2 DEF Init, ClaimIsExclusive, HeldIsUnsettled, Senders
  <2> QED BY <2>1, <2>2 DEF HoldInv
<1>2. TypeInv /\ CallInv /\ HoldInv /\ [Next]_vars => HoldInv'
  BY StepHold
<1> QED BY <1>1, <1>2, CallsHold, PTL DEF Spec

(* The claim on the booking has one holder among the automatic senders.      *)
THEOREM ConfirmationClaimIsExclusive == Spec => []ClaimIsExclusive
<1>1. HoldInv => ClaimIsExclusive
  BY DEF HoldInv
<1> QED BY <1>1, HoldsHold, PTL

(* Without a loss, a claim left in flight belongs to a sender at work or to a*)
(* message that WhatsApp took without naming it.                             *)
THEOREM ConfirmationHeldIsUnsettled == Spec => []HeldIsUnsettled
<1>1. HoldInv => HeldIsUnsettled
  BY DEF HoldInv
<1> QED BY <1>1, HoldsHold, PTL
=============================================================================
