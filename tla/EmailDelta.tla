----------------------------- MODULE EmailDelta -----------------------------
(* The inbound worker of one mailbox, run by several API processes: a tick   *)
(* reads one page of the mailbox's delta feed under a lease                  *)
(* (email-authority-bound-messages-delta-page-operation.js) and then puts    *)
(* the oldest events that have no projection into the staff inbox            *)
(* (email-delta-sunset-staging-worker.js, email-inbound-inbox-bridge.js).    *)
(* A process may die or lose the answer of a COMMIT at any step: Lost drops  *)
(* its page and leaves what is durable, the lease included.  The mailbox and *)
(* its delta tokens are the provider's.                                      *)
EXTENDS EmailDeltaStore

CONSTANTS
  Senderless,            \* messages without a sender: the bridge rejects them
  PageSize,              \* messages in one page of the provider
  BatchLimit,            \* UNPROJECTED_SQL's LIMIT
  MaxGeneration, MaxFailures, MaxGone       \* bounds

ASSUME FeedAssumption ==
  /\ Last \in Nat
  /\ Senderless \subseteq 1..Last
  /\ PageSize \in Nat \ {0}
  /\ BatchLimit \in Nat \ {0}

VARIABLES
  arrived,               \* messages 1..arrived are in the mailbox
  page,                  \* page operation and projection of each worker
  restart,               \* the operator's restart of a generation
  posted,                \* how often a message was put in the conversation
  inbox,                 \* tenant_email_inbound_inbox_projections
  failures, gone         \* bounded faults so far

work == <<page, restart>>
counts == <<failures, gone>>
vars == <<store, arrived, work, posted, inbox, counts>>

Steps == {"status", "init", "lease", "open", "recheck", "fetch", "commit",
          "reset", "release", "abandon", "list", "prior", "post"}
UnderLease == {"open", "recheck", "fetch", "commit", "reset", "release", "abandon"}

Idle == [at |-> "status", gen |-> 0, from |-> 0, upTo |-> 0, kind |-> "none", todo |-> {}]

TypeOK ==
  /\ row \in Rows
  /\ current \subseteq Workers \cup {Staff}
  /\ stored \subseteq 1..Last
  /\ arrived \in 0..Last
  /\ page \in [Workers -> [at : Steps, gen : Nat, from : 0..Last, upTo : 0..Last,
                           kind : Kinds, todo : SUBSET (1..Last)]]
  /\ restart \in [at : {"idle", "ready"}, gen : Nat]
  /\ posted \in [1..Last -> Nat]
  /\ inbox \subseteq 1..Last
  /\ failures \in Nat /\ gone \in Nat

Init ==
  /\ StoreInit
  /\ arrived = 0
  /\ page = [w \in Workers |-> Idle]
  /\ restart = [at |-> "idle", gen |-> 0]
  /\ posted = [m \in 1..Last |-> 0]
  /\ inbox = {}
  /\ failures = 0 /\ gone = 0

Go(w, step) == page' = [page EXCEPT ![w].at = step]
EndTick(w) == page' = [page EXCEPT ![w] = Idle]
Elsewhere == UNCHANGED <<arrived, restart, posted, inbox, counts>>

(* getPublicStatus.  A generation in reset_required stops the page but not   *)
(* the projection that follows it.                                           *)
ReadStatus(w) ==
  /\ page[w].at = "status"
  /\ page' = [page EXCEPT ![w].gen = row.gen,
                          ![w].at = CASE row.phase = "absent" -> "init"
                                      [] row.phase = "reset_required" -> "list"
                                      [] OTHER -> "lease"]
  /\ current' = current \cup {w}
  /\ UNCHANGED <<row, stored>> /\ Elsewhere

(* delta_state_already_exists: the status is read again.                     *)
Initialize(w) ==
  /\ page[w].at = "init"
  /\ IF row.phase = "absent"
       THEN InsertInitial(w) /\ page' = [page EXCEPT ![w].at = "lease", ![w].gen = 1]
       ELSE Go(w, "status") /\ UNCHANGED store
  /\ Elsewhere

AcquireLease(w) ==
  /\ page[w].at = "lease"
  /\ IF MayLease(w, page[w].gen)
       THEN TakeLease(w) /\ Go(w, "open")
       ELSE EndTick(w) /\ UNCHANGED store
  /\ Elsewhere

(* Without a cursor (generation still initial) the first page is fetched and *)
(* nothing is decrypted, so there is no second look at the lease.            *)
OpenCursor(w) ==
  /\ page[w].at = "open"
  /\ IF MayOpen(w, page[w].gen)
       THEN page' = [page EXCEPT ![w].from = row.cursor.upTo,
                                 ![w].kind = row.cursor.kind,
                                 ![w].at = IF row.cursor.kind = "none" THEN "fetch"
                                                                       ELSE "recheck"]
       ELSE Go(w, "abandon")
  /\ UNCHANGED store /\ Elsewhere

RecheckLease(w) ==
  /\ page[w].at = "recheck"
  /\ Go(w, IF MayOpen(w, page[w].gen) THEN "fetch" ELSE "abandon")
  /\ UNCHANGED store /\ Elsewhere

(* Mutant: a full page is taken for granted.                                 *)
FetchFullPage(w) ==
  /\ page[w].at = "fetch"
  /\ page' = [page EXCEPT ![w].upTo = page[w].from + PageSize,
                          ![w].kind = "deltaLink", ![w].at = "commit"]
  /\ UNCHANGED store /\ Elsewhere

(* One request to the provider, which chooses how much of the mailbox the    *)
(* page holds; the successor is a nextLink while there is more, and the      *)
(* deltaLink when this page is the last.                                     *)
FetchPage(w) ==
  /\ page[w].at = "fetch"
  /\ \E upTo \in page[w].from..arrived :
       /\ upTo <= page[w].from + PageSize
       /\ upTo = page[w].from => upTo = arrived
       /\ page' = [page EXCEPT ![w].upTo = upTo,
                               ![w].kind = IF upTo < arrived THEN "nextLink" ELSE "deltaLink",
                               ![w].at = "commit"]
  /\ UNCHANGED store /\ Elsewhere

(* 410 for a continuation only.                                              *)
FetchGone(w) ==
  /\ page[w].at = "fetch" /\ page[w].kind # "none"
  /\ gone < MaxGone
  /\ gone' = gone + 1
  /\ Go(w, "reset")
  /\ UNCHANGED <<store, arrived, restart, posted, inbox, failures>>

(* No grant, a transport error, a page or a seal that is refused, an         *)
(* authority that is no longer verified: the lease is given back.            *)
PageFails(w) ==
  /\ page[w].at \in {"fetch", "commit"}
  /\ failures < MaxFailures
  /\ failures' = failures + 1
  /\ Go(w, "abandon")
  /\ UNCHANGED <<store, arrived, restart, posted, inbox, gone>>

CommitPage(w) ==
  /\ page[w].at = "commit"
  /\ IF MayCommit(w, page[w].gen)
       THEN InstallPage(w, page[w]) /\ Go(w, "release")
       ELSE Go(w, "abandon") /\ UNCHANGED store
  /\ Elsewhere

MarkReset(w) ==
  /\ page[w].at = "reset"
  /\ IF Fenced(w, page[w].gen)
       THEN InstallReset(w) /\ Go(w, "list")
       ELSE Go(w, "abandon") /\ UNCHANGED store
  /\ Elsewhere

(* After a page that failed (bestEffortRelease) the tick ends; after one     *)
(* that was committed it goes on, whether the release was answered or not.   *)
ReleaseLease(w) ==
  /\ page[w].at \in {"release", "abandon"}
  /\ IF page[w].at = "release" THEN Go(w, "list") ELSE EndTick(w)
  /\ IF MayRelease(w, page[w].gen) THEN DropLease(w) ELSE UNCHANGED store
  /\ Elsewhere

Unprojected == stored \ inbox

(* Mutant: LIMIT 1.                                                          *)
BatchOfOne == {m \in Unprojected : Cardinality({k \in Unprojected : k < m}) < 1}

(* UNPROJECTED_SQL                                                           *)
Batch == {m \in Unprojected : Cardinality({k \in Unprojected : k < m}) < BatchLimit}

ListEvents(w) ==
  /\ page[w].at = "list"
  /\ IF Batch = {} THEN EndTick(w)
                   ELSE page' = [page EXCEPT ![w].todo = Batch, ![w].at = "prior"]
  /\ UNCHANGED store /\ Elsewhere

(* The event whose turn it is.                                               *)
Turn(w) == {m \in page[w].todo : \A k \in page[w].todo : m <= k}

(* The next event of the batch, or the end of the tick.                      *)
NextEvent(w) ==
  LET rest == page[w].todo \ Turn(w)
  IN IF rest = {} THEN EndTick(w)
                  ELSE page' = [page EXCEPT ![w].todo = rest, ![w].at = "prior"]

(* Projection journal first, then the sender.                                *)
CheckEvent(w) ==
  /\ page[w].at = "prior"
  /\ IF Turn(w) \subseteq inbox \cup Senderless THEN NextEvent(w) ELSE Go(w, "post")
  /\ UNCHANGED store /\ Elsewhere

(* Mutant: the loser of the race keeps its message.                          *)
PostTwice(w) ==
  /\ page[w].at = "post"
  /\ posted' = [m \in 1..Last |-> IF m \in Turn(w) THEN posted[m] + 1 ELSE posted[m]]
  /\ inbox' = inbox \cup Turn(w)
  /\ NextEvent(w)
  /\ UNCHANGED <<store, arrived, restart, counts>>

(* The message and its journal row; when another worker's row is there the   *)
(* transaction is rolled back.                                               *)
PostEvent(w) ==
  /\ page[w].at = "post"
  /\ posted' = [m \in 1..Last |-> IF m \in Turn(w) \ inbox THEN posted[m] + 1
                                                           ELSE posted[m]]
  /\ inbox' = inbox \cup Turn(w)
  /\ NextEvent(w)
  /\ UNCHANGED <<store, arrived, restart, counts>>

(* inbound_inbox_bridge_write_failed, or a COMMIT whose answer was lost.     *)
PostUncertain(w) ==
  /\ page[w].at = "post"
  /\ failures < MaxFailures
  /\ failures' = failures + 1
  /\ NextEvent(w)
  /\ UNCHANGED <<store, arrived, restart, posted, inbox, gone>>

WorkerStep(w) ==
  \/ ReadStatus(w) \/ Initialize(w) \/ AcquireLease(w) \/ OpenCursor(w)
  \/ RecheckLease(w) \/ FetchPage(w) \/ CommitPage(w) \/ MarkReset(w)
  \/ ReleaseLease(w) \/ ListEvents(w) \/ CheckEvent(w) \/ PostEvent(w)

(* The process dies, or the page ends as uncertain: whatever step the lost   *)
(* answer belonged to was or was not taken before this one.                  *)
Lost(w) ==
  /\ page[w].at # "status"
  /\ failures < MaxFailures
  /\ failures' = failures + 1
  /\ EndTick(w)
  /\ UNCHANGED <<store, arrived, restart, posted, inbox, gone>>

Working(w) == page[w].at \in UnderLease

(* The lease of a worker that is gone runs out in LEASE_TTL_SECONDS.         *)
LeaseRunsOut ==
  /\ LeaseIsLive /\ ~Working(row.holder)
  /\ row' = [row EXCEPT !.live = FALSE]
  /\ UNCHANGED <<current, stored, arrived, work, posted, inbox, counts>>

(* A page slower than its lease: nothing renews it.                          *)
LeaseOutlived ==
  /\ LeaseIsLive /\ Working(row.holder)
  /\ failures < MaxFailures
  /\ failures' = failures + 1
  /\ row' = [row EXCEPT !.live = FALSE]
  /\ UNCHANGED <<current, stored, arrived, work, posted, inbox, gone>>

(* getRecoveryStatus: generation and version the operator will restart from. *)
ReadRecovery ==
  /\ restart.at = "idle" /\ row.phase # "absent"
  /\ restart' = [at |-> "ready", gen |-> row.gen]
  /\ current' = current \cup {Staff}
  /\ UNCHANGED <<row, stored, arrived, page, posted, inbox, counts>>

MayRestart == Fenced(Staff, restart.gen) /\ ~LeaseIsLive

(* restartGeneration; a conflict or a live lease is journaled and changes    *)
(* nothing.                                                                  *)
RestartGeneration ==
  /\ restart.at = "ready"
  /\ IF MayRestart
       THEN row.gen < MaxGeneration /\ InsertNextGeneration
       ELSE UNCHANGED store
  /\ restart' = [at |-> "idle", gen |-> 0]
  /\ UNCHANGED <<arrived, page, posted, inbox, counts>>

Arrive ==
  /\ arrived < Last
  /\ arrived' = arrived + 1
  /\ UNCHANGED <<store, work, posted, inbox, counts>>

Next ==
  \/ \E w \in Workers : WorkerStep(w) \/ FetchGone(w) \/ PageFails(w)
                          \/ PostUncertain(w) \/ Lost(w)
  \/ LeaseRunsOut \/ LeaseOutlived \/ ReadRecovery \/ RestartGeneration \/ Arrive

(* Each process re-arms its timer after every tick, whatever its outcome,    *)
(* and the clock passes every lease_until.                                   *)
Fairness == /\ \A w \in Workers : WF_vars(WorkerStep(w))
            /\ WF_vars(LeaseRunsOut)

Spec == Init /\ [][Next]_vars /\ Fairness
(* The cursor never runs ahead of the events: whatever page was lost, fenced *)
(* or read twice, every message up to the cursor is kept.                    *)
NothingSkipped == 1..row.cursor.upTo \subseteq stored

(* Two workers that project the same event put it in the conversation once,  *)
(* and never without the journal row that says so.                           *)
PostedOnce == \A m \in 1..Last : posted[m] = IF m \in inbox THEN 1 ELSE 0

(* The feed keeps MailFeed's promise: pages follow one another without gap   *)
(* or repetition, a generation that lost its place stays stopped until the   *)
(* operator begins another, and a page of an old generation is never kept.   *)
Feed == INSTANCE MailFeed WITH round <- row.gen, place <- row.cursor.upTo,
                               stopped <- (row.phase = "reset_required")

KeepsFeed == Feed!Spec

(* After finitely many faults every message of the mailbox is kept, unless   *)
(* the provider dropped the cursor and the operator has yet to restart.      *)
MailIsStored ==
  \A m \in 1..Last : (m <= arrived) ~> (m \in stored \/ row.phase = "reset_required")

(* A kept message with a sender reaches the staff inbox, whatever page       *)
(* operation fails and although rejected messages stay in every batch, as    *)
(* long as they do not fill it.                                              *)
MailReachesInbox ==
  BatchLimit > Cardinality(Senderless) =>
    \A m \in (1..Last) \ Senderless : (m \in stored) ~> (m \in inbox)
=============================================================================
