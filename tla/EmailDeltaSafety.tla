-------------------------- MODULE EmailDeltaSafety --------------------------
(* Theorems about the inbound worker, for every number of API processes and  *)
(* messages, every page size and every bound on the faults.                  *)
EXTENDS EmailDelta, TLAPS

Pages == [at : Steps, gen : Nat, from : 0..Last, upTo : 0..Last,
          kind : Kinds, todo : SUBSET (1..Last)]

LEMMA PagePut ==
  ASSUME page \in [Workers -> Pages], NEW w \in Workers, NEW r \in Pages,
         page' = [page EXCEPT ![w] = r]
  PROVE  /\ page' \in [Workers -> Pages]
         /\ page'[w] = r
         /\ \A v \in Workers \ {w} : page'[v] = page[v]
OBVIOUS

LEMMA IdleIsPage == Idle \in Pages
BY FeedAssumption DEF Idle, Pages, Steps, Kinds

(* What a step of worker w may do to its own page.                           *)
LEMMA PageGo ==
  ASSUME TypeOK, NEW w \in Workers, NEW step \in Steps, Go(w, step)
  PROVE  /\ page' \in [Workers -> Pages]
         /\ page'[w] = [page[w] EXCEPT !.at = step]
         /\ \A v \in Workers \ {w} : page'[v] = page[v]
<1>1. page' = [page EXCEPT ![w] = [page[w] EXCEPT !.at = step]]
  BY DEF Go
<1>2. page \in [Workers -> Pages]
  BY DEF TypeOK, Pages
<1>3. [page[w] EXCEPT !.at = step] \in Pages
  BY <1>2 DEF Pages
<1> QED BY <1>1, <1>2, <1>3, PagePut

LEMMA PageEnd ==
  ASSUME TypeOK, NEW w \in Workers, EndTick(w)
  PROVE  /\ page' \in [Workers -> Pages]
         /\ page'[w] = Idle
         /\ \A v \in Workers \ {w} : page'[v] = page[v]
<1>1. page \in [Workers -> Pages]
  BY DEF TypeOK, Pages
<1> QED BY <1>1, IdleIsPage, PagePut DEF EndTick

LEMMA PageNext ==
  ASSUME TypeOK, NEW w \in Workers, NextEvent(w)
  PROVE  /\ page' \in [Workers -> Pages]
         /\ \/ page'[w] = Idle
            \/ \E rest \in SUBSET (1..Last) :
                 page'[w] = [page[w] EXCEPT !.todo = rest, !.at = "prior"]
         /\ \A v \in Workers \ {w} : page'[v] = page[v]
<1> DEFINE rest == page[w].todo \ Turn(w)
<1>1. CASE EndTick(w)
  BY <1>1, PageEnd
<1>2. CASE page' = [page EXCEPT ![w].todo = rest, ![w].at = "prior"]
  <2>1. page' = [page EXCEPT ![w] = [page[w] EXCEPT !.todo = rest, !.at = "prior"]]
    BY <1>2
  <2>2. page \in [Workers -> Pages]
    BY DEF TypeOK, Pages
  <2>3. rest \in SUBSET (1..Last)
    BY <2>2 DEF Pages
  <2>4. [page[w] EXCEPT !.todo = rest, !.at = "prior"] \in Pages
    BY <2>2, <2>3 DEF Pages, Steps
  <2> HIDE DEF rest
  <2> QED BY <2>1, <2>2, <2>3, <2>4, PagePut
<1> QED BY <1>1, <1>2 DEF NextEvent

-----------------------------------------------------------------------------
(* The transactions of the store.                                            *)
StoreTypes == /\ row \in Rows /\ stored \subseteq 1..Last
              /\ current \subseteq Workers \cup {Staff}

LEMMA StoreKept ==
  ASSUME StoreTypes, UNCHANGED store
  PROVE  StoreTypes'
BY DEF StoreTypes, store

LEMMA InsertTypes ==
  ASSUME StoreTypes, NEW w \in Workers, InsertInitial(w)
  PROVE  StoreTypes'
<1>1. row' \in Rows
  BY DEF StoreTypes, InsertInitial, Phases, Rows
<1> QED BY <1>1 DEF StoreTypes, InsertInitial

LEMMA LeaseTypes ==
  ASSUME StoreTypes, NEW w \in Workers, TakeLease(w) \/ DropLease(w)
  PROVE  StoreTypes'
<1>1. CASE TakeLease(w)
  BY <1>1 DEF StoreTypes, TakeLease, Rows
<1>2. CASE DropLease(w)
  BY <1>2 DEF StoreTypes, DropLease, Rows
<1> QED BY <1>1, <1>2

LEMMA InstallTypes ==
  ASSUME StoreTypes, NEW w \in Workers, NEW r \in Pages, InstallPage(w, r)
  PROVE  StoreTypes'
<1> DEFINE c == [kind |-> r.kind, upTo |-> r.upTo]
           ph == IF r.kind = "deltaLink" THEN "tracking" ELSE row.phase
<1>1. r.from \in 0..Last /\ r.upTo \in 0..Last /\ r.kind \in Kinds
  BY DEF Pages
<1>2. c \in Cursors
  BY <1>1 DEF Cursors
<1>3. ph \in Phases
  BY DEF StoreTypes, Rows, Phases
<1>4. row' = [row EXCEPT !.cursor = c, !.phase = ph]
  BY DEF InstallPage
<1>5. row' \in Rows
  <2> HIDE DEF c, ph
  <2> QED BY <1>2, <1>3, <1>4 DEF StoreTypes, Rows
<1>6. stored' \subseteq 1..Last
  BY <1>1, FeedAssumption DEF InstallPage, StoreTypes
<1> QED BY <1>5, <1>6 DEF StoreTypes, InstallPage

LEMMA ResetTypes ==
  ASSUME StoreTypes, NEW w \in Workers, InstallReset(w)
  PROVE  StoreTypes'
<1>1. row' \in Rows
  BY DEF StoreTypes, InstallReset, Phases, Rows
<1> QED BY <1>1 DEF StoreTypes, InstallReset

LEMMA GenerationTypes ==
  ASSUME StoreTypes, InsertNextGeneration
  PROVE  StoreTypes'
<1>1. row' \in Rows
  BY FeedAssumption DEF StoreTypes, InsertNextGeneration, Rows, Phases, Cursors, NoCursor, Kinds
<1> QED BY <1>1 DEF StoreTypes, InsertNextGeneration

-----------------------------------------------------------------------------
(* Type correctness.                                                         *)
RestTypes == /\ arrived \in 0..Last
             /\ restart \in [at : {"idle", "ready"}, gen : Nat]
             /\ posted \in [1..Last -> Nat] /\ inbox \subseteq 1..Last
             /\ failures \in Nat /\ gone \in Nat

LEMMA TypeParts == TypeOK <=> StoreTypes /\ page \in [Workers -> Pages] /\ RestTypes
BY DEF TypeOK, StoreTypes, RestTypes, Pages

LEMMA TypePartsNext == TypeOK' <=> StoreTypes' /\ page' \in [Workers -> Pages] /\ RestTypes'
BY DEF TypeOK, StoreTypes, RestTypes, Pages

LEMMA InitTypes == Init => TypeOK
<1> SUFFICES ASSUME Init PROVE TypeOK
  OBVIOUS
<1>1. row \in Rows
  BY FeedAssumption DEF Init, StoreInit, Rows, Phases, Cursors, NoCursor, Kinds
<1>2. StoreTypes
  BY <1>1 DEF Init, StoreInit, StoreTypes
<1>3. page \in [Workers -> Pages]
  BY IdleIsPage DEF Init
<1>4. RestTypes
  BY FeedAssumption DEF Init, RestTypes
<1> QED BY <1>2, <1>3, <1>4, TypeParts

LEMMA ElsewhereTypes ==
  ASSUME TypeOK, Elsewhere
  PROVE  RestTypes'
BY TypeParts DEF Elsewhere, counts, RestTypes

(* A step of a worker that puts r in the place of its page.                  *)
LEMMA PutTypes ==
  ASSUME TypeOK, NEW w \in Workers, NEW r \in Pages, page' = [page EXCEPT ![w] = r]
  PROVE  page' \in [Workers -> Pages]
BY PagePut, TypeParts

LEMMA OpenPage ==
  ASSUME TypeOK, NEW w \in Workers, OpenCursor(w), MayOpen(w, page[w].gen)
  PROVE  LET r == [page[w] EXCEPT !.from = row.cursor.upTo, !.kind = row.cursor.kind,
                                  !.at = IF row.cursor.kind = "none" THEN "fetch"
                                                                     ELSE "recheck"]
         IN  r \in Pages /\ page' = [page EXCEPT ![w] = r]
<1>1. page[w] \in Pages /\ row.cursor.upTo \in 0..Last /\ row.cursor.kind \in Kinds
  BY TypeParts DEF StoreTypes, Rows, Cursors
<1>2. page' = [page EXCEPT ![w] =
        [page[w] EXCEPT !.from = row.cursor.upTo, !.kind = row.cursor.kind,
                        !.at = IF row.cursor.kind = "none" THEN "fetch" ELSE "recheck"]]
  BY TypeParts DEF OpenCursor
<1> QED BY <1>1, <1>2 DEF Pages, Steps

LEMMA FetchedPage ==
  ASSUME TypeOK, NEW w \in Workers, FetchPage(w)
  PROVE  \E upTo \in page[w].from..arrived, kind \in Kinds :
           LET r == [page[w] EXCEPT !.upTo = upTo, !.kind = kind, !.at = "commit"]
           IN  r \in Pages /\ page' = [page EXCEPT ![w] = r]
<1>1. PICK upTo \in page[w].from..arrived :
        page' = [page EXCEPT ![w].upTo = upTo,
                             ![w].kind = IF upTo < arrived THEN "nextLink" ELSE "deltaLink",
                             ![w].at = "commit"]
  BY DEF FetchPage
<1> DEFINE kind == IF upTo < arrived THEN "nextLink" ELSE "deltaLink"
           r == [page[w] EXCEPT !.upTo = upTo, !.kind = kind, !.at = "commit"]
<1>2. page[w] \in Pages /\ arrived \in 0..Last
  BY TypeParts DEF RestTypes
<1>3. upTo \in 0..Last
  BY <1>2, FeedAssumption DEF Pages
<1>4. kind \in Kinds
  BY DEF Kinds
<1>5. r \in Pages
  BY <1>2, <1>3, <1>4 DEF Pages, Steps
<1>6. page' = [page EXCEPT ![w] = r]
  BY <1>1, TypeParts
<1> QED BY <1>4, <1>5, <1>6

LEMMA LeasedPage ==
  ASSUME TypeOK, NEW w \in Workers
  PROVE  /\ [page[w] EXCEPT !.at = "lease", !.gen = 1] \in Pages
         /\ \A step \in Steps : [page[w] EXCEPT !.gen = row.gen, !.at = step] \in Pages
         /\ \A b \in SUBSET (1..Last) : [page[w] EXCEPT !.todo = b, !.at = "prior"] \in Pages
<1>1. page[w] \in Pages /\ row.gen \in Nat
  BY TypeParts DEF StoreTypes, Rows
<1>2. [page[w] EXCEPT !.at = "lease", !.gen = 1] \in Pages
  BY <1>1 DEF Pages, Steps
<1>3. ASSUME NEW step \in Steps
      PROVE  [page[w] EXCEPT !.gen = row.gen, !.at = step] \in Pages
  BY <1>1 DEF Pages
<1>4. ASSUME NEW b \in SUBSET (1..Last)
      PROVE  [page[w] EXCEPT !.todo = b, !.at = "prior"] \in Pages
  BY <1>1 DEF Pages, Steps
<1> QED BY <1>2, <1>3, <1>4

LEMMA StatusPage ==
  ASSUME TypeOK, NEW w \in Workers, ReadStatus(w)
  PROVE  \E step \in {"init", "list", "lease"} :
           /\ [page[w] EXCEPT !.gen = row.gen, !.at = step] \in Pages
           /\ page' = [page EXCEPT ![w] = [page[w] EXCEPT !.gen = row.gen, !.at = step]]
<1> DEFINE step == CASE row.phase = "absent" -> "init"
                      [] row.phase = "reset_required" -> "list"
                      [] OTHER -> "lease"
<1>1. step \in {"init", "list", "lease"}
  OBVIOUS
<1>2. page' = [page EXCEPT ![w].gen = row.gen, ![w].at = step]
  BY DEF ReadStatus
<1> HIDE DEF step
<1>3. page' = [page EXCEPT ![w] = [page[w] EXCEPT !.gen = row.gen, !.at = step]]
  BY <1>2, TypeParts
<1> QED BY <1>1, <1>3, LeasedPage DEF Steps

LEMMA InitialPage ==
  ASSUME TypeOK, NEW w \in Workers, page' = [page EXCEPT ![w].at = "lease", ![w].gen = 1]
  PROVE  page' = [page EXCEPT ![w] = [page[w] EXCEPT !.at = "lease", !.gen = 1]]
BY TypeParts

LEMMA BatchIsKept ==
  ASSUME TypeOK
  PROVE  Batch \in SUBSET (1..Last)
BY TypeParts DEF Batch, Unprojected, StoreTypes

LEMMA TurnIsKept ==
  ASSUME TypeOK, NEW w \in Workers
  PROVE  Turn(w) \subseteq 1..Last
BY TypeParts DEF Turn, Pages

LEMMA PostTypes ==
  ASSUME TypeOK, NEW w \in Workers, PostEvent(w)
  PROVE  RestTypes'
<1>1. posted' \in [1..Last -> Nat]
  BY TypeParts DEF PostEvent, RestTypes
<1>2. inbox' \subseteq 1..Last
  BY TypeParts, TurnIsKept DEF PostEvent, RestTypes
<1> QED BY <1>1, <1>2, TypeParts DEF PostEvent, counts, RestTypes

LEMMA WorkerTypes ==
  ASSUME TypeOK, NEW w \in Workers, WorkerStep(w)
  PROVE  TypeOK'
<1> USE DEF Steps
<1>0. StoreTypes /\ RestTypes
  BY TypeParts
<1>1. CASE ReadStatus(w)
  <2>1. page' \in [Workers -> Pages]
    BY <1>1, StatusPage, PutTypes
  <2>2. StoreTypes'
    BY <1>0, <1>1 DEF ReadStatus, StoreTypes
  <2> QED BY <1>1, <2>1, <2>2, ElsewhereTypes, TypePartsNext DEF ReadStatus
<1>2. CASE Initialize(w)
  <2>1. CASE InsertInitial(w) /\ page' = [page EXCEPT ![w].at = "lease", ![w].gen = 1]
    BY <1>0, <1>2, <2>1, InsertTypes, InitialPage, LeasedPage, PutTypes, ElsewhereTypes,
       TypePartsNext DEF Initialize
  <2>2. CASE Go(w, "status") /\ UNCHANGED store
    BY <1>0, <1>2, <2>2, StoreKept, PageGo, ElsewhereTypes, TypePartsNext DEF Initialize
  <2> QED BY <1>2, <2>1, <2>2 DEF Initialize
<1>3. CASE AcquireLease(w)
  <2>1. StoreTypes'
    BY <1>0, <1>3, StoreKept, LeaseTypes DEF AcquireLease
  <2>2. page' \in [Workers -> Pages]
    BY <1>3, PageGo, PageEnd DEF AcquireLease
  <2> QED BY <1>3, <2>1, <2>2, ElsewhereTypes, TypePartsNext DEF AcquireLease
<1>4. CASE OpenCursor(w)
  <2>1. CASE MayOpen(w, page[w].gen)
    BY <1>0, <1>4, <2>1, OpenPage, PutTypes, StoreKept, ElsewhereTypes, TypePartsNext
       DEF OpenCursor
  <2>2. CASE ~MayOpen(w, page[w].gen)
    BY <1>0, <1>4, <2>2, PageGo, StoreKept, ElsewhereTypes, TypePartsNext DEF OpenCursor
  <2> QED BY <2>1, <2>2
<1>5. CASE RecheckLease(w)
  BY <1>0, <1>5, PageGo, StoreKept, ElsewhereTypes, TypePartsNext DEF RecheckLease
<1>6. CASE FetchPage(w)
  BY <1>0, <1>6, FetchedPage, PutTypes, StoreKept, ElsewhereTypes, TypePartsNext DEF FetchPage
<1>7. CASE CommitPage(w)
  <2>1. StoreTypes'
    BY <1>0, <1>7, StoreKept, InstallTypes, TypeParts DEF CommitPage
  <2>2. page' \in [Workers -> Pages]
    BY <1>7, PageGo DEF CommitPage
  <2> QED BY <1>7, <2>1, <2>2, ElsewhereTypes, TypePartsNext DEF CommitPage
<1>8. CASE MarkReset(w)
  <2>1. StoreTypes'
    BY <1>0, <1>8, StoreKept, ResetTypes DEF MarkReset
  <2>2. page' \in [Workers -> Pages]
    BY <1>8, PageGo DEF MarkReset
  <2> QED BY <1>8, <2>1, <2>2, ElsewhereTypes, TypePartsNext DEF MarkReset
<1>9. CASE ReleaseLease(w)
  <2>1. StoreTypes'
    BY <1>0, <1>9, StoreKept, LeaseTypes DEF ReleaseLease
  <2>2. page' \in [Workers -> Pages]
    BY <1>9, PageGo, PageEnd DEF ReleaseLease
  <2> QED BY <1>9, <2>1, <2>2, ElsewhereTypes, TypePartsNext DEF ReleaseLease
<1>10. CASE ListEvents(w)
  <2>1. page' \in [Workers -> Pages]
    <3>1. CASE EndTick(w)
      BY <3>1, PageEnd
    <3>2. CASE page' = [page EXCEPT ![w].todo = Batch, ![w].at = "prior"]
      <4>1. page' = [page EXCEPT ![w] = [page[w] EXCEPT !.todo = Batch, !.at = "prior"]]
        BY <3>2, TypeParts
      <4> QED BY <4>1, BatchIsKept, LeasedPage, PutTypes
    <3> QED BY <1>10, <3>1, <3>2 DEF ListEvents
  <2> QED BY <1>0, <1>10, <2>1, StoreKept, ElsewhereTypes, TypePartsNext DEF ListEvents
<1>11. CASE CheckEvent(w)
  <2>1. page' \in [Workers -> Pages]
    BY <1>11, PageGo, PageNext DEF CheckEvent
  <2> QED BY <1>0, <1>11, <2>1, StoreKept, ElsewhereTypes, TypePartsNext DEF CheckEvent
<1>12. CASE PostEvent(w)
  <2>1. StoreTypes'
    BY <1>0, <1>12, StoreKept DEF PostEvent
  <2>2. page' \in [Workers -> Pages]
    BY <1>12, PageNext DEF PostEvent
  <2> QED BY <1>12, <2>1, <2>2, PostTypes, TypePartsNext
<1> QED BY <1>1, <1>2, <1>3, <1>4, <1>5, <1>6, <1>7, <1>8, <1>9, <1>10, <1>11, <1>12
        DEF WorkerStep

(* The faults of a worker's step.                                            *)
Fault(w) == FetchGone(w) \/ PageFails(w) \/ PostUncertain(w) \/ Lost(w)

LEMMA FaultTypes ==
  ASSUME TypeOK, NEW w \in Workers, Fault(w)
  PROVE  TypeOK'
<1> USE DEF Steps
<1>0. StoreTypes /\ RestTypes
  BY TypeParts
<1>1. StoreTypes'
  BY <1>0, StoreKept DEF Fault, FetchGone, PageFails, PostUncertain, Lost
<1>2. page' \in [Workers -> Pages]
  <2>1. CASE FetchGone(w)
    BY <2>1, PageGo DEF FetchGone
  <2>2. CASE PageFails(w)
    BY <2>2, PageGo DEF PageFails
  <2>3. CASE PostUncertain(w)
    BY <2>3, PageNext DEF PostUncertain
  <2>4. CASE Lost(w)
    BY <2>4, PageEnd DEF Lost
  <2> QED BY <2>1, <2>2, <2>3, <2>4 DEF Fault
<1>3. RestTypes'
  <2>1. CASE FetchGone(w)
    BY <1>0, <2>1 DEF FetchGone, RestTypes
  <2>2. CASE PageFails(w)
    BY <1>0, <2>2 DEF PageFails, RestTypes
  <2>3. CASE PostUncertain(w)
    BY <1>0, <2>3 DEF PostUncertain, RestTypes
  <2>4. CASE Lost(w)
    BY <1>0, <2>4 DEF Lost, RestTypes
  <2> QED BY <2>1, <2>2, <2>3, <2>4 DEF Fault
<1> QED BY <1>1, <1>2, <1>3, TypePartsNext

(* The clock, the operator and the guests.                                   *)
Around == LeaseRunsOut \/ LeaseOutlived \/ ReadRecovery \/ RestartGeneration \/ Arrive

LEMMA AroundTypes ==
  ASSUME TypeOK, Around
  PROVE  TypeOK'
<1>0. StoreTypes /\ RestTypes /\ page \in [Workers -> Pages]
  BY TypeParts
<1>1. CASE LeaseRunsOut \/ LeaseOutlived
  <2>1. row' \in Rows
    BY <1>0, <1>1 DEF LeaseRunsOut, LeaseOutlived, StoreTypes, Rows
  <2>2. StoreTypes' /\ page' \in [Workers -> Pages] /\ RestTypes'
    BY <1>0, <1>1, <2>1 DEF LeaseRunsOut, LeaseOutlived, StoreTypes, RestTypes, work, counts
  <2> QED BY <2>2, TypePartsNext
<1>2. CASE ReadRecovery
  <2>1. row.gen \in Nat
    BY <1>0 DEF StoreTypes, Rows
  <2>2. StoreTypes' /\ page' \in [Workers -> Pages] /\ RestTypes'
    BY <1>0, <1>2, <2>1 DEF ReadRecovery, StoreTypes, RestTypes, counts
  <2> QED BY <2>2, TypePartsNext
<1>3. CASE RestartGeneration
  <2>1. StoreTypes'
    BY <1>0, <1>3, GenerationTypes, StoreKept DEF RestartGeneration
  <2>2. page' \in [Workers -> Pages] /\ RestTypes'
    BY <1>0, <1>3 DEF RestartGeneration, RestTypes, counts
  <2> QED BY <2>1, <2>2, TypePartsNext
<1>4. CASE Arrive
  <2>1. StoreTypes'
    BY <1>0, <1>4, StoreKept DEF Arrive
  <2>2. page' \in [Workers -> Pages] /\ RestTypes'
    BY <1>0, <1>4, FeedAssumption DEF Arrive, RestTypes, work, counts
  <2> QED BY <2>1, <2>2, TypePartsNext
<1> QED BY <1>1, <1>2, <1>3, <1>4 DEF Around

LEMMA StepKinds ==
  ASSUME [Next]_vars
  PROVE  \/ \E w \in Workers : WorkerStep(w) \/ Fault(w)
         \/ Around
         \/ UNCHANGED vars
BY DEF Next, Fault, Around

LEMMA StutterTypes ==
  ASSUME TypeOK, UNCHANGED vars
  PROVE  TypeOK'
BY DEF TypeOK, vars, store, work, counts

(* The tables and the workers' memory keep their types.                      *)
THEOREM DeltaTypeCorrect == Spec => []TypeOK
<1>1. TypeOK /\ [Next]_vars => TypeOK'
  BY StepKinds, WorkerTypes, FaultTypes, AroundTypes, StutterTypes
<1> QED BY <1>1, InitTypes, PTL DEF Spec

LEMMA TypesHold == Spec => []TypeOK
BY DeltaTypeCorrect

-----------------------------------------------------------------------------
(* What a worker knows.  NothingSkipped alone is not inductive: a page is    *)
(* put behind the place the worker remembers (page.from), which must be kept *)
(* up to there too; and it advances the row's cursor without a gap only      *)
(* because nobody who knows the row's version remembers another cursor.      *)
RowFits ==
  /\ 1..row.cursor.upTo \subseteq stored
  /\ row.phase = "absent" => row.gen = 0 /\ row.cursor.upTo = 0
  /\ row.phase # "absent" => row.gen > 0

PageFits(w) ==
  /\ 1..page[w].from \subseteq stored
  /\ page[w].at = "commit" => page[w].from <= page[w].upTo /\ page[w].upTo <= arrived
  /\ w \in current =>
       /\ page[w].at \in {"recheck", "fetch", "commit"} => page[w].from = row.cursor.upTo
       /\ page[w].at \in {"open", "recheck", "fetch", "commit", "reset"} =>
            row.phase \in {"initial", "tracking"}

FeedInv == RowFits /\ \A w \in Workers : PageFits(w)

LEMMA InitFeed == Init => FeedInv
<1> SUFFICES ASSUME Init PROVE FeedInv
  OBVIOUS
<1>1. 1..0 = {}
  OBVIOUS
<1>2. RowFits
  BY <1>1 DEF Init, StoreInit, RowFits, NoCursor
<1>3. ASSUME NEW w \in Workers PROVE PageFits(w)
  BY <1>1 DEF Init, StoreInit, PageFits, Idle
<1> QED BY <1>2, <1>3 DEF FeedInv

(* A page nobody touched still fits when the row only changed for somebody   *)
(* else, or did not change at all.                                           *)
SameRow == UNCHANGED <<row.cursor, row.phase, row.gen>>

LEMMA UntouchedFits ==
  ASSUME TypeOK, TypeOK', FeedInv, NEW v \in Workers, page'[v] = page[v],
         stored \subseteq stored', arrived <= arrived',
         v \in current' => v \in current /\ SameRow
  PROVE  PageFits(v)'
<1>1. PageFits(v) /\ arrived \in Nat /\ arrived' \in Nat /\ page[v].upTo \in Nat
  BY FeedAssumption, TypeParts DEF FeedInv, RestTypes, TypeOK
<1> QED BY <1>1 DEF PageFits, SameRow

(* The worker's own page, when it goes on to a step that promises no more.   *)
LEMMA OwnFits ==
  ASSUME FeedInv, NEW w \in Workers, page'[w].from = page[w].from,
         stored \subseteq stored', SameRow, page'[w].at # "commit",
         page'[w].at \in {"recheck", "fetch"} =>
           page[w].at \in {"recheck", "fetch", "commit"} /\ w \in current,
         page'[w].at \in {"open", "reset"} => row.phase \in {"initial", "tracking"}
  PROVE  PageFits(w)'
BY DEF FeedInv, PageFits, SameRow

LEMMA RowKept ==
  ASSUME RowFits, SameRow, stored \subseteq stored'
  PROVE  RowFits'
BY DEF RowFits, SameRow

(* A worker that returns to the beginning of its tick.                       *)
LEMMA IdleFits ==
  ASSUME NEW w \in Workers, page'[w] = Idle
  PROVE  PageFits(w)'
<1>1. 1..0 = {}
  OBVIOUS
<1> QED BY <1>1 DEF PageFits, Idle

(* Steps that change nothing of the row but its lease.                       *)
LEMMA LeaseKeepsRow ==
  ASSUME TypeOK, NEW w \in Workers, TakeLease(w) \/ DropLease(w)
  PROVE  SameRow /\ current' = {w} /\ stored' = stored
BY DEF TakeLease, DropLease, SameRow, TypeOK, Rows

LEMMA StoreKeepsRow ==
  ASSUME UNCHANGED store
  PROVE  SameRow /\ current' = current /\ stored' = stored
BY DEF store, SameRow

-----------------------------------------------------------------------------
(* Every step keeps FeedInv, and is a step of MailFeed or leaves it alone.   *)
Follows == Feed!Next \/ UNCHANGED Feed!feed

OthersKept(w) == \A v \in Workers \ {w} : page'[v] = page[v]

LEMMA QuietStep ==
  ASSUME TypeOK, TypeOK', FeedInv, NEW w \in Workers, OthersKept(w), SameRow,
         stored' = stored, arrived' = arrived, current' \subseteq current \cup {w},
         PageFits(w)'
  PROVE  FeedInv' /\ Follows
<1>1. arrived \in Nat
  BY FeedAssumption, TypeParts DEF RestTypes
<1>2. ASSUME NEW v \in Workers \ {w} PROVE PageFits(v)'
  BY <1>1, UntouchedFits DEF OthersKept
<1>3. RowFits'
  BY RowKept DEF FeedInv
<1>4. UNCHANGED Feed!feed
  BY DEF Feed!feed, SameRow
<1> QED BY <1>2, <1>3, <1>4 DEF FeedInv, Follows

(* A worker wrote the row: nobody else knows its version any more.           *)
LEMMA WroteStep ==
  ASSUME TypeOK, TypeOK', FeedInv, NEW w \in Workers, OthersKept(w),
         stored \subseteq stored', arrived' = arrived, current' \subseteq {w},
         PageFits(w)', RowFits'
  PROVE  FeedInv'
<1>1. arrived \in Nat
  BY FeedAssumption, TypeParts DEF RestTypes
<1>2. ASSUME NEW v \in Workers \ {w} PROVE PageFits(v)'
  BY <1>1, UntouchedFits DEF OthersKept
<1> QED BY <1>2 DEF FeedInv

LEMMA GoQuietly ==
  ASSUME TypeOK, TypeOK', FeedInv, NEW w \in Workers, NEW step \in Steps, Go(w, step),
         SameRow, stored' = stored, arrived' = arrived, current' \subseteq current \cup {w},
         step # "commit",
         step \in {"recheck", "fetch"} =>
           page[w].at \in {"recheck", "fetch", "commit"} /\ w \in current,
         step \in {"open", "reset"} => row.phase \in {"initial", "tracking"}
  PROVE  FeedInv' /\ Follows
<1>1. /\ page'[w] = [page[w] EXCEPT !.at = step]
      /\ OthersKept(w)
  BY PageGo DEF OthersKept
<1>2. page'[w].from = page[w].from /\ page'[w].at = step
  BY <1>1, TypeParts DEF Pages
<1>3. PageFits(w)'
  BY <1>2, OwnFits
<1> QED BY <1>1, <1>3, QuietStep

LEMMA EndQuietly ==
  ASSUME TypeOK, TypeOK', FeedInv, NEW w \in Workers, EndTick(w), SameRow,
         stored' = stored, arrived' = arrived, current' \subseteq current \cup {w}
  PROVE  FeedInv' /\ Follows
<1>1. page'[w] = Idle /\ OthersKept(w)
  BY PageEnd DEF OthersKept
<1> QED BY <1>1, IdleFits, QuietStep

LEMMA NextQuietly ==
  ASSUME TypeOK, TypeOK', FeedInv, NEW w \in Workers, NextEvent(w), UNCHANGED store,
         arrived' = arrived
  PROVE  FeedInv' /\ Follows
<1>1. SameRow /\ current' = current /\ stored' = stored
  BY StoreKeepsRow
<1>2. OthersKept(w)
  BY PageNext DEF OthersKept
<1>3. CASE page'[w] = Idle
  BY <1>1, <1>2, <1>3, IdleFits, QuietStep
<1>4. CASE \E rest \in SUBSET (1..Last) :
             page'[w] = [page[w] EXCEPT !.todo = rest, !.at = "prior"]
  <2>1. page'[w].from = page[w].from /\ page'[w].at = "prior"
    BY <1>4, TypeParts DEF Pages
  <2>2. PageFits(w)'
    BY <1>1, <2>1, OwnFits
  <2> QED BY <1>1, <1>2, <2>2, QuietStep
<1> QED BY <1>3, <1>4, PageNext

LEMMA ReadStatusFollows ==
  ASSUME TypeOK, TypeOK', FeedInv, NEW w \in Workers, ReadStatus(w)
  PROVE  FeedInv' /\ Follows
<1>1. PICK step \in {"init", "list", "lease"} :
        page' = [page EXCEPT ![w] = [page[w] EXCEPT !.gen = row.gen, !.at = step]]
  BY StatusPage
<1>2. /\ page'[w].from = page[w].from /\ page'[w].at = step
      /\ OthersKept(w)
  BY <1>1, TypeParts DEF Pages, OthersKept
<1>3. /\ SameRow /\ stored' = stored /\ arrived' = arrived
      /\ current' \subseteq current \cup {w}
  BY DEF ReadStatus, Elsewhere, SameRow
<1>4. PageFits(w)'
  BY <1>2, <1>3, OwnFits
<1> QED BY <1>2, <1>3, <1>4, QuietStep

LEMMA InitializeFollows ==
  ASSUME TypeOK, TypeOK', FeedInv, NEW w \in Workers, Initialize(w)
  PROVE  FeedInv' /\ Follows
<1>0. arrived' = arrived
  BY DEF Initialize, Elsewhere
<1>1. CASE row.phase # "absent"
  <2>1. Go(w, "status") /\ UNCHANGED store
    BY <1>1 DEF Initialize
  <2> QED BY <1>0, <2>1, StoreKeepsRow, GoQuietly DEF Steps
<1>2. CASE row.phase = "absent"
  <2>1. InsertInitial(w) /\ page' = [page EXCEPT ![w].at = "lease", ![w].gen = 1]
    BY <1>2 DEF Initialize
  <2>2. /\ page'[w].from = page[w].from /\ page'[w].at = "lease"
        /\ OthersKept(w)
    <3>1. page' = [page EXCEPT ![w] = [page[w] EXCEPT !.at = "lease", !.gen = 1]]
      BY <2>1, InitialPage
    <3> QED BY <3>1, TypeParts DEF Pages, OthersKept
  <2>3. /\ row'.gen = 1 /\ row'.phase = "initial" /\ row'.cursor = row.cursor
        /\ current' = {w} /\ stored' = stored
    BY <2>1 DEF InsertInitial, TypeOK, Rows
  <2>4. row.gen = 0 /\ row.cursor.upTo = 0
    BY <1>2 DEF FeedInv, RowFits
  <2>5. PageFits(w)'
    BY <2>2, <2>3 DEF FeedInv, PageFits
  <2>6. RowFits'
    BY <2>3 DEF FeedInv, RowFits
  <2>7. Feed!Begin
    BY <1>0, <1>2, <2>3, <2>4 DEF Feed!Begin
  <2> QED BY <1>0, <2>2, <2>3, <2>5, <2>6, <2>7, WroteStep DEF Follows, Feed!Next
<1> QED BY <1>1, <1>2

LEMMA AcquireFollows ==
  ASSUME TypeOK, TypeOK', FeedInv, NEW w \in Workers, AcquireLease(w)
  PROVE  FeedInv' /\ Follows
<1>0. arrived' = arrived
  BY DEF AcquireLease, Elsewhere
<1>1. CASE MayLease(w, page[w].gen)
  <2>1. TakeLease(w) /\ Go(w, "open") /\ row.phase \in {"initial", "tracking"}
    BY <1>1 DEF AcquireLease, MayLease
  <2> QED BY <1>0, <2>1, LeaseKeepsRow, GoQuietly DEF Steps
<1>2. CASE ~MayLease(w, page[w].gen)
  BY <1>0, <1>2, StoreKeepsRow, EndQuietly DEF AcquireLease
<1> QED BY <1>1, <1>2

LEMMA OpenFollows ==
  ASSUME TypeOK, TypeOK', FeedInv, NEW w \in Workers, OpenCursor(w)
  PROVE  FeedInv' /\ Follows
<1>0. arrived' = arrived /\ SameRow /\ current' = current /\ stored' = stored
  BY StoreKeepsRow DEF OpenCursor, Elsewhere
<1>1. CASE MayOpen(w, page[w].gen)
  <2>1. /\ page'[w].from = row.cursor.upTo /\ page'[w].at \in {"fetch", "recheck"}
        /\ OthersKept(w)
    <3> DEFINE next == [page[w] EXCEPT !.from = row.cursor.upTo, !.kind = row.cursor.kind,
                                       !.at = IF row.cursor.kind = "none" THEN "fetch"
                                                                          ELSE "recheck"]
    <3>1. page' = [page EXCEPT ![w] = next] /\ page \in [Workers -> Pages]
      BY <1>1, OpenPage, TypeParts
    <3>2. next.from = row.cursor.upTo /\ next.at \in {"fetch", "recheck"}
      BY <3>1 DEF Pages
    <3> HIDE DEF next
    <3> QED BY <3>1, <3>2 DEF OthersKept
  <2>2. w \in current /\ page[w].at = "open"
    BY <1>1 DEF MayOpen, Fenced, OpenCursor
  <2>3. PageFits(w)'
    BY <1>0, <2>1, <2>2 DEF FeedInv, RowFits, PageFits, SameRow
  <2> QED BY <1>0, <2>1, <2>3, QuietStep
<1>2. CASE ~MayOpen(w, page[w].gen)
  BY <1>0, <1>2, GoQuietly DEF OpenCursor, Steps
<1> QED BY <1>1, <1>2

LEMMA RecheckFollows ==
  ASSUME TypeOK, TypeOK', FeedInv, NEW w \in Workers, RecheckLease(w)
  PROVE  FeedInv' /\ Follows
<1>0. arrived' = arrived /\ SameRow /\ current' = current /\ stored' = stored
  BY StoreKeepsRow DEF RecheckLease, Elsewhere
<1>1. CASE MayOpen(w, page[w].gen)
  BY <1>0, <1>1, GoQuietly DEF RecheckLease, MayOpen, Fenced, Steps
<1>2. CASE ~MayOpen(w, page[w].gen)
  BY <1>0, <1>2, GoQuietly DEF RecheckLease, Steps
<1> QED BY <1>1, <1>2

LEMMA FetchFollows ==
  ASSUME TypeOK, TypeOK', FeedInv, NEW w \in Workers, FetchPage(w)
  PROVE  FeedInv' /\ Follows
<1>0. /\ arrived' = arrived /\ SameRow /\ current' = current /\ stored' = stored
      /\ page[w].at = "fetch"
  BY StoreKeepsRow DEF FetchPage, Elsewhere
<1>1. PICK upTo \in page[w].from..arrived, kind \in Kinds :
        page' = [page EXCEPT ![w] = [page[w] EXCEPT !.upTo = upTo, !.kind = kind,
                                                    !.at = "commit"]]
  BY FetchedPage
<1>2. /\ page'[w].from = page[w].from /\ page'[w].upTo = upTo /\ page'[w].at = "commit"
      /\ OthersKept(w)
  BY <1>1, TypeParts DEF Pages, OthersKept
<1>3. page[w].from \in Nat /\ arrived \in Nat
  BY TypeParts, FeedAssumption DEF Pages, RestTypes
<1>4. page[w].from <= upTo /\ upTo <= arrived
  BY <1>3
<1>5. PageFits(w)'
  BY <1>0, <1>2, <1>4 DEF FeedInv, PageFits, SameRow
<1> QED BY <1>0, <1>2, <1>5, QuietStep

LEMMA CommitFollows ==
  ASSUME TypeOK, TypeOK', FeedInv, NEW w \in Workers, CommitPage(w)
  PROVE  FeedInv' /\ Follows
<1>0. arrived' = arrived /\ page[w].at = "commit"
  BY DEF CommitPage, Elsewhere
<1>1. CASE MayCommit(w, page[w].gen)
  <2>1. /\ InstallPage(w, page[w]) /\ Go(w, "release") /\ w \in current
        /\ row.phase \in {"initial", "tracking"}
    BY <1>1 DEF CommitPage, MayCommit, Fenced
  <2>2. /\ page'[w].from = page[w].from /\ page'[w].at = "release"
        /\ OthersKept(w)
    BY <2>1, PageGo, TypeParts DEF Pages, OthersKept, Steps
  <2>3. /\ row'.gen = row.gen /\ row'.cursor.upTo = page[w].upTo
        /\ row'.phase \in {"initial", "tracking"} /\ current' = {w}
        /\ stored' = stored \cup (page[w].from + 1)..page[w].upTo
    BY <2>1 DEF InstallPage, TypeOK, Rows
  <2>4. /\ page[w].from = row.cursor.upTo /\ page[w].from <= page[w].upTo
        /\ page[w].upTo <= arrived /\ 1..page[w].from \subseteq stored
        /\ row.gen > 0
    BY <1>0, <2>1 DEF FeedInv, PageFits, RowFits
  <2>5. page[w].from \in Nat /\ page[w].upTo \in Nat /\ arrived \in Nat
    BY TypeParts, FeedAssumption DEF Pages, RestTypes
  <2>6. 1..page[w].upTo \subseteq stored'
    BY <2>3, <2>4, <2>5
  <2>7. PageFits(w)'
    BY <2>2, <2>3, <2>4 DEF PageFits
  <2>8. RowFits'
    BY <2>3, <2>4, <2>6 DEF RowFits
  <2>9. Feed!Advance
    BY <1>0, <2>1, <2>3, <2>4, <2>5 DEF Feed!Advance
  <2> QED BY <1>0, <2>2, <2>3, <2>7, <2>8, <2>9, WroteStep DEF Follows, Feed!Next
<1>2. CASE ~MayCommit(w, page[w].gen)
  BY <1>0, <1>2, StoreKeepsRow, GoQuietly DEF CommitPage, Steps
<1> QED BY <1>1, <1>2

LEMMA ResetFollows ==
  ASSUME TypeOK, TypeOK', FeedInv, NEW w \in Workers, MarkReset(w)
  PROVE  FeedInv' /\ Follows
<1>0. arrived' = arrived /\ page[w].at = "reset"
  BY DEF MarkReset, Elsewhere
<1>1. CASE Fenced(w, page[w].gen)
  <2>1. InstallReset(w) /\ Go(w, "list") /\ w \in current
    BY <1>1 DEF MarkReset, Fenced
  <2>2. /\ page'[w].from = page[w].from /\ page'[w].at = "list"
        /\ OthersKept(w)
    <3>1. page'[w] = [page[w] EXCEPT !.at = "list"] /\ OthersKept(w)
      BY <2>1, PageGo DEF OthersKept, Steps
    <3> QED BY <3>1, TypeParts DEF Pages
  <2>3. /\ row'.gen = row.gen /\ row'.cursor = row.cursor
        /\ row'.phase = "reset_required" /\ current' = {w} /\ stored' = stored
    BY <2>1 DEF InstallReset, TypeOK, Rows
  <2>4. row.phase \in {"initial", "tracking"} /\ row.gen > 0
    BY <1>0, <2>1 DEF FeedInv, PageFits, RowFits
  <2>5. PageFits(w)'
    BY <2>2, <2>3 DEF FeedInv, PageFits
  <2>6. RowFits'
    BY <2>3, <2>4 DEF FeedInv, RowFits
  <2>7. Feed!Stop
    BY <1>0, <2>3, <2>4 DEF Feed!Stop
  <2> QED BY <1>0, <2>2, <2>3, <2>5, <2>6, <2>7, WroteStep DEF Follows, Feed!Next
<1>2. CASE ~Fenced(w, page[w].gen)
  BY <1>0, <1>2, StoreKeepsRow, GoQuietly DEF MarkReset, Steps
<1> QED BY <1>1, <1>2

LEMMA ReleaseFollows ==
  ASSUME TypeOK, TypeOK', FeedInv, NEW w \in Workers, ReleaseLease(w)
  PROVE  FeedInv' /\ Follows
<1>1. arrived' = arrived
  BY DEF ReleaseLease, Elsewhere
<1>2. SameRow /\ stored' = stored /\ current' \subseteq current \cup {w}
  BY LeaseKeepsRow, StoreKeepsRow DEF ReleaseLease
<1>3. CASE Go(w, "list")
  BY <1>1, <1>2, <1>3, GoQuietly DEF Steps
<1>4. CASE EndTick(w)
  BY <1>1, <1>2, <1>4, EndQuietly
<1> QED BY <1>3, <1>4 DEF ReleaseLease

LEMMA WorkerFollows ==
  ASSUME TypeOK, TypeOK', FeedInv, NEW w \in Workers, WorkerStep(w)
  PROVE  FeedInv' /\ Follows
<1>1. CASE ListEvents(w)
  <2>0. arrived' = arrived /\ SameRow /\ current' = current /\ stored' = stored
    BY <1>1, StoreKeepsRow DEF ListEvents, Elsewhere
  <2>1. CASE EndTick(w)
    BY <2>0, <2>1, EndQuietly
  <2>2. CASE page' = [page EXCEPT ![w].todo = Batch, ![w].at = "prior"]
    <3>1. page' = [page EXCEPT ![w] = [page[w] EXCEPT !.todo = Batch, !.at = "prior"]]
      BY <2>2, TypeParts
    <3>2. page'[w].from = page[w].from /\ page'[w].at = "prior" /\ OthersKept(w)
      BY <3>1, TypeParts DEF Pages, OthersKept
    <3>3. PageFits(w)'
      BY <2>0, <3>2, OwnFits
    <3> QED BY <2>0, <3>2, <3>3, QuietStep
  <2> QED BY <1>1, <2>1, <2>2 DEF ListEvents
<1>2. CASE CheckEvent(w)
  <2>0. arrived' = arrived /\ UNCHANGED store
    BY <1>2 DEF CheckEvent, Elsewhere
  <2>1. CASE Go(w, "post")
    BY <2>0, <2>1, StoreKeepsRow, GoQuietly DEF Steps
  <2> QED BY <1>2, <2>0, <2>1, NextQuietly DEF CheckEvent
<1>3. CASE PostEvent(w)
  BY <1>3, NextQuietly DEF PostEvent
<1> QED BY <1>1, <1>2, <1>3, ReadStatusFollows, InitializeFollows, AcquireFollows,
           OpenFollows, RecheckFollows, FetchFollows, CommitFollows, ResetFollows,
           ReleaseFollows DEF WorkerStep

LEMMA FaultFollows ==
  ASSUME TypeOK, TypeOK', FeedInv, NEW w \in Workers, Fault(w)
  PROVE  FeedInv' /\ Follows
<1>0. arrived' = arrived /\ UNCHANGED store
  BY DEF Fault, FetchGone, PageFails, PostUncertain, Lost
<1>1. SameRow /\ current' = current /\ stored' = stored
  BY <1>0, StoreKeepsRow
<1>2. CASE FetchGone(w)
  <2>1. Go(w, "reset") /\ page[w].at = "fetch"
    BY <1>2 DEF FetchGone
  <2>2. CASE w \in current
    <3>1. row.phase \in {"initial", "tracking"}
      BY <2>1, <2>2 DEF FeedInv, PageFits
    <3> QED BY <1>0, <1>1, <2>1, <3>1, GoQuietly DEF Steps
  <2>3. CASE w \notin current
    <3>1. /\ page'[w].from = page[w].from /\ page'[w].at = "reset"
          /\ OthersKept(w)
      <4>1. page'[w] = [page[w] EXCEPT !.at = "reset"] /\ OthersKept(w)
        BY <2>1, PageGo DEF OthersKept, Steps
      <4> QED BY <4>1, TypeParts DEF Pages
    <3>2. PageFits(w)'
      BY <1>1, <2>3, <3>1 DEF FeedInv, PageFits
    <3> QED BY <1>0, <1>1, <3>1, <3>2, QuietStep
  <2> QED BY <2>2, <2>3
<1>3. CASE PageFails(w)
  BY <1>0, <1>1, <1>3, GoQuietly DEF PageFails, Steps
<1>4. CASE PostUncertain(w)
  BY <1>0, <1>4, NextQuietly DEF PostUncertain
<1>5. CASE Lost(w)
  BY <1>0, <1>1, <1>5, EndQuietly DEF Lost
<1> QED BY <1>2, <1>3, <1>4, <1>5 DEF Fault

(* The clock and the operator's look at the row.                             *)
LEMMA IdleAround ==
  ASSUME TypeOK, TypeOK', FeedInv, SameRow, stored' = stored, page' = page,
         arrived \in Nat, arrived' \in Nat, arrived <= arrived',
         current' \subseteq current \cup {Staff}
  PROVE  FeedInv'
<1>1. ASSUME NEW v \in Workers PROVE PageFits(v)'
  BY ActorAssumption, UntouchedFits
<1> QED BY <1>1, RowKept DEF FeedInv

LEMMA AroundFollows ==
  ASSUME TypeOK, TypeOK', FeedInv, Around
  PROVE  FeedInv' /\ Follows
<1>0. arrived \in Nat /\ arrived' \in Nat
  BY FeedAssumption, TypeParts, TypePartsNext DEF RestTypes
<1>1. CASE LeaseRunsOut \/ LeaseOutlived
  <2>1. SameRow /\ UNCHANGED <<current, stored, arrived, page>>
    BY <1>1 DEF LeaseRunsOut, LeaseOutlived, SameRow, work, TypeOK, Rows
  <2>2. UNCHANGED Feed!feed
    BY <2>1 DEF Feed!feed, SameRow
  <2> QED BY <1>0, <2>1, <2>2, IdleAround DEF Follows
<1>2. CASE ReadRecovery
  <2>1. SameRow /\ UNCHANGED <<stored, arrived, page>> /\ current' = current \cup {Staff}
    BY <1>2 DEF ReadRecovery, SameRow
  <2>2. UNCHANGED Feed!feed
    BY <2>1 DEF Feed!feed, SameRow
  <2> QED BY <1>0, <2>1, <2>2, IdleAround DEF Follows
<1>3. CASE RestartGeneration
  <2>1. CASE InsertNextGeneration
    <3>1. /\ row'.gen = row.gen + 1 /\ row'.phase = "initial" /\ row'.cursor.upTo = 0
          /\ current' = {} /\ UNCHANGED <<stored, arrived, page>>
      BY <1>3, <2>1 DEF RestartGeneration, InsertNextGeneration, NoCursor
    <3>2. 1..0 = {} /\ row.gen \in Nat
      BY TypeParts DEF StoreTypes, Rows
    <3>3. RowFits'
      BY <3>1, <3>2 DEF RowFits
    <3>4. ASSUME NEW v \in Workers PROVE PageFits(v)'
      BY <3>1 DEF FeedInv, PageFits
    <3>5. Feed!Begin
      BY <3>1 DEF Feed!Begin
    <3> QED BY <3>3, <3>4, <3>5 DEF FeedInv, Follows, Feed!Next
  <2>2. CASE UNCHANGED store
    <3>1. SameRow /\ UNCHANGED <<stored, arrived, page, current>>
      BY <1>3, <2>2, StoreKeepsRow DEF RestartGeneration
    <3>2. UNCHANGED Feed!feed
      BY <3>1 DEF Feed!feed, SameRow
    <3> QED BY <1>0, <3>1, <3>2, IdleAround DEF Follows
  <2> QED BY <1>3, <2>1, <2>2 DEF RestartGeneration
<1>4. CASE Arrive
  <2>1. /\ SameRow /\ UNCHANGED <<stored, page, current>> /\ arrived < Last
        /\ arrived' = arrived + 1
    BY <1>4, StoreKeepsRow DEF Arrive, work
  <2>2. Feed!Arrive
    BY <2>1 DEF Feed!Arrive, SameRow
  <2> QED BY <1>0, <2>1, <2>2, IdleAround DEF Follows, Feed!Next
<1> QED BY <1>1, <1>2, <1>3, <1>4 DEF Around

LEMMA StutterFollows ==
  ASSUME TypeOK, TypeOK', FeedInv, UNCHANGED vars
  PROVE  FeedInv' /\ Follows
<1>1. SameRow /\ UNCHANGED <<stored, page, current, arrived>>
  BY DEF vars, store, work, SameRow
<1>2. arrived \in Nat
  BY FeedAssumption, TypeParts DEF RestTypes
<1>3. UNCHANGED Feed!feed
  BY <1>1 DEF Feed!feed, SameRow
<1> QED BY <1>1, <1>2, <1>3, IdleAround DEF Follows

LEMMA StepFollows ==
  ASSUME TypeOK, TypeOK', FeedInv, [Next]_vars
  PROVE  FeedInv' /\ Follows
BY StepKinds, WorkerFollows, FaultFollows, AroundFollows, StutterFollows

LEMMA FeedHolds == Spec => []FeedInv
BY TypesHold, InitFeed, StepFollows, PTL DEF Spec

(* Whatever page was lost, fenced or read twice, and whoever restarted the   *)
(* generation meanwhile, every message up to the cursor is kept.             *)
THEOREM NothingIsSkipped == Spec => []NothingSkipped
<1>1. FeedInv => NothingSkipped
  BY DEF FeedInv, RowFits, NothingSkipped
<1> QED BY <1>1, FeedHolds, PTL

LEMMA StartFeed == Init => Feed!Init
BY DEF Init, StoreInit, Feed!Init, NoCursor

(* The workers, the store and the operator implement MailFeed: what is kept  *)
(* grows by exactly what a page of the current generation read.              *)
THEOREM FeedIsKept == Spec => KeepsFeed
<1>1. TypeOK /\ TypeOK' /\ FeedInv /\ [Next]_vars => [Feed!Next]_(Feed!feed)
  BY StepFollows DEF Follows
<1> QED BY <1>1, TypesHold, FeedHolds, StartFeed, PTL DEF Spec, KeepsFeed, Feed!Spec

-----------------------------------------------------------------------------
(* The conversation.                                                         *)
LEMMA PostedStep ==
  ASSUME TypeOK, PostedOnce, [Next]_vars
  PROVE  PostedOnce'
<1>1. CASE \E w \in Workers : PostEvent(w)
  <2>1. PICK w \in Workers : PostEvent(w)
    BY <1>1
  <2> SUFFICES ASSUME NEW m \in 1..Last
               PROVE  posted'[m] = IF m \in inbox' THEN 1 ELSE 0
    BY DEF PostedOnce
  <2>2. /\ posted'[m] = IF m \in Turn(w) \ inbox THEN posted[m] + 1 ELSE posted[m]
        /\ inbox' = inbox \cup Turn(w)
    BY <2>1 DEF PostEvent
  <2> QED BY <2>2 DEF PostedOnce
<1>2. CASE UNCHANGED <<posted, inbox>>
  BY <1>2 DEF PostedOnce
<1>3. ASSUME NEW w \in Workers, WorkerStep(w) PROVE PostEvent(w) \/ UNCHANGED <<posted, inbox>>
  BY <1>3 DEF WorkerStep, ReadStatus, Initialize, AcquireLease, OpenCursor, RecheckLease,
              FetchPage, CommitPage, MarkReset, ReleaseLease, ListEvents, CheckEvent, Elsewhere
<1>4. ASSUME NEW w \in Workers, Fault(w) PROVE UNCHANGED <<posted, inbox>>
  BY <1>4 DEF Fault, FetchGone, PageFails, PostUncertain, Lost
<1>5. Around => UNCHANGED <<posted, inbox>>
  BY DEF Around, LeaseRunsOut, LeaseOutlived, ReadRecovery, RestartGeneration, Arrive
<1>6. UNCHANGED vars => UNCHANGED <<posted, inbox>>
  BY DEF vars
<1> QED BY <1>1, <1>2, <1>3, <1>4, <1>5, <1>6, StepKinds

(* Two workers that project one event post it once, and never without the    *)
(* journal row that says so.                                                 *)
THEOREM PostedExactlyOnce == Spec => []PostedOnce
<1>1. Init => PostedOnce
  BY DEF Init, PostedOnce
<1> QED BY <1>1, TypesHold, PostedStep, PTL DEF Spec
=============================================================================
