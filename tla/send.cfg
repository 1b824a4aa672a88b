SPECIFICATION Spec
CONSTANTS
  w1 = w1
  w2 = w2
  clerk = clerk
  owner = owner
  t1 = t1
  t2 = t2
  Workers <- MCWorkers
  Staff <- MCStaff
  Nobody = nobody
  Actor <- MCActor
  Drafts <- MCDrafts
  Last = 1
  Texts <- MCTexts
  NoText = none
  Authored = t1
  MaxFailures = 1
  MaxStaffActs = 2
INVARIANTS
  TypeOK
  CallsAreJournaled
  CommittedIsSent
  OneAutoReply
PROPERTIES
  PausedIsNotSent
  KeepsPromise
  SentIsSettled
CHECK_DEADLOCK FALSE
