SPECIFICATION Spec
CONSTANTS
  w1 = w1
  w2 = w2
  clerk = clerk
  owner = owner
  t1 = t1
  t2 = t2
  Workers <- MCWorkers
  Staff <- MCStaff
  Nobody = nobody
  Actor <- MCActor
  Drafts <- MCDrafts
  Last = 2
  Texts <- MCTexts
  NoText = none
  Authored = t1
  MaxFailures = 0
  MaxStaffActs = 2
PROPERTIES
  SentIsRecoverable
CHECK_DEADLOCK FALSE
