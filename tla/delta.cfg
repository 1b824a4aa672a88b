SPECIFICATION Spec
CONSTANTS
  w1 = w1
  w2 = w2
  Workers <- MCWorkers
  Staff = staff
  Nobody = nobody
  Last = 2
  Senderless <- MCSenderless
  PageSize = 2
  BatchLimit = 2
  MaxGeneration = 2
  MaxFailures = 1
  MaxGone = 1
INVARIANTS
  TypeOK
  NothingSkipped
  PostedOnce
PROPERTIES
  KeepsFeed
  MailIsStored
  MailReachesInbox
CHECK_DEADLOCK FALSE
