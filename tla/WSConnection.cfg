SPECIFICATION FairSpec
CONSTANTS
  Sockets = {s1,s2,s3}
  Subs = {u1}
  MaxNotes = 2
  NoSocket = NoSocket
INVARIANTS PromiseIsCurrent NoSocketLeaked OneOutcome
PROPERTIES NotificationsInOrder EveryAttemptSettles
CHECK_DEADLOCK FALSE
