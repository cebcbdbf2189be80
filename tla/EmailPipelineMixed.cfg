\* A proper mail and a message without recipient, one in the handler and the other
\* buffered behind it, under fairness.
SPECIFICATION FairSpec
CONSTANTS
  m1 = m1
  m2 = m2
  Mails <- TwoMails
  Class <- GoodAndSilent
  MaxAttempts = 2
  MaxSessions = 2
INVARIANT OutstandingAgree
PROPERTIES
  DeliversAtLeastOnce
  QueuedIsSettled
CHECK_DEADLOCK FALSE
