\* One mail, and a blank request, through up to three channels: reconnections,
\* restarts, stale handlers.
SPECIFICATION Spec
CONSTANTS
  m1 = m1
  m2 = m2
  Mails <- TwoMails
  Class <- GoodAndBlank
  MaxAttempts = 2
  MaxSessions = 3
INVARIANT TypeOK
INVARIANT CopiesBounded
PROPERTY SettledByItsDelivery
PROPERTY DeliversAtLeastOnce
CHECK_DEADLOCK FALSE
