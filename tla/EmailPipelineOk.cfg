\* What the API answers, which the code does not guarantee.
SPECIFICATION Spec
CONSTANTS
  m1 = m1
  m2 = m2
  Mails <- OneMail
  Class <- Good
  MaxAttempts = 1
  MaxSessions = 1
INVARIANT OkMeansQueued
CHECK_DEADLOCK FALSE
