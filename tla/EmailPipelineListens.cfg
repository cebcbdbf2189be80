\* The documented promise that the worker listens, which the code does not keep.
SPECIFICATION FairSpec
CONSTANTS
  m1 = m1
  m2 = m2
  Mails <- OneMail
  Class <- Good
  MaxAttempts = 1
  MaxSessions = 1
PROPERTY StartedWorkerListens
CHECK_DEADLOCK FALSE
