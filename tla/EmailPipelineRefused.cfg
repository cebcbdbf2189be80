\* The documented meaning of a refused message, which the code does not keep.
SPECIFICATION Spec
CONSTANTS
  m1 = m1
  m2 = m2
  Mails <- OneMail
  Class <- Good
  MaxAttempts = 2
  MaxSessions = 1
INVARIANT RefusedWasNotSent
CHECK_DEADLOCK FALSE
