----------------------------- MODULE MailHandoff -----------------------------
(***************************************************************************)
(* What one call of IEmailService.SendEmailAsync promises its caller, the  *)
(* message handler of EmailConsumerWorker: it ends, either normally or     *)
(* with an exception; while it runs it may give the SMTP server the mail a *)
(* bounded number of times; and it ends normally only if the server took   *)
(* the mail at least once.  It does NOT promise that a call which ends     *)
(* with an exception sent nothing.                                         *)
(***************************************************************************)
EXTENDS Naturals

CONSTANT MaxCopies      \* most copies of the mail one call may hand over

VARIABLES outcome,      \* "running", then "returned" or "raised"
          copies        \* copies of the mail the SMTP server accepted so far

vars == <<outcome, copies>>

Init == outcome = "running" /\ copies = 0

\* The SMTP server accepts one copy of the mail.
HandOver ==
  /\ outcome = "running"
  /\ copies < MaxCopies
  /\ copies' = copies + 1
  /\ UNCHANGED outcome

\* The call ends normally: the caller will acknowledge the message.
Return ==
  /\ outcome = "running"
  /\ copies > 0
  /\ outcome' = "returned"
  /\ UNCHANGED copies

\* The call ends with an exception: the caller will refuse the message.
Raise ==
  /\ outcome = "running"
  /\ outcome' = "raised"
  /\ UNCHANGED copies

Next == HandOver \/ Return \/ Raise

Spec == Init /\ [][Next]_vars /\ WF_vars(Return \/ Raise)
=============================================================================
