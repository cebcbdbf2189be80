---------------------------- MODULE MailDelivery ----------------------------
(***************************************************************************)
(* One call of EmailService.SendEmailAsync (SkillBuddy.Worker): the        *)
(* template is looked up, then RetryService runs SmtpProvider's            *)
(* connect - authenticate - send - disconnect sequence, again after each   *)
(* exception, until an attempt ends without one or the retries are spent.  *)
(*                                                                         *)
(* The SMTP server and the network are external: each of the four client   *)
(* calls may succeed or throw, and SendAsync may throw after the server    *)
(* has taken the mail (its reply was lost).  The stopping token, set by    *)
(* the worker's shutdown, may be cancelled at any moment.                  *)
(***************************************************************************)
EXTENDS Naturals

CONSTANT RetryCount       \* retries after the first attempt; 3 in the code

ASSUME RetryCountAssumption == RetryCount \in Nat

VARIABLES
  pc,         \* where the call is
  template,   \* what the Templates folder holds for the requested name
  wellFormed, \* whether a MimeMessage can be built from the request
  body,       \* the HTML body that will be mailed
  failures,   \* attempts that ended with an exception (Polly's try count)
  late,       \* those among them that failed after the server took the mail
  copies,     \* copies of the mail the server took, over all attempts
  cancelled   \* the stopping token

vars == <<pc, template, wellFormed, body, failures, late, copies, cancelled>>

Init ==
  /\ pc = "load"
  /\ template \in {"present", "missing", "unreadable"}
  /\ wellFormed \in BOOLEAN
  /\ body = "none"
  /\ failures = 0 /\ late = 0 /\ copies = 0
  /\ cancelled = FALSE

-----------------------------------------------------------------------------
(* TemplateService.LoadTemplate and ReplacePlaceholders, called before the *)
(* retry loop: a missing file is not an error, it becomes the body; only a *)
(* file that exists and cannot be read throws.                             *)

LoadTemplate ==
  /\ pc = "load"
  /\ \/ /\ template = "unreadable"
        /\ pc' = "raised"
        /\ UNCHANGED body
     \/ /\ template # "unreadable"
        /\ pc' = "build"
        /\ body' = IF template = "missing" THEN "notFound" ELSE "rendered"
  /\ UNCHANGED <<template, wellFormed, failures, late, copies, cancelled>>

(* RetryService: the policy handles every Exception, cancellation included, *)
(* and is given no token, so it waits and tries again whatever happened.    *)

Fault_RetriesOneMore ==
  /\ failures' = failures + 1
  /\ pc' = IF failures < RetryCount + 1 THEN "wait" ELSE "raised"

Fault_RetriesOneLess ==
  /\ failures' = failures + 1
  /\ pc' = IF failures + 1 < RetryCount THEN "wait" ELSE "raised"

AttemptFails ==
  /\ failures' = failures + 1
  /\ pc' = IF failures < RetryCount THEN "wait" ELSE "raised"

Backoff ==
  /\ pc = "wait"
  /\ pc' = "build"
  /\ UNCHANGED <<template, wellFormed, body, failures, late, copies, cancelled>>

(* SmtpProvider.SendEmailAsync: the message is built before the client's   *)
(* try block, but inside the retried action.                               *)

BuildMessage ==
  /\ pc = "build"
  /\ \/ wellFormed /\ pc' = "connect" /\ UNCHANGED failures
     \/ ~wellFormed /\ AttemptFails
  /\ UNCHANGED <<template, wellFormed, body, late, copies, cancelled>>

Connect ==
  /\ pc = "connect"
  /\ \/ ~cancelled /\ pc' = "authenticate" /\ UNCHANGED failures
     \/ AttemptFails
  /\ UNCHANGED <<template, wellFormed, body, late, copies, cancelled>>

Authenticate ==
  /\ pc = "authenticate"
  /\ \/ ~cancelled /\ pc' = "send" /\ UNCHANGED failures
     \/ AttemptFails
  /\ UNCHANGED <<template, wellFormed, body, late, copies, cancelled>>

(* SendAsync, first part: the server takes the mail, or the call throws    *)
(* before it does.                                                         *)
Send ==
  /\ pc = "send"
  /\ \/ ~cancelled /\ pc' = "reply" /\ copies' = copies + 1 /\ UNCHANGED failures
     \/ AttemptFails /\ UNCHANGED copies
  /\ UNCHANGED <<template, wellFormed, body, late, cancelled>>

(* SendAsync, second part: the server's reply arrives, or the call throws  *)
(* without it.                                                             *)
Fault_ReplyResent ==
  /\ pc = "reply"
  /\ \/ pc' = "disconnect" /\ UNCHANGED failures
     \/ pc' = "send" /\ UNCHANGED failures
  /\ UNCHANGED <<template, wellFormed, body, late, copies, cancelled>>

Reply ==
  /\ pc = "reply"
  /\ \/ ~cancelled /\ pc' = "disconnect" /\ UNCHANGED <<failures, late>>
     \/ AttemptFails /\ late' = late + 1
  /\ UNCHANGED <<template, wellFormed, body, copies, cancelled>>

Fault_DisconnectIgnored ==
  /\ pc = "disconnect"
  /\ \/ pc' = "returned" /\ UNCHANGED <<failures, late>>
     \/ pc' = "wait" /\ UNCHANGED <<failures, late>>
  /\ UNCHANGED <<template, wellFormed, body, copies, cancelled>>

Disconnect ==
  /\ pc = "disconnect"
  /\ \/ pc' = "returned" /\ UNCHANGED <<failures, late>>
     \/ AttemptFails /\ late' = late + 1
  /\ UNCHANGED <<template, wellFormed, body, copies, cancelled>>

(* The worker's shutdown cancels the token while the call runs.            *)
Cancel ==
  /\ ~cancelled
  /\ pc \notin {"returned", "raised"}
  /\ cancelled' = TRUE
  /\ UNCHANGED <<pc, template, wellFormed, body, failures, late, copies>>

\* The call has ended; nothing more happens.
Ended == pc \in {"returned", "raised"} /\ UNCHANGED vars

Step == \/ LoadTemplate \/ Backoff \/ BuildMessage
        \/ Connect \/ Authenticate \/ Send \/ Reply \/ Disconnect

Next == Step \/ Cancel \/ Ended

\* Every awaited client call ends (MailKit's timeout), and so does a wait.
Spec == Init /\ [][Next]_vars /\ WF_vars(Step)
-----------------------------------------------------------------------------
(* Type invariant: at most RetryCount + 1 attempts fail, and no more copies *)
(* than attempts are ever handed over.                                      *)
TypeOK ==
  /\ pc \in {"load", "build", "connect", "authenticate", "send", "reply",
              "disconnect", "wait", "returned", "raised"}
  /\ template \in {"present", "missing", "unreadable"}
  /\ wellFormed \in BOOLEAN
  /\ body \in {"none", "notFound", "rendered"}
  /\ failures \in 0..(RetryCount + 1)
  /\ late \in 0..failures
  /\ copies \in 0..(RetryCount + 1)
  /\ cancelled \in BOOLEAN

(* The recipient gets a second copy for one reason only: an earlier attempt *)
(* threw although the server had already taken the mail.  The attempt that  *)
(* ends the call contributes exactly one copy.                              *)
CopiesAreExplained ==
  copies = late + (IF pc \in {"reply", "disconnect", "returned"} THEN 1 ELSE 0)

(* SendEmailAsync throws in two cases only: the template file could not be  *)
(* read, and then nothing was attempted; or the first attempt and all the   *)
(* RetryCount retries have failed, whatever the exceptions were.            *)
RaisedAfterAllRetries ==
  pc = "raised" => \/ template = "unreadable" /\ failures = 0
                   \/ failures = RetryCount + 1

(* What the technical documentation says of the processing step: the mail   *)
(* that leaves is the template's HTML with its placeholders replaced.       *)
OnlyRenderedMailIsSent == copies > 0 => body = "rendered"

(* The call keeps the promise its caller relies on.                         *)
Handoff == INSTANCE MailHandoff WITH
  MaxCopies <- RetryCount + 1,
  outcome <- IF pc \in {"returned", "raised"} THEN pc ELSE "running"

KeepsHandoffPromise == Handoff!Spec
=============================================================================
