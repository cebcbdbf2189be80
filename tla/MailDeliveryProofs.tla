------------------------- MODULE MailDeliveryProofs -------------------------
(***************************************************************************)
(* For every number of retries: the call's counters stay in range, its     *)
(* copies are explained by its failures, it throws only when the retries   *)
(* are spent, and each of its steps is one of the promise it keeps.        *)
(***************************************************************************)
EXTENDS MailDelivery, TLAPS

(* The inductive invariant.  Beyond the type invariant and the two          *)
(* properties it says that inside the retry loop a retry is still due, and  *)
(* that no attempt has failed before the template was looked up.            *)
InLoop == {"build", "connect", "authenticate", "send", "reply", "disconnect", "wait"}

IInv ==
  /\ TypeOK
  /\ CopiesAreExplained
  /\ RaisedAfterAllRetries
  /\ pc \in InLoop => failures <= RetryCount /\ template # "unreadable"
  /\ pc = "load" => failures = 0
  /\ pc = "returned" => failures <= RetryCount

(* Initially nothing has been attempted. *)
LEMMA InitInv == Init => IInv
<1> SUFFICES ASSUME Init
             PROVE  IInv
  OBVIOUS
<1>1. wellFormed \in BOOLEAN /\ cancelled \in BOOLEAN
  BY Zenon DEF Init
<1>2. QED
  BY <1>1, RetryCountAssumption
     DEF Init, IInv, TypeOK, CopiesAreExplained, RaisedAfterAllRetries, InLoop

(* Every step of the call preserves the invariant. *)
LEMMA NextInv == IInv /\ [Next]_vars => IInv'
<1> SUFFICES ASSUME IInv, [Next]_vars
             PROVE  IInv'
  OBVIOUS
<1> USE RetryCountAssumption
     DEF IInv, TypeOK, CopiesAreExplained, RaisedAfterAllRetries, InLoop
<1>1. CASE LoadTemplate
  BY <1>1 DEF LoadTemplate
<1>2. CASE Backoff
  BY <1>2 DEF Backoff
<1>3. CASE BuildMessage
  BY <1>3 DEF BuildMessage, AttemptFails
<1>4. CASE Connect
  BY <1>4 DEF Connect, AttemptFails
<1>5. CASE Authenticate
  BY <1>5 DEF Authenticate, AttemptFails
<1>6. CASE Send
  BY <1>6 DEF Send, AttemptFails
<1>7. CASE Reply
  BY <1>7 DEF Reply, AttemptFails
<1>8. CASE Disconnect
  BY <1>8 DEF Disconnect, AttemptFails
<1>9. CASE Cancel
  BY <1>9 DEF Cancel
<1>10. CASE UNCHANGED vars
  BY <1>10 DEF vars
<1>11. QED
  BY <1>1, <1>2, <1>3, <1>4, <1>5, <1>6, <1>7, <1>8, <1>9, <1>10
     DEF Next, Step, Ended

LEMMA SpecInv == Spec => []IInv
<1>1. QED
  BY InitInv, NextInv, PTL DEF Spec

(* For every RetryCount, a call's counters stay within RetryCount + 1. *)
THEOREM TypeCorrect == Spec => []TypeOK
<1>1. IInv => TypeOK
  BY DEF IInv
<1>2. QED
  BY <1>1, SpecInv, PTL

(* For every RetryCount, a further copy of a mail goes out only because an *)
(* earlier attempt failed after the server had taken it.                   *)
THEOREM DuplicatesExplained == Spec => []CopiesAreExplained
<1>1. IInv => CopiesAreExplained
  BY DEF IInv
<1>2. QED
  BY <1>1, SpecInv, PTL

(* For every RetryCount, SendEmailAsync throws only when the template is   *)
(* unreadable or the retries are spent.                                    *)
THEOREM ThrowsLate == Spec => []RaisedAfterAllRetries
<1>1. IInv => RaisedAfterAllRetries
  BY DEF IInv
<1>2. QED
  BY <1>1, SpecInv, PTL

(* Every step of the call is a step of the promise, or changes nothing the *)
(* promise speaks of.                                                      *)
LEMMA StepRefines == IInv /\ IInv' /\ [Next]_vars => [Handoff!Next]_Handoff!vars
<1> SUFFICES ASSUME IInv, IInv', [Next]_vars
             PROVE  [Handoff!Next]_Handoff!vars
  OBVIOUS
<1> USE RetryCountAssumption
     DEF IInv, TypeOK, CopiesAreExplained, RaisedAfterAllRetries, InLoop,
         Handoff!Next, Handoff!vars, Handoff!HandOver, Handoff!Return, Handoff!Raise
<1>1. CASE LoadTemplate
  BY <1>1 DEF LoadTemplate
<1>2. CASE Backoff
  BY <1>2 DEF Backoff
<1>3. CASE BuildMessage
  BY <1>3 DEF BuildMessage, AttemptFails
<1>4. CASE Connect
  BY <1>4 DEF Connect, AttemptFails
<1>5. CASE Authenticate
  BY <1>5 DEF Authenticate, AttemptFails
<1>6. CASE Send
  BY <1>6 DEF Send, AttemptFails
<1>7. CASE Reply
  BY <1>7 DEF Reply, AttemptFails
<1>8. CASE Disconnect
  <2>1. CASE pc' = "returned"
    <3>1. copies' = copies /\ pc = "disconnect"
      BY <1>8 DEF Disconnect
    <3>2. copies = late + 1 /\ late \in Nat
      BY <3>1
    <3>3. copies > 0
      BY <3>2
    <3>4. QED
      BY <2>1, <3>1, <3>3
  <2>2. CASE AttemptFails
    BY <1>8, <2>2 DEF Disconnect, AttemptFails
  <2>3. QED
    BY <1>8, <2>1, <2>2 DEF Disconnect
<1>9. CASE Cancel
  BY <1>9 DEF Cancel
<1>10. CASE UNCHANGED vars
  BY <1>10 DEF vars
<1>11. QED
  BY <1>1, <1>2, <1>3, <1>4, <1>5, <1>6, <1>7, <1>8, <1>9, <1>10
     DEF Next, Step, Ended

(* The safety part of the promise, for every RetryCount: at most           *)
(* RetryCount + 1 copies, and a normal return only after at least one.     *)
THEOREM HandoffSafety == Spec => Handoff!Init /\ [][Handoff!Next]_Handoff!vars
<1>1. Init => Handoff!Init
  BY DEF Init, Handoff!Init
<1>2. QED
  BY <1>1, SpecInv, StepRefines, PTL DEF Spec
=============================================================================
