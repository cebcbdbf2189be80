---------------------------- MODULE AtLeastOnce ----------------------------
(***************************************************************************)
(* What the email pipeline promises for every mail, whatever connections,  *)
(* brokers and processes do in between: a mail the broker has stored stays *)
(* there until the worker settles it, once and for all; it is settled as   *)
(* done only if the SMTP server took a copy of it or if there is nobody to *)
(* send it to; copies may be handed over more than once, and even after    *)
(* the mail has been settled.                                              *)
(***************************************************************************)
EXTENDS Naturals

CONSTANTS Mails,        \* the mails a producer may queue
          Silent        \* those among them that name no recipient

VARIABLES fate,         \* of each mail: "new", "stored", then "done" or "discarded"
          copies        \* of each mail: copies the SMTP server took

vars == <<fate, copies>>

Init ==
  /\ fate = [m \in Mails |-> "new"]
  /\ copies = [m \in Mails |-> 0]

\* The broker stores the mail.
Store(m) ==
  /\ fate[m] = "new"
  /\ fate' = [fate EXCEPT ![m] = "stored"]
  /\ UNCHANGED copies

\* The SMTP server takes one more copy.
HandOver(m) ==
  /\ fate[m] # "new"
  /\ copies' = [copies EXCEPT ![m] = @ + 1]
  /\ UNCHANGED fate

\* The mail is acknowledged.
Finish(m) ==
  /\ fate[m] = "stored"
  /\ copies[m] > 0 \/ m \in Silent
  /\ fate' = [fate EXCEPT ![m] = "done"]
  /\ UNCHANGED copies

\* The mail is refused and not requeued.
Discard(m) ==
  /\ fate[m] = "stored"
  /\ fate' = [fate EXCEPT ![m] = "discarded"]
  /\ UNCHANGED copies

Next == \E m \in Mails : Store(m) \/ HandOver(m) \/ Finish(m) \/ Discard(m)

Spec == Init /\ [][Next]_vars
=============================================================================
